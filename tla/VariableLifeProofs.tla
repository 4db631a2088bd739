------------------------- MODULE VariableLifeProofs -------------------------
(***************************************************************************)
(* For any number of threads, graphs and gathering nodes, and for any      *)
(* checkpoint: the handle of a creating node is written once, before       *)
(* anybody reads it (IInv); every object has the references of those who   *)
(* point to it (RefInv); and who trains on an object it saw initialised    *)
(* finds it restored (RestInv).                                            *)
(***************************************************************************)
EXTENDS VariableLife, FiniteSetTheorems, TLAPS

Pcs == {"idle", "make", "publish", "flag", "wait", "output", "lookup", "run", "keep"}

Methods == {"none", "use", "draw", "InitRandomValues", "IsInitialized", "Destroy",
            "ImportValues", "FullOrDeltaImport"}

Ops == [method : Methods, cached : BOOLEAN, runs : Int]

\* What of the types the argument needs.
CallsOK ==
  /\ node \in [Creators -> [token : BOOLEAN, set : BOOLEAN, handle : BOOLEAN]]
  /\ call \in [Threads -> [pc : Pcs, node : Creators \cup Gatherers \cup {None},
                           op : Ops, tab : Creators \cup {None}]]
  /\ bound \in Creators \cup {None}
  /\ cache \in [Gatherers -> Creators \cup {None, Gone}]

Making(th) == call[th].pc \in {"make", "publish", "flag"}

\* Creating threads are at creating nodes.
AtNodes ==
  \A th \in Threads : Making(th) \/ call[th].pc \in {"wait", "output"}
                        => call[th].node \in Creators

\* A node has one maker at most, who has the token; nobody is handed the
\* handle meanwhile.
OneMaker ==
  \A th \in Threads : Making(th) =>
    /\ node[call[th].node].token
    /\ ~node[call[th].node].set
    /\ \A u \in Threads : u # th /\ Making(u) => call[u].node # call[th].node

\* The handle is written before the flag is set, and the token taken before.
InOrder ==
  /\ \A th \in Threads : call[th].pc = "flag" => node[call[th].node].handle
  /\ \A th \in Threads : call[th].pc = "output" => node[call[th].node].set
  /\ \A c \in Creators : node[c].set => node[c].handle /\ node[c].token

IInv == CallsOK /\ AtNodes /\ OneMaker /\ InOrder

-----------------------------------------------------------------------------
\* Every kernel is an Op.
LEMMA KernelsAreOps ==
  ASSUME NEW k \in Readers \cup Trainers \cup Importers
                   \cup {KvVariableGatherOrZerosOp, InitKvVariableOp, DestroyKvVariableOp}
  PROVE  k \in Ops
<1> USE DEF Scoped, Ops, Methods
<1>1. Scoped("use") \in Ops /\ Scoped("draw") \in Ops /\ Scoped("ImportValues") \in Ops
  OBVIOUS
<1>2. KvVariableGatherOrZerosOp \in Ops /\ BatchKvVariableGatherOrZerosOp \in Ops
  BY DEF KvVariableGatherOrZerosOp, BatchKvVariableGatherOrZerosOp
<1>3. /\ KvVariableIsInitializedOp \in Ops /\ InitKvVariableOp \in Ops
      /\ DestroyKvVariableOp \in Ops /\ KvVariableFullOrDeltaImportOp \in Ops
  BY DEF KvVariableIsInitializedOp, InitKvVariableOp, DestroyKvVariableOp,
    KvVariableFullOrDeltaImportOp
<1> HIDE DEF Scoped, Ops, Methods
<1>4. Readers \subseteq Ops
  BY <1>1, <1>2, <1>3 DEF Readers, KvVariableShapeOp, KvVariableSizeOp,
    KvVariableStorageSizeOp, KvVariableFrequencyOp, ReadKvVariableOp, KvVariableExportOp,
    KvVariableExportForMultiHashOp, KvVariableFullOrDeltaExportOp, KvVariableInsertOp,
    KvVariableGatherOp
<1>5. Trainers \subseteq Ops
  BY <1>1 DEF Trainers, KvVariableGatherOrInsertOp, KvVariableScatterUpdateOP,
    KvVariableGatherOrInsertWithCountsOp, KvVariableGatherOp
<1>6. Importers \subseteq Ops
  BY <1>1, <1>3 DEF Importers, KvVariableImportOp, KvVariableOldImportOp
<1> QED BY <1>2, <1>3, <1>4, <1>5, <1>6

LEMMA IdleIsACall ==
  Idle \in [pc : Pcs, node : Creators \cup Gatherers \cup {None},
            op : Ops, tab : Creators \cup {None}]
BY DEF Idle, NoOp, Ops, Methods, Pcs

LEMMA InvInit == Init => IInv
BY IdleIsACall DEF Init, IInv, CallsOK, AtNodes, OneMaker, InOrder, Making, Idle

LEMMA InvHandle == IInv => HandleIsReady
BY DEF IInv, AtNodes, OneMaker, InOrder, HandleIsReady, Making

\* Steps that leave the nodes alone and take one thread out of creation, or
\* leave it out of it, preserve the invariant.
LEMMA Elsewhere ==
  ASSUME IInv, UNCHANGED node, CallsOK', NEW th \in Threads,
         \A u \in Threads : u # th => call'[u] = call[u],
         call'[th].pc \notin {"make", "publish", "flag", "wait", "output"}
  PROVE  IInv'
BY DEF IInv, AtNodes, OneMaker, InOrder, Making

-----------------------------------------------------------------------------
(* The steps of a creation.                                                *)

LEMMA StartCreateInv ==
  ASSUME IInv, LifeAssumption, NEW th \in Threads, StartCreate(th)
  PROVE  IInv'
<1> DEFINE c == Graph[th]
<1>1. c \in Creators
  BY DEF LifeAssumption, Threads
<1>2. CallsOK'
  <2>1. node' = [node EXCEPT ![c].token = TRUE]
    BY DEF StartCreate
  <2>2. node' \in [Creators -> [token : BOOLEAN, set : BOOLEAN, handle : BOOLEAN]]
    BY <1>1, <2>1 DEF IInv, CallsOK
  <2>3. PICK l \in Pcs : call' = [call EXCEPT ![th].pc = l, ![th].node = c]
    BY DEF StartCreate, Pcs
  <2>4. UNCHANGED <<bound, cache>>
    BY DEF StartCreate
  <2> HIDE DEF c
  <2> QED BY <1>1, <2>2, <2>3, <2>4, ZenonT(30) DEF IInv, CallsOK
<1>3. /\ call'[th].node = c
      /\ call'[th].pc = IF node[c].token THEN "wait" ELSE "make"
      /\ \A u \in Threads : u # th => call'[u] = call[u]
      /\ node'[c].token
      /\ \A d \in Creators : node'[d].set = node[d].set /\ node'[d].handle = node[d].handle
                             /\ (node[d].token => node'[d].token)
  BY <1>1 DEF IInv, CallsOK, StartCreate
<1>4. AtNodes'
  BY <1>1, <1>3 DEF IInv, AtNodes, Making
<1>5. OneMaker'
  <2>1. \A u \in Threads : Making(u) /\ call[u].node = c => node[c].token
    BY DEF IInv, OneMaker
  <2>2. node[c].set => node[c].token
    BY <1>1 DEF IInv, InOrder
  <2> QED BY <1>1, <1>3, <2>1, <2>2 DEF IInv, OneMaker, Making, AtNodes
<1>6. InOrder'
  BY <1>1, <1>3 DEF IInv, InOrder, AtNodes, Making
<1> QED BY <1>2, <1>4, <1>5, <1>6 DEF IInv

LEMMA MakeInv ==
  ASSUME IInv, NEW th \in Threads, Make(th)
  PROVE  IInv'
<1>1. call[th].node \in Creators
  BY DEF IInv, AtNodes, Making, Make
<1>2. CallsOK'
  <2>1. PICK t \in Creators :
          bound' = t /\ call' = [call EXCEPT ![th].pc = "publish", ![th].tab = t]
    BY <1>1 DEF IInv, CallsOK, Make
  <2>2. UNCHANGED <<node, cache>>
    BY DEF Make
  <2> QED BY <2>1, <2>2, ZenonT(30) DEF IInv, CallsOK, Pcs
<1>3. /\ call[th].pc = "make" /\ call'[th].pc = "publish"
      /\ call'[th].node = call[th].node
      /\ \A u \in Threads : u # th => call'[u] = call[u]
      /\ node' = node
  BY DEF IInv, CallsOK, Make
<1> QED BY <1>2, <1>3 DEF IInv, AtNodes, OneMaker, InOrder, Making

LEMMA PublishInv ==
  ASSUME IInv, NEW th \in Threads, Publish(th)
  PROVE  IInv'
<1> DEFINE c == call[th].node
<1>1. c \in Creators
  BY DEF IInv, AtNodes, Making, Publish
<1>2. CallsOK'
  BY <1>1, ZenonT(30) DEF IInv, CallsOK, Publish, Goto, Pcs
<1>3. /\ call[th].pc = "publish" /\ call'[th].pc = "flag" /\ call'[th].node = c
      /\ \A u \in Threads : u # th => call'[u] = call[u]
      /\ node'[c].handle
      /\ \A d \in Creators : /\ node'[d].set = node[d].set /\ node'[d].token = node[d].token
                             /\ (node[d].handle => node'[d].handle)
  BY <1>1 DEF IInv, CallsOK, Publish, Goto
<1> QED BY <1>1, <1>2, <1>3 DEF IInv, AtNodes, OneMaker, InOrder, Making

LEMMA SetFlagInv ==
  ASSUME IInv, NEW th \in Threads, SetFlag(th)
  PROVE  IInv'
<1> DEFINE c == call[th].node
<1>1. c \in Creators
  BY DEF IInv, AtNodes, Making, SetFlag
<1>2. CallsOK'
  BY <1>1, ZenonT(30) DEF IInv, CallsOK, SetFlag, Pcs
<1>3. /\ call[th].pc = "flag" /\ call'[th].pc = "wait" /\ call'[th].node = c
      /\ \A u \in Threads : u # th => call'[u] = call[u]
      /\ node'[c].set
      /\ \A d \in Creators : /\ node'[d].handle = node[d].handle
                             /\ node'[d].token = node[d].token
                             /\ (d # c => node'[d].set = node[d].set)
  BY <1>1 DEF IInv, CallsOK, SetFlag
<1>4. node[c].handle /\ node[c].token
  BY <1>3 DEF IInv, InOrder, OneMaker, Making
<1>5. OneMaker'
  <2>1. \A u \in Threads : u # th /\ Making(u) => call[u].node # c
    BY <1>3 DEF IInv, OneMaker, Making
  <2> QED BY <1>1, <1>3, <2>1 DEF IInv, OneMaker, Making, AtNodes
<1> QED BY <1>1, <1>2, <1>3, <1>4, <1>5 DEF IInv, AtNodes, InOrder, Making

LEMMA WaitInv ==
  ASSUME IInv, NEW th \in Threads, Wait(th)
  PROVE  IInv'
<1>1. call[th].node \in Creators
  BY DEF IInv, AtNodes, Wait
<1>2. CallsOK'
  BY DEF IInv, CallsOK, Wait, Goto, Pcs, objects
<1>3. /\ call'[th].pc = "output" /\ call'[th].node = call[th].node
      /\ \A u \in Threads : u # th => call'[u] = call[u]
      /\ node' = node /\ node[call[th].node].set
  BY DEF IInv, CallsOK, Wait, Goto, objects
<1> QED BY <1>1, <1>2, <1>3 DEF IInv, AtNodes, OneMaker, InOrder, Making

-----------------------------------------------------------------------------
(* The rest of a thread's steps.                                           *)

\* A step that ends the call of a thread.
LEMMA EndInv ==
  ASSUME IInv, NEW th \in Threads, End(th), UNCHANGED node,
         bound' \in Creators \cup {None}, UNCHANGED cache
  PROVE  IInv'
<1>1. CallsOK'
  BY IdleIsACall DEF IInv, CallsOK, End
<1>2. \A u \in Threads : u # th => call'[u] = call[u]
  BY DEF IInv, CallsOK, End
<1>3. call'[th].pc = "idle"
  BY DEF IInv, CallsOK, End, Idle
<1> QED BY <1>1, <1>2, <1>3, Elsewhere

LEMMA BeginInv ==
  ASSUME IInv, NEW th \in Threads,
         NEW k \in Readers \cup Trainers \cup Importers
                   \cup {InitKvVariableOp, DestroyKvVariableOp},
         Begin(th, k)
  PROVE  IInv'
<1>1. k \in Ops
  BY KernelsAreOps
<1>2. CallsOK'
  BY <1>1, ZenonT(30) DEF IInv, CallsOK, Begin, objects, Pcs
<1>3. call'[th].pc = "lookup" /\ \A u \in Threads : u # th => call'[u] = call[u]
  BY DEF IInv, CallsOK, Begin
<1>4. UNCHANGED node
  BY DEF Begin, objects
<1> QED BY <1>2, <1>3, <1>4, Elsewhere

LEMMA LookupInv ==
  ASSUME IInv, NEW th \in Threads, Lookup(th)
  PROVE  IInv'
<1>1. CASE bound = None
  BY <1>1, EndInv DEF Lookup, IInv, CallsOK
<1>2. CASE bound # None
  <2>1. CallsOK'
    BY <1>2 DEF IInv, CallsOK, Lookup, Pcs
  <2>2. /\ call'[th].pc \in {"keep", "run"}
        /\ \A u \in Threads : u # th => call'[u] = call[u]
    BY <1>2 DEF IInv, CallsOK, Lookup
  <2> QED BY <2>1, <2>2, Elsewhere DEF Lookup
<1> QED BY <1>1, <1>2

LEMMA RunInv ==
  ASSUME IInv, NEW th \in Threads, Run(th)
  PROVE  IInv'
<1>1. CASE call[th].op.runs > 1
  <2>1. CallsOK'
    BY <1>1 DEF IInv, CallsOK, Run, Pcs, Ops
  <2>2. call'[th].pc = "lookup" /\ \A u \in Threads : u # th => call'[u] = call[u]
    BY <1>1 DEF IInv, CallsOK, Run
  <2> QED BY <2>1, <2>2, Elsewhere DEF Run
<1>2. CASE ~(call[th].op.runs > 1)
  BY <1>2, EndInv DEF Run, IInv, CallsOK
<1> QED BY <1>1, <1>2

LEMMA GatherInv ==
  ASSUME IInv, NEW th \in Threads, NEW g \in Gatherers, BeginGather(th, g)
  PROVE  IInv'
<1>1. KvVariableGatherOrZerosOp \in Ops
  BY KernelsAreOps
<1>2. cache[g] \in Creators \cup {None}
  BY DEF IInv, CallsOK, BeginGather
<1>3. CallsOK'
  BY <1>1, <1>2 DEF IInv, CallsOK, BeginGather, objects, Pcs
<1>4. call'[th].pc \in {"lookup", "run"} /\ \A u \in Threads : u # th => call'[u] = call[u]
  BY DEF IInv, CallsOK, BeginGather
<1> QED BY <1>3, <1>4, Elsewhere DEF BeginGather, objects

LEMMA KeepInv ==
  ASSUME IInv, NEW th \in Threads, Keep(th)
  PROVE  IInv'
<1>1. CallsOK'
  BY DEF IInv, CallsOK, Keep, Goto, Pcs
<1>2. call'[th].pc = "run" /\ \A u \in Threads : u # th => call'[u] = call[u]
  BY DEF IInv, CallsOK, Keep, Goto
<1> QED BY <1>1, <1>2, Elsewhere DEF Keep

\* Steps of no thread.
LEMMA NobodyInv ==
  ASSUME IInv, UNCHANGED <<node, call>>, bound' \in Creators \cup {None},
         cache' \in [Gatherers -> Creators \cup {None, Gone}]
  PROVE  IInv'
BY DEF IInv, CallsOK, AtNodes, OneMaker, InOrder, Making

LEMMA InvNext ==
  ASSUME IInv, LifeAssumption, [Next]_vars
  PROVE  IInv'
<1> USE DEF objects
<1>1. CASE UNCHANGED vars
  BY <1>1, NobodyInv DEF vars, clients, IInv, CallsOK
<1>2. ASSUME NEW th \in Threads, Continue(th)
      PROVE  IInv'
  <2>1. CASE Make(th)
    BY <2>1, MakeInv
  <2>2. CASE MakeFails(th)
    BY <2>2, EndInv DEF MakeFails, IInv, CallsOK
  <2>3. CASE Publish(th)
    BY <2>3, PublishInv
  <2>4. CASE SetFlag(th)
    BY <2>4, SetFlagInv
  <2>5. CASE Wait(th)
    BY <2>5, WaitInv
  <2>6. CASE Output(th)
    BY <2>6, EndInv DEF Output, IInv, CallsOK
  <2>7. CASE Lookup(th)
    BY <2>7, LookupInv
  <2>8. CASE Run(th)
    BY <2>8, RunInv
  <2>9. CASE IsInitialized(th)
    BY <2>9, EndInv DEF IsInitialized, IInv, CallsOK
  <2>10. CASE Delete(th)
    BY <2>10, EndInv DEF Delete
  <2>11. CASE Keep(th)
    BY <2>11, KeepInv
  <2>12. CASE GatherOrZeros(th)
    BY <2>12, EndInv DEF GatherOrZeros, IInv, CallsOK
  <2>13. CASE DrawFromNothing(th)
    BY <2>13, NobodyInv DEF DrawFromNothing, clients, IInv, CallsOK
  <2> QED BY <1>2, <2>1, <2>2, <2>3, <2>4, <2>5, <2>6, <2>7, <2>8, <2>9, <2>10,
             <2>11, <2>12, <2>13 DEF Continue
<1>3. ASSUME NEW th \in Workers, BeginSomething(th)
      PROVE  IInv'
  <2>0. th \in Threads
    BY DEF Threads
  <2>1. CASE StartCreate(th)
    BY <2>0, <2>1, StartCreateInv
  <2>2. CASE BeginRead(th)
    BY <2>0, <2>2, BeginInv DEF BeginRead
  <2>3. CASE BeginTrain(th)
    BY <2>0, <2>3, BeginInv DEF BeginTrain
  <2>4. CASE BeginDestroy(th)
    BY <2>0, <2>4, BeginInv DEF BeginDestroy
  <2>5. CASE \E g \in Gatherers : BeginGather(th, g)
    BY <2>0, <2>5, GatherInv
  <2> QED BY <1>3, <2>1, <2>2, <2>3, <2>4, <2>5 DEF BeginSomething
<1>4. Chief \in Threads
  BY DEF Threads
<1>5. CASE StartCreate(Chief)
  BY <1>4, <1>5, StartCreateInv
<1>6. CASE BeginInit
  BY <1>4, <1>6, BeginInv DEF BeginInit
<1>7. CASE BeginRestore
  BY <1>4, <1>7, BeginInv DEF BeginRestore
<1>8. ASSUME NEW g \in Gatherers, DestroyGatherer(g)
      PROVE  IInv'
  BY <1>8, NobodyInv DEF DestroyGatherer, clients, IInv, CallsOK
<1> QED BY <1>1, <1>2, <1>3, <1>5, <1>6, <1>7, <1>8 DEF Next

\* Whoever is given the handle of a creating node is given one that is
\* written, and that nobody is writing (kv_variable_ops.cc:57-116).
THEOREM HandlesReady == Spec => []HandleIsReady
<1>1. Init => IInv
  BY InvInit
<1>2. IInv /\ [Next]_vars => IInv'
  BY InvNext, LifeAssumption
<1>3. IInv => HandleIsReady
  BY InvHandle
<1> QED BY <1>1, <1>2, <1>3, PTL DEF Spec

-----------------------------------------------------------------------------
(* References: what keeps an object alive.                                 *)

\* What an owner adds to a number of references.
Counts(b) == IF b THEN 1 ELSE 0

Keepers(t) == {g \in Gatherers : cache[g] = t}

Holders(t) == {th \in Threads : Owns(th, t)}

\* References that nobody will ever drop.
Spare(t) == table[t].refs - Owners(t)

\* Nobody has made the object of this node.
Unmade(c) ==
  ~node[c].token \/ \E th \in Threads : call[th].pc = "make" /\ call[th].node = c

\* What a call looks like at each of its places.
Shape(th) ==
  LET c == call[th]
  IN /\ c.tab # None <=> c.pc \in {"publish", "flag", "keep", "run"}
     /\ c.pc = "idle" => c = Idle
     /\ Making(th) \/ c.pc \in {"wait", "output"} => c.op = NoOp
     /\ c.pc = "keep" => c.op.cached
     /\ c.op.cached => c.node \in Gatherers /\ c.op = KvVariableGatherOrZerosOp

CallShape == \A th \in Threads : Shape(th)

Fresh ==
  \A c \in Creators : Unmade(c) => table[c] = NotThere /\ \A th \in Threads : saw[th] # c

Counted == \A t \in Creators : Spare(t) >= 0 /\ (~raced => Spare(t) = 0)

KeptFor(th) ==
  call[th].pc = "run" /\ call[th].op.cached =>
    \A t \in Creators : call[th].tab = t =>
      cache[call[th].node] = t \/ Spare(t) > 0

Kept == \A th \in Threads : KeptFor(th)

\* The thread runs a gathering node that keeps no object yet.
First(th) == call[th].op.cached /\ call[th].pc \in {"lookup", "keep"}

Alone ==
  ~raced => \A th \in Threads : First(th) =>
    /\ cache[call[th].node] = None
    /\ \A u \in Threads : First(u) /\ call[u].node = call[th].node => u = th

RefInv == CallShape /\ Fresh /\ Counted /\ Kept /\ Alone

-----------------------------------------------------------------------------
LEMMA Recount ==
  ASSUME NEW A, NEW B, NEW x, IsFiniteSet(A), A \ {x} = B \ {x}
  PROVE  /\ IsFiniteSet(B)
         /\ Cardinality(A) \in Nat /\ Cardinality(B) \in Nat
         /\ Cardinality(B) = Cardinality(A) - Counts(x \in A) + Counts(x \in B)
<1>1. IsFiniteSet(A \ {x})
  BY FS_RemoveElement
<1>2. IsFiniteSet(B)
  <2>1. (B \ {x}) \cup {x} = B \cup {x}
    OBVIOUS
  <2>2. IsFiniteSet(B \cup {x})
    BY <1>1, <2>1, FS_AddElement
  <2> QED BY <2>2, FS_Subset
<1>3. Cardinality(A) \in Nat /\ Cardinality(B) \in Nat
  BY <1>2, FS_CardinalityType
<1>4. /\ Cardinality(A \ {x}) = Cardinality(A) - Counts(x \in A)
      /\ Cardinality(B \ {x}) = Cardinality(B) - Counts(x \in B)
  <2>1. Cardinality(A \ {x}) = IF x \in A THEN Cardinality(A) - 1 ELSE Cardinality(A)
    BY FS_RemoveElement
  <2>2. Cardinality(B \ {x}) = IF x \in B THEN Cardinality(B) - 1 ELSE Cardinality(B)
    BY <1>2, FS_RemoveElement
  <2> QED BY <1>3, <2>1, <2>2 DEF Counts
<1> QED BY <1>2, <1>3, <1>4 DEF Counts

LEMMA Finite ==
  ASSUME FinitelyMany
  PROVE  /\ IsFiniteSet(Threads)
         /\ \A t : /\ IsFiniteSet(Keepers(t)) /\ Cardinality(Keepers(t)) \in Nat
                   /\ IsFiniteSet(Holders(t)) /\ Cardinality(Holders(t)) \in Nat
                   /\ Owners(t) \in Nat
                   /\ Owners(t) = Counts(bound = t) + Cardinality(Keepers(t))
                                  + Cardinality(Holders(t))
<1>1. IsFiniteSet(Threads)
  BY FS_AddElement DEF FinitelyMany, Threads
<1>2. ASSUME NEW t
      PROVE  /\ IsFiniteSet(Keepers(t)) /\ Cardinality(Keepers(t)) \in Nat
             /\ IsFiniteSet(Holders(t)) /\ Cardinality(Holders(t)) \in Nat
  <2>1. Keepers(t) \subseteq Gatherers /\ Holders(t) \subseteq Threads
    BY DEF Keepers, Holders
  <2> QED BY <1>1, <2>1, FS_Subset, FS_CardinalityType DEF FinitelyMany
<1>3. ASSUME NEW t
      PROVE  Owners(t) = Counts(bound = t) + Cardinality(Keepers(t)) + Cardinality(Holders(t))
  BY DEF Owners, Counts, Keepers, Holders
<1> QED BY <1>1, <1>2, <1>3 DEF Counts

\* Whoever points to an object is one of its owners.
LEMMA OwnersOf ==
  ASSUME FinitelyMany, NEW t
  PROVE  /\ bound = t => Owners(t) >= 1
         /\ \A g \in Gatherers : cache[g] = t => Owners(t) >= 1 + Counts(bound = t)
         /\ \A th \in Threads : Owns(th, t) => Owners(t) >= 1 + Counts(bound = t)
<1>1. /\ Owners(t) = Counts(bound = t) + Cardinality(Keepers(t)) + Cardinality(Holders(t))
      /\ IsFiniteSet(Keepers(t)) /\ Cardinality(Keepers(t)) \in Nat
      /\ IsFiniteSet(Holders(t)) /\ Cardinality(Holders(t)) \in Nat
  BY Finite
<1>2. ASSUME NEW g \in Gatherers, cache[g] = t
      PROVE  Cardinality(Keepers(t)) >= 1
  <2>1. Keepers(t) # {}
    BY <1>2 DEF Keepers
  <2> QED BY <1>1, <2>1, FS_EmptySet
<1>3. ASSUME NEW th \in Threads, Owns(th, t)
      PROVE  Cardinality(Holders(t)) >= 1
  <2>1. Holders(t) # {}
    BY <1>3 DEF Holders
  <2> QED BY <1>1, <2>1, FS_EmptySet
<1> QED BY <1>1, <1>2, <1>3 DEF Counts

\* A step of one thread, which may bind or unbind the name.
LEMMA OwnersStep ==
  ASSUME FinitelyMany, NEW th \in Threads, UNCHANGED cache, NEW t,
         \A u \in Threads : u # th => call'[u] = call[u]
  PROVE  Owners(t)' = Owners(t) - Counts(bound = t) + Counts(bound' = t)
                                - Counts(Owns(th, t)) + Counts(Owns(th, t)')
<1>1. \A u \in Threads : u # th => (Owns(u, t)' <=> Owns(u, t))
  BY DEF Owns
<1>2. Holders(t) \ {th} = Holders(t)' \ {th}
  BY <1>1 DEF Holders
<1>3. /\ IsFiniteSet(Holders(t)')
      /\ Cardinality(Holders(t)) \in Nat /\ Cardinality(Holders(t)') \in Nat
      /\ Cardinality(Holders(t)') = Cardinality(Holders(t)) - Counts(th \in Holders(t))
                                    + Counts(th \in Holders(t)')
  BY <1>2, Finite, Recount
<1>4. (th \in Holders(t) <=> Owns(th, t)) /\ (th \in Holders(t)' <=> Owns(th, t)')
  BY DEF Holders
<1>5. Keepers(t)' = Keepers(t)
  BY DEF Keepers
<1>6. Owners(t)' = Counts(bound' = t) + Cardinality(Keepers(t)') + Cardinality(Holders(t)')
  BY DEF Owners, Counts, Keepers, Holders
<1>7. /\ Owners(t) = Counts(bound = t) + Cardinality(Keepers(t)) + Cardinality(Holders(t))
      /\ Cardinality(Keepers(t)) \in Nat
  BY Finite
<1> QED BY <1>3, <1>4, <1>5, <1>6, <1>7 DEF Counts

Nodes == [token : BOOLEAN, set : BOOLEAN, handle : BOOLEAN]

Calls == [pc : Pcs, node : Creators \cup Gatherers \cup {None},
          op : Kernels \cup {NoOp}, tab : Creators \cup {None}]

Objects == [refs : Nat, rows : BOOLEAN, ready : BOOLEAN, due : Int]

\* TypeOK by its parts.
Typed ==
  /\ node \in [Creators -> Nodes]
  /\ bound \in Creators \cup {None}
  /\ table \in [Creators -> Objects]
  /\ cache \in [Gatherers -> Creators \cup {None, Gone}]
  /\ call \in [Threads -> Calls]
  /\ handle \in [Threads -> BOOLEAN]
  /\ saw \in [Threads -> Creators \cup {None}]
  /\ restored \in 0..Steps
  /\ ckpt \in Checkpoints
  /\ raced \in BOOLEAN
  /\ alive \in BOOLEAN

Assigned(v, rows, ready, due) == [v EXCEPT !.rows = rows, !.ready = ready, !.due = due]

Alike(v, w) == v.rows = w.rows /\ v.ready = w.ready /\ v.due = w.due

-----------------------------------------------------------------------------
LEMMA TypeParts == (TypeOK <=> Typed) /\ (TypeOK' <=> Typed')
BY DEF TypeOK, Typed, Nodes, Calls, Pcs, Objects

LEMMA RefObject ==
  ASSUME NEW v \in Objects
  PROVE  Ref(v) \in Objects /\ Ref(v).refs = v.refs + 1 /\ Alike(Ref(v), v)
BY DEF Ref, Objects, Alike

LEMMA UnrefObject ==
  ASSUME NEW v \in Objects, v.refs >= 1
  PROVE  /\ Unref(v) \in Objects /\ Unref(v).refs = v.refs - 1
         /\ v.refs > 1 => Alike(Unref(v), v)
<1>1. CASE v.refs = 1
  BY <1>1 DEF Unref, NotThere, Objects
<1>2. CASE v.refs > 1
  BY <1>2 DEF Unref, Objects, Alike
<1> QED BY <1>1, <1>2 DEF Objects

LEMMA AssignedObject ==
  ASSUME NEW v \in Objects, NEW a \in BOOLEAN, NEW b \in BOOLEAN, NEW d \in Int
  PROVE  /\ Assigned(v, a, b, d) \in Objects
         /\ Assigned(v, a, b, d).refs = v.refs
         /\ Assigned(v, a, b, d).rows = a
         /\ Assigned(v, a, b, d).ready = b
         /\ Assigned(v, a, b, d).due = d
<1>1. Assigned(v, a, b, d) \in Objects
  BY DEF Assigned, Objects
<1>2. Assigned(v, a, b, d).refs = v.refs /\ Assigned(v, a, b, d).due = d
  BY DEF Assigned, Objects
<1>3. Assigned(v, a, b, d).rows = a /\ Assigned(v, a, b, d).ready = b
  BY Zenon DEF Assigned, Objects
<1> QED BY <1>1, <1>2, <1>3

LEMMA ImportObject ==
  ASSUME TypeOK, LifeAssumption, NEW v \in Objects, NEW last \in BOOLEAN
  PROVE  LET w == ImportValues(v, last)
         IN  /\ w \in Objects /\ w.refs = v.refs
             /\ w.rows = (v.rows \/ ckpt.rows) /\ w.ready = (v.ready \/ last)
             /\ w.due = ckpt.deltas
<1> DEFINE a == v.rows \/ ckpt.rows
           b == v.ready \/ last
           w == ImportValues(v, last)
<1>1. ckpt.deltas \in Int
  BY DEF TypeOK, LifeAssumption
<1>2. w = Assigned(v, a, b, ckpt.deltas)
  BY Zenon DEF ImportValues, Assigned
<1>3. a \in BOOLEAN /\ b \in BOOLEAN
  OBVIOUS
<1> SUFFICES /\ w \in Objects /\ w.refs = v.refs
             /\ w.rows = a /\ w.ready = b /\ w.due = ckpt.deltas
  OBVIOUS
<1> HIDE DEF a, b, w
<1> QED BY <1>1, <1>2, <1>3, AssignedObject

LEMMA DeltaObject ==
  ASSUME NEW v \in Objects, NEW last \in BOOLEAN
  PROVE  LET w == DeltaImport(v, last)
         IN  /\ w \in Objects /\ w.refs = v.refs /\ w.rows = v.rows
             /\ w.ready = (v.ready \/ last) /\ w.due = v.due - 1
<1> DEFINE a == v.rows
           b == v.ready \/ last
           d == v.due - 1
           w == DeltaImport(v, last)
<1>1. w = [v EXCEPT !.ready = b, !.due = d]
  BY Zenon DEF DeltaImport
<1>2. a \in BOOLEAN /\ b \in BOOLEAN /\ d \in Int
  BY DEF Objects
<1> SUFFICES /\ w \in Objects /\ w.refs = v.refs /\ w.rows = a /\ w.ready = b /\ w.due = d
  OBVIOUS
<1>3. w = Assigned(v, a, b, d)
  <2> HIDE DEF b, d, w
  <2> QED BY <1>1 DEF Objects, Assigned
<1> HIDE DEF a, b, d, w
<1> QED BY <1>2, <1>3, AssignedObject

LEMMA InitObject ==
  ASSUME NEW v \in Objects
  PROVE  LET w == InitRandomValues(v)
         IN  /\ w \in Objects /\ w.refs = v.refs /\ w.due = v.due
             /\ w.rows /\ (~v.rows => w.ready) /\ (v.rows => w.ready = v.ready)
BY DEF InitRandomValues, Objects

LEMMA AfterObject ==
  ASSUME TypeOK, LifeAssumption, NEW v \in Objects, NEW m, NEW i \in Nat
  PROVE  After(m, v, i) \in Objects /\ After(m, v, i).refs = v.refs
<1>1. ckpt.rows \in BOOLEAN /\ ckpt.v2 \in BOOLEAN /\ ckpt.deltas \in Nat
  BY DEF TypeOK, LifeAssumption
<1>2. LoadingFinished(i) \in BOOLEAN
  BY <1>1 DEF LoadingFinished
<1>5. InitRandomValues(v) \in Objects /\ InitRandomValues(v).refs = v.refs
  BY InitObject
<1>6. FullOrDeltaImport(v, i) \in Objects /\ FullOrDeltaImport(v, i).refs = v.refs
  <2> DEFINE last == LoadingFinished(i)
  <2>1. last \in BOOLEAN
    BY <1>2
  <2>2. FullOrDeltaImport(v, i) = IF i = 0 THEN ImportValues(v, last) ELSE DeltaImport(v, last)
    BY Zenon DEF FullOrDeltaImport
  <2> HIDE DEF last
  <2>3. ImportValues(v, last) \in Objects /\ ImportValues(v, last).refs = v.refs
    BY <2>1, ImportObject
  <2>4. DeltaImport(v, last) \in Objects /\ DeltaImport(v, last).refs = v.refs
    BY <2>1, DeltaObject
  <2> QED BY <2>2, <2>3, <2>4
<1>7. ImportValues(v, TRUE) \in Objects /\ ImportValues(v, TRUE).refs = v.refs
  BY ImportObject
<1>8. \/ After(m, v, i) = v
      \/ After(m, v, i) = InitRandomValues(v)
      \/ After(m, v, i) = ImportValues(v, TRUE)
      \/ After(m, v, i) = FullOrDeltaImport(v, i)
  BY DEF After
<1> QED BY <1>5, <1>6, <1>7, <1>8

-----------------------------------------------------------------------------
LEMMA InUse ==
  ASSUME FinitelyMany, TypeOK, Counted, NEW t \in Creators
  PROVE  /\ Owners(t) \in Nat /\ table[t].refs \in Nat /\ table[t].refs >= Owners(t)
         /\ bound = t => table[t].refs >= 1
         /\ \A g \in Gatherers : cache[g] = t => table[t].refs >= 1 + Counts(bound = t)
         /\ \A th \in Threads : Owns(th, t) => table[t].refs >= 1 + Counts(bound = t)
<1>1. Owners(t) \in Nat
  BY Finite
<1>2. table[t].refs \in Nat
  BY DEF TypeOK
<1>3. table[t].refs >= Owners(t)
  BY <1>1, <1>2 DEF Counted, Spare
<1> HIDE DEF Counts
<1>4. Counts(bound = t) \in Nat
  BY DEF Counts
<1> QED BY <1>1, <1>2, <1>3, <1>4, OwnersOf

\* No object of a thread, a node or the name is freed.
LEMMA NothingFreed ==
  ASSUME LifeAssumption, FinitelyMany, TypeOK, RefInv
  PROVE  NothingFreedInUse
<1>1. ASSUME NEW th \in Threads, call[th].tab # None
      PROVE  table[call[th].tab].refs > 0
  <2> DEFINE t == call[th].tab
  <2>1. t \in Creators
    BY <1>1 DEF TypeOK
  <2> SUFFICES table[t].refs > 0
    OBVIOUS
  <2> HIDE DEF t
  <2>2. CASE Owns(th, t)
    BY <2>1, <2>2, InUse DEF RefInv, Counts
  <2>3. CASE ~Owns(th, t)
    <3>1. call[th].pc = "run" /\ call[th].op.cached
      BY <2>3 DEF Owns, t
    <3>2. cache[call[th].node] = t \/ Spare(t) > 0
      BY <2>1, <3>1 DEF RefInv, Kept, KeptFor, t
    <3>3. call[th].node \in Gatherers
      BY <3>1 DEF RefInv, CallShape, Shape
    <3>4. CASE cache[call[th].node] = t
      BY <2>1, <3>3, <3>4, InUse DEF RefInv, Counts
    <3>5. CASE Spare(t) > 0
      BY <2>1, <3>5, InUse DEF RefInv, Spare
    <3> QED BY <3>2, <3>4, <3>5
  <2> QED BY <2>2, <2>3
<1>2. ASSUME NEW g \in Gatherers, cache[g] \in Creators
      PROVE  table[cache[g]].refs > 0
  BY <1>2, InUse DEF RefInv, Counts
<1>3. bound # None => table[bound].refs > 0
  BY InUse DEF RefInv, TypeOK
<1> QED BY <1>1, <1>2, <1>3 DEF NothingFreedInUse

\* Nobody points to the object of a node that has not made it.
LEMMA UnmadeUnused ==
  ASSUME LifeAssumption, FinitelyMany, TypeOK, RefInv, NEW c \in Creators, Unmade(c)
  PROVE  /\ table[c].refs = 0 /\ bound # c
         /\ \A g \in Gatherers : cache[g] # c
         /\ \A th \in Threads : call[th].tab # c /\ saw[th] # c
<1>1. table[c].refs = 0 /\ \A th \in Threads : saw[th] # c
  BY DEF RefInv, Fresh, NotThere
<1>2. c # None
  BY DEF LifeAssumption
<1> QED BY <1>1, <1>2, NothingFreed DEF NothingFreedInUse

-----------------------------------------------------------------------------
\* The references of every object change as its owners do.
Balanced(th) ==
  \A t \in Creators : table'[t].refs =
    table[t].refs - Counts(bound = t) + Counts(bound' = t)
                  - Counts(Owns(th, t)) + Counts(Owns(th, t)')

LEMMA ThreadStep ==
  ASSUME FinitelyMany, LifeAssumption, TypeOK, RefInv, TypeOK',
         NEW th \in Threads, UNCHANGED cache, raced => raced',
         \A u \in Threads : u # th => call'[u] = call[u],
         \A u \in Threads : saw'[u] \in {saw[u], None, call[th].tab},
         Balanced(th),
         \A c \in Creators : Unmade(c)' => Unmade(c) /\ table'[c] = table[c],
         Shape(th)',
         call'[th].pc = "run" /\ call'[th].op.cached => cache[call'[th].node] = call'[th].tab,
         First(th)' /\ ~raced' =>
           /\ cache[call'[th].node] = None
           /\ \A u \in Threads : First(u) /\ call[u].node = call'[th].node => u = th
  PROVE  RefInv'
<1>1. CallShape'
  BY DEF RefInv, CallShape, Shape, Making
<1>2. Fresh'
  <2> SUFFICES ASSUME NEW c \in Creators, Unmade(c)'
               PROVE  table'[c] = NotThere /\ \A u \in Threads : saw'[u] # c
    BY DEF Fresh
  <2>1. Unmade(c) /\ table'[c] = table[c]
    OBVIOUS
  <2>2. c # None
    BY DEF LifeAssumption
  <2> QED BY <2>1, <2>2, UnmadeUnused DEF RefInv, Fresh
<1>3. \A t \in Creators : Spare(t)' = Spare(t)
  <2> TAKE t \in Creators
  <2>1. Owners(t)' = Owners(t) - Counts(bound = t) + Counts(bound' = t)
                               - Counts(Owns(th, t)) + Counts(Owns(th, t)')
    BY OwnersStep
  <2>2. Owners(t) \in Nat /\ table[t].refs \in Nat
    BY Finite DEF TypeOK
  <2> QED BY <2>1, <2>2 DEF Spare, Counts, Balanced
<1>4. Counted'
  BY <1>3 DEF RefInv, Counted
<1>5. Kept'
  <2>1. ASSUME NEW u \in Threads, u # th
        PROVE  KeptFor(u)'
    BY <1>3, <2>1 DEF RefInv, Kept, KeptFor
  <2>2. KeptFor(th)'
    BY DEF KeptFor
  <2> QED BY <2>1, <2>2 DEF Kept
<1>6. Alone'
  <2>1. \A u \in Threads : u # th => (First(u)' <=> First(u))
    BY DEF First
  <2> QED BY <2>1 DEF RefInv, Alone
<1> QED BY <1>1, <1>2, <1>4, <1>5, <1>6 DEF RefInv

\* The reference of a thread is dropped, from the object v that its work made.
LEMMA DropEffect ==
  ASSUME LifeAssumption, FinitelyMany, TypeOK, RefInv, NEW th \in Threads,
         NEW t \in Creators, Owns(th, t), NEW v \in Objects, v.refs = table[t].refs,
         table' = [table EXCEPT ![t] = Unref(v)], UNCHANGED bound,
         \A u \in Creators : ~Owns(th, u)'
  PROVE  /\ table' \in [Creators -> Objects]
         /\ Balanced(th)
         /\ \A u \in Creators : u # t => table'[u] = table[u]
         /\ \A c \in Creators : Unmade(c) => table'[c] = table[c]
         /\ Alike(table'[t], v) \/ table'[t] = NotThere
         /\ bound = t => Alike(table'[t], v)
<1>1. table \in [Creators -> Objects]
  BY DEF TypeOK, Objects
<1>2. v.refs >= 1 + Counts(bound = t) /\ v.refs \in Nat
  BY InUse DEF RefInv, Objects
<1>3. v.refs >= 1
  BY <1>2 DEF Counts
<1>4. /\ Unref(v) \in Objects /\ Unref(v).refs = v.refs - 1
      /\ v.refs > 1 => Alike(Unref(v), v)
  BY <1>3, UnrefObject
<1>5. table' \in [Creators -> Objects] /\ table'[t] = Unref(v)
  BY <1>1, <1>4
<1>6. \A u \in Creators : u # t => table'[u] = table[u]
  BY <1>1
<1>7. \A u \in Creators : u # t => ~Owns(th, u)
  BY DEF Owns
<1>8. Balanced(th)
  <2> USE DEF Balanced
  <2> TAKE u \in Creators
  <2>1. table[u].refs \in Nat
    BY <1>1 DEF Objects
  <2>2. CASE u = t
    BY <1>2, <1>4, <1>5, <2>1, <2>2 DEF Counts
  <2>3. CASE u # t
    BY <1>6, <1>7, <2>1, <2>3 DEF Counts
  <2> QED BY <2>2, <2>3
<1>9. \A c \in Creators : Unmade(c) => c # t
  BY UnmadeUnused DEF Owns
<1>10. v.refs > 1 \/ table'[t] = NotThere
  BY <1>2, <1>3, <1>5 DEF Unref
<1>11. bound = t => v.refs > 1
  BY <1>2 DEF Counts
<1> QED BY <1>4, <1>5, <1>6, <1>8, <1>9, <1>10, <1>11

\* A thread takes a reference to the object of the name.
LEMMA TakeEffect ==
  ASSUME LifeAssumption, FinitelyMany, TypeOK, RefInv, NEW th \in Threads,
         NEW t \in Creators, bound = t, table' = [table EXCEPT ![t] = Ref(@)], UNCHANGED bound,
         Owns(th, t)', \A u \in Creators : ~Owns(th, u), \A u \in Creators : u # t => ~Owns(th, u)'
  PROVE  /\ table' \in [Creators -> Objects]
         /\ Balanced(th)
         /\ \A u \in Creators : Alike(table'[u], table[u])
         /\ \A c \in Creators : Unmade(c) => table'[c] = table[c]
<1>1. table \in [Creators -> Objects]
  BY DEF TypeOK, Objects
<1>2. /\ Ref(table[t]) \in Objects /\ Ref(table[t]).refs = table[t].refs + 1
      /\ Alike(Ref(table[t]), table[t])
  BY <1>1, RefObject
<1>3. table' \in [Creators -> Objects] /\ table'[t] = Ref(table[t])
  BY <1>1, <1>2
<1>4. \A u \in Creators : u # t => table'[u] = table[u]
  BY <1>1
<1>5. Balanced(th)
  <2> USE DEF Balanced
  <2> TAKE u \in Creators
  <2>1. table[u].refs \in Nat
    BY <1>1 DEF Objects
  <2>2. CASE u = t
    BY <1>2, <1>3, <2>1, <2>2 DEF Counts
  <2>3. CASE u # t
    BY <1>4, <2>1, <2>3 DEF Counts
  <2> QED BY <2>2, <2>3
<1>6. \A c \in Creators : Unmade(c) => c # t
  BY UnmadeUnused
<1>7. \A u \in Creators : Alike(table'[u], table[u])
  BY <1>2, <1>3, <1>4 DEF Alike
<1> QED BY <1>3, <1>4, <1>5, <1>6, <1>7

-----------------------------------------------------------------------------
LEMMA StartCreateRefs ==
  ASSUME LifeAssumption, FinitelyMany, TypeOK, RefInv, NEW th \in Threads, StartCreate(th)
  PROVE  TypeOK' /\ RefInv'
<1> DEFINE c == Graph[th]
           l == IF node[c].token THEN "wait" ELSE "make"
<1>1. c \in Creators
  BY DEF LifeAssumption, Threads
<1>2. TypeOK'
  <2>1. node' = [node EXCEPT ![c].token = TRUE]
    BY DEF StartCreate
  <2>2. node' \in [Creators -> Nodes]
    BY <1>1, <2>1, TypeParts, ZenonT(30) DEF Typed, Nodes
  <2>3. call' = [call EXCEPT ![th].pc = l, ![th].node = c] /\ l \in {"wait", "make"}
    BY DEF StartCreate
  <2>4. UNCHANGED <<bound, table, cache, alive, handle, saw, restored, ckpt, raced>>
    BY DEF StartCreate
  <2> HIDE DEF c, l
  <2>5. call' \in [Threads -> Calls]
    <3>1. call \in [Threads -> Calls]
      BY TypeParts DEF Typed
    <3>2. l \in Pcs /\ c \in Creators \cup Gatherers \cup {None}
      BY <1>1, <2>3 DEF Pcs
    <3> QED BY <2>3, <3>1, <3>2 DEF Calls
  <2> QED BY <2>2, <2>4, <2>5, TypeParts DEF Typed, Steps
<1>3. /\ call[th] = Idle
      /\ call'[th] = [Idle EXCEPT !.pc = l, !.node = c]
      /\ \A u \in Threads : u # th => call'[u] = call[u]
      /\ node'[c].token
      /\ \A d \in Creators : d # c => node'[d] = node[d]
      /\ UNCHANGED <<bound, table, cache, saw, raced>>
  BY <1>1 DEF TypeOK, StartCreate
<1>4. /\ call[th].tab = None /\ call[th].pc = "idle" /\ call'[th].tab = None
      /\ call'[th].pc = l /\ call'[th].node = c
      /\ call'[th].op = NoOp
  BY <1>3 DEF Idle
<1>5. l \in {"wait", "make"} /\ (l = "make" => ~node[c].token)
  OBVIOUS
<1> HIDE DEF c, l
<1>6. \A t \in Creators : ~Owns(th, t) /\ ~Owns(th, t)'
  BY <1>4 DEF Owns, LifeAssumption
<1>7. Balanced(th)
  BY <1>3, <1>6 DEF Balanced, Counts, TypeOK
<1>8. \A d \in Creators : Unmade(d)' => Unmade(d)
  <2> SUFFICES ASSUME NEW d \in Creators, Unmade(d)', ~Unmade(d)
               PROVE  FALSE
    OBVIOUS
  <2>1. node[d].token /\ node'[d].token
    BY <1>3 DEF Unmade
  <2>2. PICK u \in Threads : call'[u].pc = "make" /\ call'[u].node = d
    BY <2>1 DEF Unmade
  <2>3. u = th
    BY <1>3, <2>2 DEF Unmade
  <2> QED BY <1>4, <1>5, <2>1, <2>2, <2>3
<1>9. Shape(th)'
  BY <1>4, <1>5 DEF Shape, NoOp, Making
<1> QED BY <1>2, <1>3, <1>4, <1>5, <1>7, <1>8, <1>9, ThreadStep DEF First

\* A step that leaves the objects alone.
LEMMA QuietStep ==
  ASSUME FinitelyMany, LifeAssumption, TypeOK, RefInv, TypeOK',
         NEW th \in Threads, UNCHANGED <<bound, table, cache>>, raced => raced',
         \A u \in Threads : u # th => call'[u] = call[u],
         \A u \in Threads : saw'[u] \in {saw[u], None, call[th].tab},
         \A t \in Creators : Owns(th, t)' <=> Owns(th, t),
         \A c \in Creators : Unmade(c)' => Unmade(c),
         Shape(th)',
         call'[th].pc = "run" /\ call'[th].op.cached => cache[call'[th].node] = call'[th].tab,
         First(th)' /\ ~raced' =>
           /\ cache[call'[th].node] = None
           /\ \A u \in Threads : First(u) /\ call[u].node = call'[th].node => u = th
  PROVE  RefInv'
<1>1. \A t \in Creators : table[t].refs \in Nat
  BY TypeParts DEF Typed, Objects
<1>2. Balanced(th)
  BY <1>1 DEF Balanced, Counts
<1> QED BY <1>2, ThreadStep

LEMMA IdleIsTyped == Idle \in Calls
BY DEF Idle, Calls, Pcs

\* A call ends that has no reference.
LEMMA EndRefs ==
  ASSUME FinitelyMany, LifeAssumption, TypeOK, RefInv, NEW th \in Threads, End(th),
         UNCHANGED <<node, bound, table, cache, raced, ckpt, alive>>,
         handle' \in [Threads -> BOOLEAN], saw' \in [Threads -> Creators \cup {None}],
         restored' \in 0..Steps,
         \A u \in Threads : saw'[u] \in {saw[u], None, call[th].tab},
         \A t \in Creators : ~Owns(th, t)
  PROVE  TypeOK' /\ RefInv'
<1>1. call \in [Threads -> Calls]
  BY TypeParts DEF Typed
<1>2. call' \in [Threads -> Calls]
  BY <1>1, IdleIsTyped DEF End
<1>3. TypeOK'
  BY <1>2, TypeParts DEF Typed, Steps
<1>4. call'[th] = Idle /\ \A u \in Threads : u # th => call'[u] = call[u]
  BY <1>1 DEF End
<1>5. /\ call'[th].pc = "idle" /\ call'[th].tab = None /\ call'[th].op = NoOp
      /\ ~NoOp.cached
  BY <1>4 DEF Idle, NoOp
<1>6. \A t \in Creators : ~Owns(th, t)'
  BY <1>5 DEF Owns, LifeAssumption
<1>7. \A c \in Creators : Unmade(c)' => Unmade(c)
  BY <1>4, <1>5 DEF Unmade
<1>8. Shape(th)'
  BY <1>4, <1>5 DEF Shape, Making
<1> QED BY <1>3, <1>4, <1>5, <1>6, <1>7, <1>8, QuietStep DEF First

\* Goto changes a place only.
LEMMA GotoCall ==
  ASSUME TypeOK, NEW th \in Threads, NEW l \in Pcs, Goto(th, l)
  PROVE  /\ call' \in [Threads -> Calls]
         /\ \A u \in Threads : u # th => call'[u] = call[u]
         /\ call'[th].pc = l /\ call'[th].node = call[th].node
         /\ call'[th].op = call[th].op /\ call'[th].tab = call[th].tab
<1>1. call \in [Threads -> Calls]
  BY TypeParts DEF Typed
<1> QED BY <1>1 DEF Goto, Calls

LEMMA MakeFailsRefs ==
  ASSUME FinitelyMany, LifeAssumption, TypeOK, RefInv, NEW th \in Threads, MakeFails(th)
  PROVE  TypeOK' /\ RefInv'
<1>1. \A t \in Creators : ~Owns(th, t)
  BY DEF MakeFails, RefInv, CallShape, Shape, Owns, LifeAssumption
<1> QED BY <1>1, EndRefs, TypeParts DEF MakeFails, objects, Typed

LEMMA PublishRefs ==
  ASSUME FinitelyMany, LifeAssumption, IInv, TypeOK, RefInv, NEW th \in Threads, Publish(th)
  PROVE  TypeOK' /\ RefInv'
<1> DEFINE c == call[th].node
<1>1. c \in Creators
  BY DEF IInv, AtNodes, Making, Publish
<1>2. /\ node' = [node EXCEPT ![c].handle = TRUE] /\ call[th].pc = "publish"
      /\ UNCHANGED <<bound, table, cache, alive, handle, saw, restored, ckpt, raced>>
  BY DEF Publish
<1>3. /\ call' \in [Threads -> Calls]
      /\ \A u \in Threads : u # th => call'[u] = call[u]
      /\ call'[th].pc = "flag" /\ call'[th].node = c
      /\ call'[th].op = call[th].op /\ call'[th].tab = call[th].tab
  BY GotoCall DEF Publish, Pcs
<1>4. node \in [Creators -> Nodes]
  BY TypeParts DEF Typed
<1>5. /\ node' \in [Creators -> Nodes]
      /\ \A d \in Creators : node'[d].token = node[d].token
  BY <1>1, <1>2, <1>4 DEF Nodes
<1> HIDE DEF c
<1>6. TypeOK'
  BY <1>2, <1>3, <1>5, TypeParts DEF Typed, Steps
<1>7. \A t \in Creators : Owns(th, t)' <=> Owns(th, t)
  BY <1>2, <1>3 DEF Owns
<1>8. \A d \in Creators : Unmade(d)' => Unmade(d)
  BY <1>3, <1>5 DEF Unmade
<1>9. call[th].op = NoOp /\ ~NoOp.cached /\ call[th].tab # None
  BY <1>2 DEF RefInv, CallShape, Shape, Making, NoOp
<1>10. Shape(th)'
  BY <1>3, <1>9 DEF Shape, Making
<1> QED BY <1>2, <1>3, <1>6, <1>7, <1>8, <1>9, <1>10, QuietStep DEF First

LEMMA WaitRefs ==
  ASSUME FinitelyMany, LifeAssumption, TypeOK, RefInv, NEW th \in Threads, Wait(th)
  PROVE  TypeOK' /\ RefInv'
<1>1. /\ call[th].pc = "wait"
      /\ UNCHANGED <<node, bound, table, cache, alive, handle, saw, restored, ckpt, raced>>
  BY DEF Wait, objects
<1>2. /\ call' \in [Threads -> Calls]
      /\ \A u \in Threads : u # th => call'[u] = call[u]
      /\ call'[th].pc = "output" /\ call'[th].node = call[th].node
      /\ call'[th].op = call[th].op /\ call'[th].tab = call[th].tab
  BY GotoCall DEF Wait, Pcs
<1>3. TypeOK'
  BY <1>1, <1>2, TypeParts DEF Typed, Steps
<1>4. \A t \in Creators : Owns(th, t)' <=> Owns(th, t)
  BY <1>1, <1>2 DEF Owns
<1>5. \A d \in Creators : Unmade(d)' => Unmade(d)
  BY <1>1, <1>2 DEF Unmade
<1>6. call[th].op = NoOp /\ ~NoOp.cached /\ call[th].tab = None
  BY <1>1 DEF RefInv, CallShape, Shape, Making, NoOp
<1>7. Shape(th)'
  BY <1>2, <1>6 DEF Shape, Making
<1> QED BY <1>1, <1>2, <1>3, <1>4, <1>5, <1>6, <1>7, QuietStep DEF First

LEMMA OutputRefs ==
  ASSUME FinitelyMany, LifeAssumption, IInv, TypeOK, RefInv, NEW th \in Threads, Output(th)
  PROVE  TypeOK' /\ RefInv'
<1>1. \A t \in Creators : ~Owns(th, t)
  BY DEF Output, RefInv, CallShape, Shape, Owns, LifeAssumption
<1>2. handle' \in [Threads -> BOOLEAN]
  <2>1. call[th].node \in Creators
    BY DEF IInv, AtNodes, Output
  <2>2. node[call[th].node].handle \in BOOLEAN /\ handle \in [Threads -> BOOLEAN]
    BY <2>1, TypeParts DEF Typed, Nodes
  <2> QED BY <2>2 DEF Output
<1> QED BY <1>1, <1>2, EndRefs, TypeParts DEF Output, objects, Typed

LEMMA NewTableIsTyped == NewTable \in Objects /\ NewTable.refs = 2
BY DEF NewTable, Objects

LEMMA MakeRefs ==
  ASSUME FinitelyMany, LifeAssumption, IInv, TypeOK, RefInv, NEW th \in Threads, Make(th)
  PROVE  TypeOK' /\ RefInv'
<1>0. /\ call \in [Threads -> Calls] /\ table \in [Creators -> Objects]
      /\ bound \in Creators \cup {None}
  BY TypeParts DEF Typed
<1>1. PICK n \in Creators, t \in Creators :
        n = call[th].node /\ t = IF bound = None THEN n ELSE bound
  BY <1>0 DEF IInv, AtNodes, Making, Make
<1>2. /\ call[th].pc = "make" /\ bound' = t
      /\ table' = [table EXCEPT ![t] = IF bound = None THEN NewTable ELSE Ref(@)]
      /\ call' = [call EXCEPT ![th].pc = "publish", ![th].tab = t]
      /\ UNCHANGED <<node, cache, alive, handle, saw, restored, ckpt, raced>>
  BY <1>1 DEF Make
<1>3. n # None /\ t # None
  BY DEF LifeAssumption
<1>4. call[th].tab = None /\ call[th].op = NoOp /\ ~NoOp.cached
  BY <1>2 DEF RefInv, CallShape, Shape, Making, NoOp
<1>5. Unmade(n)
  BY <1>1, <1>2 DEF Unmade
<1>6. /\ node[n].token
      /\ \A u \in Threads : u # th /\ call[u].pc = "make" => call[u].node # n
  BY <1>1, <1>2 DEF IInv, OneMaker, Making
<1>9. /\ call' \in [Threads -> Calls]
      /\ \A u \in Threads : u # th => call'[u] = call[u]
      /\ call'[th].pc = "publish" /\ call'[th].tab = t /\ call'[th].op = call[th].op
      /\ call'[th].node = call[th].node
  BY <1>2, <1>0, <1>1, ZenonT(30) DEF Calls, Pcs
<1>10. /\ \A u \in Creators : ~Owns(th, u)
       /\ Owns(th, t)' /\ \A u \in Creators : u # t => ~Owns(th, u)'
  BY <1>4, <1>9 DEF Owns, LifeAssumption
<1>11. Shape(th)'
  BY <1>3, <1>4, <1>9 DEF Shape, Making
<1>12. CASE bound = None
  <2>1. table' = [table EXCEPT ![n] = NewTable] /\ t = n
    BY <1>2, <1>1, <1>12
  <2>2. /\ table' \in [Creators -> Objects] /\ table'[n].refs = 2
        /\ \A u \in Creators : u # n => table'[u] = table[u]
    BY <1>1, <1>0, <2>1, NewTableIsTyped
  <2>3. table[n].refs = 0
    BY <1>1, <1>5, UnmadeUnused
  <2>4. Balanced(th)
    <3> USE DEF Balanced
    <3> TAKE u \in Creators
    <3>1. table[u].refs \in Nat
      BY <1>0 DEF Objects
    <3>2. CASE u = n
      BY <1>2, <1>3, <1>10, <1>12, <2>1, <2>2, <2>3, <3>2 DEF Counts
    <3>3. CASE u # n
      BY <1>2, <1>10, <1>12, <2>1, <2>2, <3>1, <3>3 DEF Counts, LifeAssumption
    <3> QED BY <3>2, <3>3
  <2>5. \A c \in Creators : Unmade(c)' => c # n /\ Unmade(c)
    BY <1>2, <1>6, <1>9 DEF Unmade
  <2>6. TypeOK'
    BY <1>2, <1>1, <1>9, <2>2, TypeParts DEF Typed, Steps
  <2> QED BY <1>2, <1>4, <1>9, <1>11, <2>2, <2>4, <2>5, <2>6, ThreadStep DEF First
<1>13. CASE bound # None
  <2>1. table' = [table EXCEPT ![t] = Ref(@)] /\ bound = t
    BY <1>2, <1>1, <1>13
  <2>2. /\ table' \in [Creators -> Objects] /\ Balanced(th)
        /\ \A c \in Creators : Unmade(c) => table'[c] = table[c]
    BY <1>2, <1>1, <1>10, <2>1, TakeEffect
  <2>3. \A c \in Creators : Unmade(c)' => Unmade(c)
    BY <1>2, <1>9 DEF Unmade
  <2>4. TypeOK'
    BY <1>2, <1>1, <1>9, <2>2, TypeParts DEF Typed, Steps
  <2> QED BY <1>2, <1>4, <1>9, <1>11, <2>2, <2>3, <2>4, ThreadStep DEF First
<1> QED BY <1>12, <1>13

LEMMA SetFlagRefs ==
  ASSUME FinitelyMany, LifeAssumption, IInv, TypeOK, RefInv, NEW th \in Threads, SetFlag(th)
  PROVE  TypeOK' /\ RefInv'
<1> DEFINE c == call[th].node
           t == call[th].tab
<1>1. c \in Creators
  BY DEF IInv, AtNodes, Making, SetFlag
<1>2. /\ call[th].pc = "flag" /\ node' = [node EXCEPT ![c].set = TRUE]
      /\ table' = [table EXCEPT ![t] = Unref(@)]
      /\ call' = [call EXCEPT ![th].pc = "wait", ![th].tab = None]
      /\ UNCHANGED <<bound, cache, alive, handle, saw, restored, ckpt, raced>>
  BY DEF SetFlag
<1>3. /\ call \in [Threads -> Calls] /\ table \in [Creators -> Objects]
      /\ node \in [Creators -> Nodes]
  BY TypeParts DEF Typed
<1>4. /\ call[th].op = NoOp /\ ~NoOp.cached /\ call[th].tab # None
  BY <1>2 DEF RefInv, CallShape, Shape, Making, NoOp
<1>5. t \in Creators /\ Owns(th, t)
  BY <1>2, <1>3, <1>4 DEF Calls, Owns
<1>6. table[t] \in Objects /\ table' = [table EXCEPT ![t] = Unref(table[t])]
  BY <1>2, <1>3, <1>5
<1>7. /\ call' \in [Threads -> Calls]
      /\ \A u \in Threads : u # th => call'[u] = call[u]
      /\ call'[th].pc = "wait" /\ call'[th].tab = None /\ call'[th].op = call[th].op
  BY <1>2, <1>3, ZenonT(30) DEF Calls, Pcs
<1>8. /\ node' \in [Creators -> Nodes]
      /\ \A d \in Creators : node'[d].token = node[d].token
  BY <1>1, <1>2, <1>3, ZenonT(30) DEF Nodes
<1> HIDE DEF c, t
<1>9. \A u \in Creators : ~Owns(th, u)'
  BY <1>7 DEF Owns, LifeAssumption
<1>10. /\ table' \in [Creators -> Objects] /\ Balanced(th)
       /\ \A d \in Creators : Unmade(d) => table'[d] = table[d]
  BY <1>2, <1>5, <1>6, <1>9, DropEffect
<1>11. \A d \in Creators : Unmade(d)' => Unmade(d)
  BY <1>7, <1>8 DEF Unmade
<1>12. TypeOK'
  BY <1>2, <1>7, <1>8, <1>10, TypeParts DEF Typed, Steps
<1>13. Shape(th)'
  BY <1>4, <1>7 DEF Shape, Making
<1> QED BY <1>2, <1>4, <1>7, <1>10, <1>11, <1>12, <1>13, ThreadStep DEF First

-----------------------------------------------------------------------------
LEMMA LookupRefs ==
  ASSUME FinitelyMany, LifeAssumption, TypeOK, RefInv, NEW th \in Threads, Lookup(th)
  PROVE  TypeOK' /\ RefInv'
<1>1. /\ call \in [Threads -> Calls] /\ table \in [Creators -> Objects]
      /\ bound \in Creators \cup {None} /\ restored \in 0..Steps
      /\ handle \in [Threads -> BOOLEAN] /\ saw \in [Threads -> Creators \cup {None}]
      /\ ckpt \in Checkpoints
  BY TypeParts DEF Typed
<1>2. call[th].pc = "lookup" /\ UNCHANGED <<node, bound, cache, alive, ckpt, raced>>
  BY DEF Lookup
<1>3. call[th].tab = None
  BY <1>2 DEF RefInv, CallShape, Shape
<1>4. \A t \in Creators : ~Owns(th, t)
  BY <1>3 DEF Owns, LifeAssumption
<1>5. CASE bound = None
  <2>1. /\ End(th) /\ UNCHANGED table
        /\ handle' = [handle EXCEPT ![th] = FALSE] /\ saw' = [saw EXCEPT ![th] = None]
        /\ restored' \in {0, restored}
    BY <1>5 DEF Lookup
  <2>2. 0 \in 0..Steps
    BY <1>1 DEF Steps, LifeAssumption
  <2> QED BY <1>1, <1>2, <1>4, <2>1, <2>2, EndRefs
<1>6. CASE bound # None
  <2> DEFINE l == IF call[th].op.cached THEN "keep" ELSE "run"
  <2>1. /\ table' = [table EXCEPT ![bound] = Ref(@)]
        /\ call' = [call EXCEPT ![th].tab = bound, ![th].pc = l]
        /\ UNCHANGED <<handle, saw, restored>>
    BY <1>6 DEF Lookup
  <2>2. bound \in Creators
    BY <1>1, <1>6
  <2>3. /\ call' \in [Threads -> Calls]
        /\ \A u \in Threads : u # th => call'[u] = call[u]
        /\ call'[th].pc = l /\ call'[th].tab = bound /\ call'[th].op = call[th].op
        /\ call'[th].node = call[th].node
    <3>1. l \in Pcs
      BY DEF Pcs
    <3> HIDE DEF l
    <3> DEFINE c == [call[th] EXCEPT !.tab = bound, !.pc = l]
    <3>2. call[th] \in Calls
      BY <1>1
    <3>3. c \in Calls
      BY <2>2, <3>1, <3>2 DEF Calls
    <3>4. c.pc = l /\ c.tab = bound /\ c.op = call[th].op /\ c.node = call[th].node
      BY <3>2 DEF Calls
    <3>5. call' = [call EXCEPT ![th] = c]
      BY <1>1, <2>1
    <3> HIDE DEF c
    <3> QED BY <1>1, <3>3, <3>4, <3>5
  <2>4. Owns(th, bound)' /\ \A u \in Creators : u # bound => ~Owns(th, u)'
    BY <1>2, <2>3 DEF Owns
  <2>5. /\ table' \in [Creators -> Objects] /\ Balanced(th)
        /\ \A c \in Creators : Unmade(c) => table'[c] = table[c]
    BY <1>2, <1>4, <2>1, <2>2, <2>4, TakeEffect
  <2>6. \A c \in Creators : Unmade(c)' => Unmade(c)
    BY <1>2, <2>3 DEF Unmade
  <2>7. TypeOK'
    BY <1>2, <2>1, <2>3, <2>5, TypeParts DEF Typed, Steps
  <2>8. Shape(th)'
    BY <1>2, <1>6, <2>3 DEF RefInv, CallShape, Shape, Making
  <2>9. First(th)' => First(th)
    BY <1>2, <2>3 DEF First
  <2>10. First(th)' /\ ~raced' =>
           /\ cache[call'[th].node] = None
           /\ \A u \in Threads : First(u) /\ call[u].node = call'[th].node => u = th
    BY <1>2, <2>3, <2>9 DEF RefInv, Alone
  <2> QED BY <1>2, <2>1, <2>3, <2>5, <2>6, <2>7, <2>8, <2>10, ThreadStep
<1> QED BY <1>5, <1>6

\* The kernels by what they do.
LEMMA Kinds ==
  /\ Readers = {Scoped("use"), Scoped("IsInitialized"), BatchKvVariableGatherOrZerosOp}
  /\ Trainers = {Scoped("draw")}
  /\ Importers \subseteq {Scoped("ImportValues"), Scoped("FullOrDeltaImport")}
  /\ Kernels = Readers \cup Trainers \cup
       {KvVariableGatherOrZerosOp, Scoped("InitRandomValues"), Scoped("Destroy"),
        Scoped("ImportValues"), Scoped("FullOrDeltaImport")}
<1> USE DEF KvVariableShapeOp, KvVariableSizeOp, KvVariableStorageSizeOp,
  KvVariableFrequencyOp, ReadKvVariableOp, KvVariableExportOp,
  KvVariableExportForMultiHashOp, KvVariableFullOrDeltaExportOp, KvVariableInsertOp,
  KvVariableGatherOp, KvVariableIsInitializedOp
<1>1. Readers = {Scoped("use"), Scoped("IsInitialized"), BatchKvVariableGatherOrZerosOp}
  BY DEF Readers
<1>2. Trainers = {Scoped("draw")}
  BY DEF Trainers, KvVariableGatherOrInsertOp, KvVariableGatherOrInsertWithCountsOp,
    KvVariableScatterUpdateOP
<1> USE DEF KvVariableImportOp, KvVariableOldImportOp, KvVariableFullOrDeltaImportOp
<1>3. Importers \subseteq {Scoped("ImportValues"), Scoped("FullOrDeltaImport")}
  BY DEF Importers
<1>4. Kernels = Readers \cup Trainers \cup
        {KvVariableGatherOrZerosOp, Scoped("InitRandomValues"), Scoped("Destroy"),
         Scoped("ImportValues"), Scoped("FullOrDeltaImport")}
  BY DEF Kernels, InitKvVariableOp, DestroyKvVariableOp
<1> QED BY <1>1, <1>2, <1>3, <1>4

LEMMA KernelFacts ==
  ASSUME NEW k \in Kernels
  PROVE  /\ k \in Ops /\ k # NoOp
         /\ k.cached <=> k = KvVariableGatherOrZerosOp
         /\ k.runs > 1 => /\ [k EXCEPT !.runs = @ - 1] \in Readers
                          /\ ~[k EXCEPT !.runs = @ - 1].cached
<1>1. k \in Ops
  <2>1. Scoped("ImportValues") \in Ops /\ Scoped("FullOrDeltaImport") \in Ops
    BY DEF Scoped, Ops, Methods
  <2> QED BY <2>1, KernelsAreOps, Kinds DEF InitKvVariableOp, DestroyKvVariableOp
<1>2. k.method # "none" /\ (k.runs > 1 => k = BatchKvVariableGatherOrZerosOp)
      /\ (k.cached <=> k = KvVariableGatherOrZerosOp)
  BY Kinds DEF Scoped, KvVariableGatherOrZerosOp, BatchKvVariableGatherOrZerosOp
<1>3. [BatchKvVariableGatherOrZerosOp EXCEPT !.runs = @ - 1] = Scoped("use")
  <2>1. [BatchKvVariableGatherOrZerosOp EXCEPT !.runs = 1] = Scoped("use")
    <3> DEFINE b == BatchKvVariableGatherOrZerosOp
               r == [b EXCEPT !.runs = 1]
    <3>1. b.method = "use" /\ b.cached = FALSE /\ b \in Ops
      BY KernelsAreOps, Kinds DEF BatchKvVariableGatherOrZerosOp
    <3> HIDE DEF b
    <3>2. r \in Ops /\ r.method = "use" /\ r.runs = 1
      BY <3>1 DEF Ops, Methods
    <3>3. r.cached = FALSE
      BY <3>1 DEF Ops
    <3> HIDE DEF r
    <3>4. r = [method |-> r.method, cached |-> r.cached, runs |-> r.runs]
      BY <3>2 DEF Ops
    <3>5. [method |-> r.method, cached |-> r.cached, runs |-> r.runs] = Scoped("use")
      BY <3>2, <3>3, Zenon DEF Scoped
    <3>6. r = Scoped("use")
      BY <3>4, <3>5
    <3> QED BY <3>6 DEF b, r
  <2>2. BatchKvVariableGatherOrZerosOp.runs - 1 = 1
    BY DEF BatchKvVariableGatherOrZerosOp
  <2> QED BY <2>1, <2>2
<1>4. ~Scoped("use").cached /\ Scoped("use") \in Readers
  BY Kinds DEF Scoped
<1>5. k # NoOp
  BY <1>2 DEF NoOp
<1>6. k.runs > 1 => [k EXCEPT !.runs = @ - 1] = Scoped("use")
  BY <1>2, <1>3
<1> QED BY <1>1, <1>2, <1>4, <1>5, <1>6

-----------------------------------------------------------------------------
\* The end of the work of a kernel that has a reference.
LEMMA ReleaseRefs ==
  ASSUME FinitelyMany, LifeAssumption, TypeOK, RefInv, NEW th \in Threads,
         NEW v \in Objects, v.refs = table[call[th].tab].refs,
         call[th].pc = "run", ~call[th].op.cached, Release(th, v),
         UNCHANGED <<node, bound, cache, alive, handle, restored, ckpt, raced>>,
         saw' \in [Threads -> Creators \cup {None}],
         \A u \in Threads : saw'[u] \in {saw[u], None, call[th].tab},
         call' \in [Threads -> Calls], \A u \in Threads : u # th => call'[u] = call[u],
         Shape(th)', ~call'[th].op.cached, call'[th].tab = None, call'[th].pc # "make"
  PROVE  TypeOK' /\ RefInv'
<1>1. /\ call \in [Threads -> Calls] /\ table \in [Creators -> Objects]
  BY TypeParts DEF Typed
<1>2. call[th].tab # None
  BY DEF RefInv, CallShape, Shape
<1>3. PICK t \in Creators : t = call[th].tab
  BY <1>1, <1>2 DEF Calls
<1>4. Owns(th, t)
  BY <1>3 DEF Owns
<1>5. table' = [table EXCEPT ![t] = Unref(v)]
  BY <1>3 DEF Release
<1>6. \A u \in Creators : ~Owns(th, u)'
  BY DEF Owns, LifeAssumption
<1>7. /\ table' \in [Creators -> Objects] /\ Balanced(th)
      /\ \A c \in Creators : Unmade(c) => table'[c] = table[c]
  BY <1>3, <1>4, <1>5, <1>6, DropEffect
<1>8. \A c \in Creators : Unmade(c)' => Unmade(c)
  BY DEF Unmade
<1>9. TypeOK'
  BY <1>7, TypeParts DEF Typed, Steps
<1> QED BY <1>7, <1>8, <1>9, ThreadStep DEF First

LEMMA RunRefs ==
  ASSUME FinitelyMany, LifeAssumption, TypeOK, RefInv, NEW th \in Threads, Run(th)
  PROVE  TypeOK' /\ RefInv'
<1>1. /\ call \in [Threads -> Calls] /\ table \in [Creators -> Objects]
      /\ restored \in 0..Steps /\ ckpt \in Checkpoints
      /\ saw \in [Threads -> Creators \cup {None}]
  BY TypeParts DEF Typed
<1>2. /\ call[th].pc = "run" /\ ~call[th].op.cached
      /\ saw' = [saw EXCEPT ![th] = None]
      /\ UNCHANGED <<node, bound, cache, alive, handle, restored, ckpt, raced>>
  BY DEF Run, Running
<1>3. call[th].tab \in Creators /\ table[call[th].tab] \in Objects
  BY <1>1, <1>2 DEF RefInv, CallShape, Shape, Calls
<1> DEFINE i == restored \div 2
           v == After(call[th].op.method, table[call[th].tab], i)
<1>4. i \in Nat
  BY <1>1 DEF Steps, LifeAssumption
<1>5. v \in Objects /\ v.refs = table[call[th].tab].refs
  <2> HIDE DEF i
  <2> QED BY <1>3, <1>4, AfterObject
<1>6. Release(th, v)
  BY DEF Run
<1>7. saw' \in [Threads -> Creators \cup {None}]
      /\ \A u \in Threads : saw'[u] \in {saw[u], None, call[th].tab}
  BY <1>1, <1>2
<1>8. call[th].op \in Kernels
  <2>1. call[th].op # NoOp
    BY DEF Run, Running, NoOp
  <2> QED BY <1>1, <2>1 DEF Calls
<1> HIDE DEF v
<1>9. CASE call[th].op.runs > 1
  <2> DEFINE k == [call[th].op EXCEPT !.runs = @ - 1]
  <2>1. call' = [call EXCEPT ![th].pc = "lookup", ![th].tab = None, ![th].op.runs = @ - 1]
    BY <1>9 DEF Run
  <2>2. k \in Kernels /\ ~k.cached
    BY <1>8, <1>9, KernelFacts, Kinds
  <2>3. call' = [call EXCEPT ![th].pc = "lookup", ![th].tab = None, ![th].op = k]
    BY <1>1, <2>1 DEF Calls
  <2> HIDE DEF k
  <2>4. /\ call' \in [Threads -> Calls] /\ \A u \in Threads : u # th => call'[u] = call[u]
        /\ call'[th].op = k /\ call'[th].pc = "lookup" /\ call'[th].tab = None
    <3> DEFINE c == [call[th] EXCEPT !.pc = "lookup", !.tab = None, !.op = k]
    <3>1. call[th] \in Calls
      BY <1>1
    <3>2. c \in Calls
      BY <2>2, <3>1 DEF Calls, Pcs
    <3>3. c.op = k /\ c.pc = "lookup" /\ c.tab = None
      BY <2>2, <3>1 DEF Calls, Pcs
    <3>4. call' = [call EXCEPT ![th] = c]
      BY <1>1, <2>3
    <3> HIDE DEF c
    <3> QED BY <1>1, <3>2, <3>3, <3>4
  <2>5. Shape(th)'
    BY <2>2, <2>4 DEF Shape, Making
  <2> QED BY <1>2, <1>5, <1>6, <1>7, <2>2, <2>4, <2>5, ReleaseRefs
<1>10. CASE ~(call[th].op.runs > 1)
  <2>1. End(th)
    BY <1>10 DEF Run
  <2>2. /\ call' \in [Threads -> Calls] /\ \A u \in Threads : u # th => call'[u] = call[u]
        /\ call'[th] = Idle
    BY <1>1, <2>1, IdleIsTyped DEF End
  <2>3. /\ call'[th].op = NoOp /\ ~NoOp.cached /\ call'[th].pc = "idle"
        /\ call'[th].tab = None
    BY <2>2 DEF Idle, NoOp
  <2>4. Shape(th)'
    BY <2>2, <2>3 DEF Shape, Making
  <2> QED BY <1>2, <1>5, <1>6, <1>7, <2>2, <2>3, <2>4, ReleaseRefs
<1> QED BY <1>9, <1>10

LEMMA IsInitializedRefs ==
  ASSUME FinitelyMany, LifeAssumption, TypeOK, RefInv, NEW th \in Threads, IsInitialized(th)
  PROVE  TypeOK' /\ RefInv'
<1>1. /\ call \in [Threads -> Calls] /\ table \in [Creators -> Objects]
      /\ saw \in [Threads -> Creators \cup {None}]
  BY TypeParts DEF Typed
<1>2. /\ call[th].pc = "run" /\ End(th) /\ Release(th, table[call[th].tab])
      /\ saw' = [saw EXCEPT ![th] = IF table[call[th].tab].ready THEN call[th].tab ELSE None]
      /\ UNCHANGED <<node, bound, cache, alive, handle, restored, ckpt, raced>>
  BY DEF IsInitialized, Running
<1>3. call[th].tab \in Creators /\ table[call[th].tab] \in Objects
  BY <1>1, <1>2 DEF RefInv, CallShape, Shape, Calls
<1>4. ~call[th].op.cached
  BY DEF IsInitialized, Running, RefInv, CallShape, Shape, KvVariableGatherOrZerosOp
<1>5. /\ saw' \in [Threads -> Creators \cup {None}]
      /\ \A u \in Threads : saw'[u] \in {saw[u], None, call[th].tab}
  BY <1>1, <1>2, <1>3
<1>6. /\ call' \in [Threads -> Calls] /\ \A u \in Threads : u # th => call'[u] = call[u]
      /\ call'[th] = Idle
  BY <1>1, <1>2, IdleIsTyped DEF End
<1>7. /\ call'[th].op = NoOp /\ ~NoOp.cached /\ call'[th].pc = "idle"
      /\ call'[th].tab = None
  BY <1>6 DEF Idle, NoOp
<1>8. Shape(th)'
  BY <1>6, <1>7 DEF Shape, Making
<1> QED BY <1>2, <1>3, <1>4, <1>5, <1>6, <1>7, <1>8, ReleaseRefs

LEMMA DeleteRefs ==
  ASSUME FinitelyMany, LifeAssumption, TypeOK, RefInv, NEW th \in Threads, Delete(th)
  PROVE  TypeOK' /\ RefInv'
<1>1. /\ call \in [Threads -> Calls] /\ table \in [Creators -> Objects]
      /\ bound \in Creators \cup {None} /\ restored \in 0..Steps /\ ckpt \in Checkpoints
  BY TypeParts DEF Typed
<1>2. /\ call[th].pc = "run" /\ End(th) /\ bound' = None
      /\ restored' \in {0, restored}
      /\ UNCHANGED <<node, cache, alive, handle, saw, ckpt, raced>>
  BY DEF Delete, Running
<1>3. ~call[th].op.cached /\ call[th].tab # None
  BY DEF Delete, Running, RefInv, CallShape, Shape, KvVariableGatherOrZerosOp
<1>4. PICK t \in Creators : t = call[th].tab
  BY <1>1, <1>3 DEF Calls
<1>5. \A u \in Creators : Owns(th, u) <=> u = t
  BY <1>3, <1>4 DEF Owns
<1>6. /\ call' \in [Threads -> Calls] /\ \A u \in Threads : u # th => call'[u] = call[u]
      /\ call'[th] = Idle
  BY <1>1, <1>2, IdleIsTyped DEF End
<1>7. /\ call'[th].op = NoOp /\ ~NoOp.cached /\ call'[th].pc = "idle"
      /\ call'[th].tab = None
  BY <1>6 DEF Idle, NoOp
<1>8. \A u \in Creators : ~Owns(th, u)' /\ u # None
  BY <1>7 DEF Owns, LifeAssumption
<1>9. table' = [u \in Creators |->
        LET v == IF u = bound THEN Unref(table[u]) ELSE table[u]
        IN IF u = t THEN Unref(v) ELSE v]
  BY <1>4 DEF Delete
<1>10. ASSUME NEW u \in Creators
       PROVE  /\ table'[u] \in Objects
              /\ table'[u].refs = table[u].refs - Counts(bound = u) - Counts(t = u)
              /\ u # bound /\ u # t => table'[u] = table[u]
  <2>1. table[u] \in Objects /\ table[u].refs \in Nat
    BY <1>1 DEF Objects
  <2>2. u = t => table[u].refs >= 1 + Counts(bound = u)
    BY <1>5, InUse DEF RefInv
  <2>3. u = bound => table[u].refs >= 1
    BY InUse DEF RefInv
  <2>4. table'[u] = LET v == IF u = bound THEN Unref(table[u]) ELSE table[u]
                    IN IF u = t THEN Unref(v) ELSE v
    BY <1>9
  <2> DEFINE v == IF u = bound THEN Unref(table[u]) ELSE table[u]
  <2>5. v \in Objects /\ v.refs = table[u].refs - Counts(bound = u)
    BY <2>1, <2>3, UnrefObject DEF Counts
  <2>6. table'[u] = IF u = t THEN Unref(v) ELSE v
    BY <2>4
  <2>7. u # bound => v = table[u]
    OBVIOUS
  <2> HIDE DEF v
  <2>8. CASE u = t
    <3>1. v.refs >= 1
      BY <2>1, <2>2, <2>5, <2>8 DEF Counts
    <3>2. Unref(v) \in Objects /\ Unref(v).refs = v.refs - 1
      BY <2>5, <3>1, UnrefObject
    <3> QED BY <2>1, <2>5, <2>6, <2>8, <3>2 DEF Counts
  <2>9. CASE u # t
    BY <2>1, <2>5, <2>6, <2>7, <2>9 DEF Counts
  <2> QED BY <2>8, <2>9
<1>11. table' \in [Creators -> Objects]
  BY <1>9, <1>10
<1>12. Balanced(th)
  <2> USE DEF Balanced
  <2> TAKE u \in Creators
  <2>1. table[u].refs \in Nat
    BY <1>1 DEF Objects
  <2> QED BY <1>2, <1>5, <1>8, <1>10, <2>1 DEF Counts
<1>13. \A c \in Creators : Unmade(c)' => Unmade(c) /\ table'[c] = table[c]
  <2>1. \A c \in Creators : Unmade(c)' => Unmade(c)
    BY <1>2, <1>6, <1>7 DEF Unmade
  <2>2. \A c \in Creators : Unmade(c) => c # bound /\ c # t
    BY <1>4, UnmadeUnused
  <2> QED BY <1>10, <2>1, <2>2
<1>14. 0 \in 0..Steps
  BY <1>1 DEF Steps, LifeAssumption
<1>15. TypeOK'
  BY <1>1, <1>2, <1>6, <1>11, <1>14, TypeParts DEF Typed, Steps
<1>16. Shape(th)'
  BY <1>6, <1>7 DEF Shape, Making
<1> QED BY <1>2, <1>6, <1>7, <1>12, <1>13, <1>15, <1>16, ThreadStep DEF First

LEMMA BeginRefs ==
  ASSUME FinitelyMany, LifeAssumption, TypeOK, RefInv, NEW th \in Threads,
         NEW k \in Kernels, ~k.cached, Begin(th, k), restored' \in 0..Steps
  PROVE  TypeOK' /\ RefInv'
<1>1. call \in [Threads -> Calls]
  BY TypeParts DEF Typed
<1>2. /\ call[th] = Idle /\ call' = [call EXCEPT ![th].pc = "lookup", ![th].op = k]
      /\ UNCHANGED <<node, bound, table, cache, alive, handle, saw, ckpt, raced>>
  BY DEF Begin, objects
<1>3. /\ call' \in [Threads -> Calls] /\ \A u \in Threads : u # th => call'[u] = call[u]
      /\ call'[th].pc = "lookup" /\ call'[th].op = k /\ call'[th].tab = call[th].tab
  BY <1>1, <1>2 DEF Calls, Pcs
<1>4. call[th].tab = None
  BY <1>2 DEF Idle
<1>5. TypeOK'
  BY <1>2, <1>3, TypeParts DEF Typed, Steps
<1>6. \A t \in Creators : ~Owns(th, t) /\ ~Owns(th, t)'
  BY <1>3, <1>4 DEF Owns, LifeAssumption
<1>7. \A c \in Creators : Unmade(c)' => Unmade(c)
  BY <1>2, <1>3 DEF Unmade
<1>8. Shape(th)'
  BY <1>3, <1>4 DEF Shape, Making
<1> QED BY <1>2, <1>3, <1>5, <1>6, <1>7, <1>8, QuietStep DEF First

LEMMA BeginGatherRefs ==
  ASSUME FinitelyMany, LifeAssumption, TypeOK, RefInv, NEW th \in Threads,
         NEW g \in Gatherers, BeginGather(th, g)
  PROVE  TypeOK' /\ RefInv'
<1> DEFINE l == IF cache[g] = None THEN "lookup" ELSE "run"
           c == [pc |-> l, node |-> g, op |-> KvVariableGatherOrZerosOp, tab |-> cache[g]]
<1>1. call \in [Threads -> Calls] /\ cache \in [Gatherers -> Creators \cup {None, Gone}]
  BY TypeParts DEF Typed
<1>2. /\ call[th] = Idle /\ cache[g] # Gone /\ call' = [call EXCEPT ![th] = c]
      /\ UNCHANGED <<node, bound, table, cache, alive, handle, saw, restored, ckpt>>
      /\ raced' = (raced \/ (cache[g] = None /\ \E u \in Threads :
                     call[u].node = g /\ call[u].pc \in {"lookup", "keep"}))
  BY DEF BeginGather, objects
<1>3. KvVariableGatherOrZerosOp \in Kernels /\ KvVariableGatherOrZerosOp.cached
  BY Kinds DEF KvVariableGatherOrZerosOp
<1>4. /\ c.pc = l /\ c.node = g /\ c.op = KvVariableGatherOrZerosOp /\ c.tab = cache[g]
      /\ l \in Pcs /\ (l = "lookup" <=> cache[g] = None) /\ (l = "run" <=> cache[g] # None)
      /\ l \in {"lookup", "run"}
  BY DEF Pcs
<1>5. c \in Calls
  BY <1>1, <1>2, <1>3, <1>4 DEF Calls
<1> HIDE DEF c, l
<1>6. /\ call' \in [Threads -> Calls] /\ \A u \in Threads : u # th => call'[u] = call[u]
      /\ call'[th] = c
  BY <1>1, <1>2, <1>5
<1>7. raced' \in BOOLEAN /\ (raced => raced')
  <2> QED BY <1>2, Zenon
<1>8. TypeOK'
  BY <1>2, <1>6, <1>7, TypeParts DEF Typed, Steps
<1>9. call[th].tab = None /\ call[th].pc = "idle"
  BY <1>2 DEF Idle
<1>10. \A t \in Creators : ~Owns(th, t) /\ ~Owns(th, t)'
  BY <1>3, <1>4, <1>6, <1>9 DEF Owns, LifeAssumption
<1>11. \A d \in Creators : Unmade(d)' => Unmade(d)
  BY <1>2, <1>4, <1>6 DEF Unmade
<1>12. Shape(th)'
  BY <1>4, <1>6 DEF Shape, Making
<1>13. First(th)' /\ ~raced' =>
           /\ cache[call'[th].node] = None
           /\ \A u \in Threads : First(u) /\ call[u].node = call'[th].node => u = th
  <2>1. cache[g] = None /\ ~raced' =>
          \A u \in Threads : call[u].node = g => call[u].pc \notin {"lookup", "keep"}
    BY <1>2
  <2> QED BY <1>4, <1>6, <2>1 DEF First
<1> QED BY <1>2, <1>4, <1>6, <1>7, <1>8, <1>10, <1>11, <1>12, <1>13, QuietStep

LEMMA KeepRefs ==
  ASSUME FinitelyMany, LifeAssumption, TypeOK, RefInv, NEW th \in Threads, Keep(th)
  PROVE  TypeOK' /\ RefInv'
<1>1. /\ call \in [Threads -> Calls] /\ table \in [Creators -> Objects]
      /\ cache \in [Gatherers -> Creators \cup {None, Gone}]
  BY TypeParts DEF Typed
<1>2. /\ call[th].pc = "keep"
      /\ cache' = [cache EXCEPT ![call[th].node] = call[th].tab]
      /\ UNCHANGED <<node, bound, table, alive, handle, saw, restored, ckpt, raced>>
  BY DEF Keep
<1>3. /\ call' \in [Threads -> Calls]
      /\ \A u \in Threads : u # th => call'[u] = call[u]
      /\ call'[th].pc = "run" /\ call'[th].node = call[th].node
      /\ call'[th].op = call[th].op /\ call'[th].tab = call[th].tab
  BY GotoCall DEF Keep, Pcs
<1>4. /\ call[th].op.cached /\ call[th].node \in Gatherers /\ call[th].tab # None
      /\ call[th].op = KvVariableGatherOrZerosOp
  BY <1>2 DEF RefInv, CallShape, Shape
<1>5. PICK g \in Gatherers, t \in Creators : g = call[th].node /\ t = call[th].tab
  BY <1>1, <1>4 DEF Calls
<1>6. /\ cache' \in [Gatherers -> Creators \cup {None, Gone}]
      /\ cache'[g] = t /\ \A h \in Gatherers : h # g => cache'[h] = cache[h]
  BY <1>1, <1>2, <1>5
<1>7. TypeOK'
  BY <1>2, <1>3, <1>6, TypeParts DEF Typed, Steps
<1>8. CallShape'
  <2>1. Shape(th)'
    BY <1>3, <1>4 DEF Shape, Making
  <2> QED BY <1>3, <2>1 DEF RefInv, CallShape, Shape, Making
<1>9. Fresh'
  <2>1. \A c \in Creators : Unmade(c)' => Unmade(c)
    BY <1>2, <1>3 DEF Unmade
  <2> QED BY <1>2, <2>1 DEF RefInv, Fresh
<1>10. ASSUME NEW u \in Creators
       PROVE  Spare(u)' = Spare(u) + Counts(cache[g] = u)
  <2>1. Keepers(u) \ {g} = Keepers(u)' \ {g}
    BY <1>6 DEF Keepers
  <2>2. /\ Cardinality(Keepers(u)) \in Nat /\ Cardinality(Keepers(u)') \in Nat
        /\ Cardinality(Keepers(u)') = Cardinality(Keepers(u)) - Counts(g \in Keepers(u))
                                      + Counts(g \in Keepers(u)')
    BY <2>1, Finite, Recount
  <2>3. (g \in Keepers(u) <=> cache[g] = u) /\ (g \in Keepers(u)' <=> t = u)
    BY <1>6 DEF Keepers
  <2>4. \A x \in Threads : x # th => (Owns(x, u)' <=> Owns(x, u))
    BY <1>3 DEF Owns
  <2>5. Holders(u) \ {th} = Holders(u)' \ {th}
    BY <2>4 DEF Holders
  <2>6. /\ Cardinality(Holders(u)) \in Nat /\ Cardinality(Holders(u)') \in Nat
        /\ Cardinality(Holders(u)') = Cardinality(Holders(u)) - Counts(th \in Holders(u))
                                      + Counts(th \in Holders(u)')
    BY <2>5, Finite, Recount
  <2>7. (th \in Holders(u) <=> t = u) /\ th \notin Holders(u)'
    BY <1>2, <1>3, <1>4, <1>5 DEF Holders, Owns
  <2>8. Owners(u)' = Counts(bound = u) + Cardinality(Keepers(u)') + Cardinality(Holders(u)')
    BY <1>2 DEF Owners, Counts, Keepers, Holders
  <2>9. Owners(u) = Counts(bound = u) + Cardinality(Keepers(u)) + Cardinality(Holders(u))
    BY Finite
  <2>10. Owners(u)' = Owners(u) - Counts(cache[g] = u)
    BY <2>2, <2>3, <2>6, <2>7, <2>8, <2>9 DEF Counts
  <2>11. table[u].refs \in Nat /\ Owners(u) \in Nat
    BY <1>1, Finite DEF Objects
  <2> QED BY <1>2, <2>10, <2>11 DEF Spare, Counts
<1>11. \A u \in Creators : Spare(u) \in Int
  BY <1>1, Finite DEF Spare, Objects
<1>12. ~raced => /\ cache[g] = None
                 /\ \A u \in Threads : First(u) /\ call[u].node = g => u = th
  BY <1>2, <1>4, <1>5 DEF RefInv, Alone, First
<1>13. Counted'
  <2>1. None \notin Creators
    BY DEF LifeAssumption
  <2> QED BY <1>2, <1>10, <1>11, <1>12, <2>1 DEF RefInv, Counted, Counts
<1>14. Kept'
  <2>1. KeptFor(th)'
    BY <1>3, <1>5, <1>6 DEF KeptFor
  <2>2. ASSUME NEW u \in Threads, u # th
        PROVE  KeptFor(u)'
    <3> SUFFICES ASSUME NEW s \in Creators, call[u].pc = "run", call[u].op.cached,
                        call[u].tab = s, cache'[call[u].node] # s
                 PROVE  Spare(s)' > 0
      BY <1>3, <2>2 DEF KeptFor
    <3>1. cache[call[u].node] = s \/ Spare(s) > 0
      BY DEF RefInv, Kept, KeptFor
    <3>2. call[u].node \in Gatherers
      BY DEF RefInv, CallShape, Shape
    <3>3. CASE Spare(s) > 0
      BY <1>10, <1>11, <3>3 DEF Counts
    <3>4. CASE cache[call[u].node] = s
      <4>1. call[u].node = g
        BY <1>6, <3>2, <3>4
      <4>2. Spare(s) >= 0
        BY DEF RefInv, Counted
      <4> QED BY <1>10, <1>11, <3>4, <4>1, <4>2 DEF Counts
    <3> QED BY <3>1, <3>3, <3>4
  <2> QED BY <2>1, <2>2 DEF Kept
<1>15. Alone'
  <2>1. ~First(th)' /\ \A u \in Threads : u # th => (First(u)' <=> First(u))
    BY <1>3 DEF First
  <2>2. \A u \in Threads : First(u) => call[u].node \in Gatherers
    BY DEF First, RefInv, CallShape, Shape
  <2> QED BY <1>2, <1>3, <1>6, <1>12, <2>1, <2>2 DEF RefInv, Alone
<1> QED BY <1>7, <1>8, <1>9, <1>13, <1>14, <1>15 DEF RefInv

LEMMA GatherOrZerosRefs ==
  ASSUME FinitelyMany, LifeAssumption, TypeOK, RefInv, NEW th \in Threads, GatherOrZeros(th)
  PROVE  TypeOK' /\ RefInv'
<1>1. \A t \in Creators : ~Owns(th, t)
  BY DEF GatherOrZeros, Running, Owns
<1> QED BY <1>1, EndRefs, TypeParts DEF GatherOrZeros, objects, Typed

LEMMA DestroyGathererRefs ==
  ASSUME FinitelyMany, LifeAssumption, TypeOK, RefInv, NEW g \in Gatherers, DestroyGatherer(g)
  PROVE  TypeOK' /\ RefInv'
<1>1. /\ call \in [Threads -> Calls] /\ table \in [Creators -> Objects]
      /\ cache \in [Gatherers -> Creators \cup {None, Gone}]
  BY TypeParts DEF Typed
<1>2. PICK t \in Creators : t = cache[g]
  BY DEF DestroyGatherer
<1>3. /\ \A th \in Threads : call[th].node # g
      /\ table' = [table EXCEPT ![t] = Unref(@)] /\ cache' = [cache EXCEPT ![g] = Gone]
      /\ UNCHANGED <<node, bound, alive, call, handle, saw, restored, ckpt, raced>>
  BY <1>2 DEF DestroyGatherer, clients
<1>4. table[t] \in Objects /\ table[t].refs >= 1 /\ table[t].refs \in Nat
  BY <1>1, <1>2, InUse DEF RefInv, Objects, Counts
<1>5. Unref(table[t]) \in Objects /\ Unref(table[t]).refs = table[t].refs - 1
  BY <1>4, UnrefObject
<1>6. /\ table' \in [Creators -> Objects] /\ table'[t].refs = table[t].refs - 1
      /\ \A u \in Creators : u # t => table'[u] = table[u]
  BY <1>1, <1>3, <1>5
<1>7. /\ cache' \in [Gatherers -> Creators \cup {None, Gone}]
      /\ cache'[g] = Gone /\ \A h \in Gatherers : h # g => cache'[h] = cache[h]
  BY <1>1, <1>3
<1>8. TypeOK'
  BY <1>3, <1>6, <1>7, TypeParts DEF Typed, Steps
<1>9. CallShape'
  BY <1>3 DEF RefInv, CallShape, Shape, Making
<1>10. Fresh'
  <2>1. \A c \in Creators : Unmade(c)' => Unmade(c)
    BY <1>3 DEF Unmade
  <2>2. \A c \in Creators : Unmade(c) => c # t
    BY <1>2, UnmadeUnused
  <2> QED BY <1>3, <1>6, <2>1, <2>2 DEF RefInv, Fresh
<1>11. ASSUME NEW u \in Creators
       PROVE  Spare(u)' = Spare(u)
  <2>1. Keepers(u) \ {g} = Keepers(u)' \ {g}
    BY <1>7 DEF Keepers
  <2>2. /\ Cardinality(Keepers(u)) \in Nat /\ Cardinality(Keepers(u)') \in Nat
        /\ Cardinality(Keepers(u)') = Cardinality(Keepers(u)) - Counts(g \in Keepers(u))
                                      + Counts(g \in Keepers(u)')
    BY <2>1, Finite, Recount
  <2>3. (g \in Keepers(u) <=> t = u) /\ g \notin Keepers(u)'
    BY <1>2, <1>7 DEF Keepers, LifeAssumption
  <2>4. Holders(u)' = Holders(u)
    BY <1>3 DEF Holders, Owns
  <2>5. Owners(u)' = Counts(bound = u) + Cardinality(Keepers(u)') + Cardinality(Holders(u)')
    BY <1>3 DEF Owners, Counts, Keepers, Holders
  <2>6. /\ Owners(u) = Counts(bound = u) + Cardinality(Keepers(u)) + Cardinality(Holders(u))
        /\ Cardinality(Holders(u)) \in Nat
    BY Finite
  <2>7. Owners(u)' = Owners(u) - Counts(t = u)
    BY <2>2, <2>3, <2>4, <2>5, <2>6 DEF Counts
  <2>8. table[u].refs \in Nat /\ Owners(u) \in Nat
    BY <1>1, Finite DEF Objects
  <2> QED BY <1>6, <2>7, <2>8 DEF Spare, Counts
<1>12. Counted'
  BY <1>3, <1>11 DEF RefInv, Counted
<1>13. Kept'
  <2> SUFFICES ASSUME NEW u \in Threads
               PROVE  KeptFor(u)'
    BY DEF Kept
  <2>1. call[u].op.cached => call[u].node \in Gatherers /\ call[u].node # g
    BY <1>3 DEF RefInv, CallShape, Shape
  <2> QED BY <1>3, <1>7, <1>11, <2>1 DEF RefInv, Kept, KeptFor
<1>14. Alone'
  <2>1. \A u \in Threads : (First(u)' <=> First(u)) /\ (First(u) => call[u].node \in Gatherers)
    BY <1>3 DEF First, RefInv, CallShape, Shape
  <2> QED BY <1>3, <1>7, <2>1 DEF RefInv, Alone
<1> QED BY <1>8, <1>9, <1>10, <1>12, <1>13, <1>14 DEF RefInv

LEMMA StillRefs ==
  ASSUME FinitelyMany, LifeAssumption, TypeOK, RefInv,
         UNCHANGED <<node, bound, table, cache, clients>>, alive' \in BOOLEAN
  PROVE  TypeOK' /\ RefInv'
<1> USE DEF clients
<1>1. TypeOK'
  BY TypeParts DEF Typed, Steps
<1>2. \A t \in Creators : Spare(t)' = Spare(t)
  BY DEF Spare, Owners, Owns
<1>3. \A c \in Creators : Unmade(c)' => Unmade(c)
  BY DEF Unmade
<1>4. CallShape'
  BY DEF RefInv, CallShape, Shape, Making
<1>5. Fresh' /\ Counted'
  BY <1>2, <1>3 DEF RefInv, Fresh, Counted
<1>6. Kept'
  BY <1>2 DEF RefInv, Kept, KeptFor
<1>7. Alone'
  BY DEF RefInv, Alone, First
<1> QED BY <1>1, <1>4, <1>5, <1>6, <1>7 DEF RefInv

LEMMA RefsInit == Init => TypeOK /\ RefInv
<1> SUFFICES ASSUME Init
             PROVE  TypeOK /\ RefInv
  OBVIOUS
<1> USE LifeAssumption, FinitelyMany
<1>1. /\ node = [c \in Creators |-> [token |-> FALSE, set |-> FALSE, handle |-> FALSE]]
      /\ bound = None /\ table = [c \in Creators |-> NotThere]
      /\ cache = [g \in Gatherers |-> None] /\ call = [th \in Threads |-> Idle]
      /\ handle = [th \in Threads |-> FALSE] /\ saw = [th \in Threads |-> None]
      /\ restored = 0 /\ ckpt \in Checkpoints /\ raced = FALSE /\ alive = TRUE
  BY DEF Init
<1>2. NotThere \in Objects /\ NotThere.refs = 0
  BY DEF NotThere, Objects
<1>3. [token |-> FALSE, set |-> FALSE, handle |-> FALSE] \in Nodes
  BY DEF Nodes
<1>4. 0 \in 0..Steps
  BY <1>1 DEF Steps, LifeAssumption
<1>5. TypeOK
  <2>1. Typed
    BY <1>1, <1>2, <1>3, <1>4, IdleIsTyped DEF Typed
  <2> QED BY <2>1, TypeParts
<1>6. /\ Idle.tab = None /\ Idle.pc = "idle" /\ Idle.op = NoOp /\ ~NoOp.cached
      /\ None \notin Creators
  BY DEF Idle, NoOp, LifeAssumption
<1>7. CallShape
  BY <1>1, <1>6 DEF CallShape, Shape, Making
<1>8. Fresh
  BY <1>1, <1>6 DEF Fresh
<1>9. ASSUME NEW t \in Creators
      PROVE  Spare(t) = 0
  <2>1. Keepers(t) = {} /\ Holders(t) = {}
    BY <1>1, <1>6 DEF Keepers, Holders, Owns
  <2>2. Owners(t) = Counts(bound = t) + Cardinality(Keepers(t)) + Cardinality(Holders(t))
    BY Finite
  <2>3. Owners(t) = 0
    BY <1>1, <1>6, <2>1, <2>2, FS_EmptySet DEF Counts
  <2> QED BY <1>1, <1>2, <2>3 DEF Spare
<1>10. Counted
  BY <1>9 DEF Counted
<1>11. Kept /\ Alone
  BY <1>1, <1>6 DEF Kept, KeptFor, Alone, First
<1> QED BY <1>5, <1>7, <1>8, <1>10, <1>11 DEF RefInv

LEMMA RefsNext ==
  ASSUME FinitelyMany, LifeAssumption, IInv, TypeOK, RefInv, [Next]_vars
  PROVE  TypeOK' /\ RefInv'
<1>0. restored \in 0..Steps /\ ckpt \in Checkpoints /\ raced \in BOOLEAN /\ alive \in BOOLEAN
  BY TypeParts DEF Typed
<1>1. CASE UNCHANGED vars
  BY <1>0, <1>1, StillRefs DEF vars, objects
<1>2. ASSUME NEW th \in Threads, Continue(th)
      PROVE  TypeOK' /\ RefInv'
  <2>1. CASE Make(th)
    BY <2>1, MakeRefs
  <2>2. CASE MakeFails(th)
    BY <2>2, MakeFailsRefs
  <2>3. CASE Publish(th)
    BY <2>3, PublishRefs
  <2>4. CASE SetFlag(th)
    BY <2>4, SetFlagRefs
  <2>5. CASE Wait(th)
    BY <2>5, WaitRefs
  <2>6. CASE Output(th)
    BY <2>6, OutputRefs
  <2>7. CASE Lookup(th)
    BY <2>7, LookupRefs
  <2>8. CASE Run(th)
    BY <2>8, RunRefs
  <2>9. CASE IsInitialized(th)
    BY <2>9, IsInitializedRefs
  <2>10. CASE Delete(th)
    BY <2>10, DeleteRefs
  <2>11. CASE Keep(th)
    BY <2>11, KeepRefs
  <2>12. CASE GatherOrZeros(th)
    BY <2>12, GatherOrZerosRefs
  <2>13. CASE DrawFromNothing(th)
    BY <2>13, StillRefs DEF DrawFromNothing
  <2> QED BY <1>2, <2>1, <2>2, <2>3, <2>4, <2>5, <2>6, <2>7, <2>8, <2>9, <2>10,
             <2>11, <2>12, <2>13 DEF Continue
<1>3. ASSUME NEW th \in Threads,
             NEW k \in Readers \cup Trainers \cup Importers
                       \cup {InitKvVariableOp, DestroyKvVariableOp},
             Begin(th, k), restored' \in 0..Steps
      PROVE  TypeOK' /\ RefInv'
  <2>1. k \in Kernels /\ k # KvVariableGatherOrZerosOp
    BY Kinds DEF InitKvVariableOp, DestroyKvVariableOp, KvVariableGatherOrZerosOp,
      BatchKvVariableGatherOrZerosOp, Scoped
  <2>2. ~k.cached
    BY <2>1, KernelFacts
  <2> QED BY <1>3, <2>1, <2>2, BeginRefs
<1>4. ASSUME NEW th \in Workers, BeginSomething(th)
      PROVE  TypeOK' /\ RefInv'
  <2>0. th \in Threads
    BY DEF Threads
  <2>1. CASE StartCreate(th)
    BY <2>0, <2>1, StartCreateRefs
  <2>2. CASE BeginRead(th)
    BY <1>0, <1>3, <2>0, <2>2 DEF BeginRead
  <2>3. CASE BeginTrain(th)
    BY <1>0, <1>3, <2>0, <2>3 DEF BeginTrain
  <2>4. CASE BeginDestroy(th)
    BY <1>0, <1>3, <2>0, <2>4 DEF BeginDestroy
  <2>5. CASE \E g \in Gatherers : BeginGather(th, g)
    BY <2>0, <2>5, BeginGatherRefs
  <2> QED BY <1>4, <2>1, <2>2, <2>3, <2>4, <2>5 DEF BeginSomething
<1>5. Chief \in Threads
  BY DEF Threads
<1>6. CASE StartCreate(Chief)
  BY <1>5, <1>6, StartCreateRefs
<1>7. Steps \in Nat
  BY <1>0 DEF Steps, LifeAssumption
<1>8. CASE BeginInit
  BY <1>3, <1>5, <1>7, <1>8 DEF BeginInit
<1>9. CASE BeginRestore
  <2>1. restored' \in 0..Steps
    BY <1>0, <1>7, <1>9 DEF BeginRestore
  <2> QED BY <1>3, <1>5, <1>9, <2>1 DEF BeginRestore
<1>10. ASSUME NEW g \in Gatherers, DestroyGatherer(g)
       PROVE  TypeOK' /\ RefInv'
  BY <1>10, DestroyGathererRefs
<1> QED BY <1>1, <1>2, <1>4, <1>6, <1>8, <1>9, <1>10 DEF Next

LEMMA NoLeaks ==
  ASSUME FinitelyMany, TypeOK, RefInv
  PROVE  LeaksOnlyByRace
<1> SUFFICES ASSUME ~raced, NEW t \in Creators
             PROVE  table[t].refs = Owners(t)
  BY DEF LeaksOnlyByRace
<1>1. Spare(t) = 0
  BY DEF RefInv, Counted
<1>2. table[t].refs \in Nat /\ Owners(t) \in Nat
  BY Finite, TypeParts DEF Typed, Objects
<1> QED BY <1>1, <1>2 DEF Spare

-----------------------------------------------------------------------------
(* The restore: what who trains finds.                                     *)

\* What the threads other than the chief's run.
WorkerOps == Readers \cup Trainers \cup {NoOp, DestroyKvVariableOp, KvVariableGatherOrZerosOp}

WorkersDo == \A w \in Workers : call[w].op \in WorkerOps

\* The chief is at a step of a restore, or at the initialiser.
Busy == call[Chief].op # NoOp

\* A full checkpoint or a delta is being imported.
Importing == Busy /\ restored % 2 = 1

ChiefDoes ==
  /\ Busy => /\ restored >= 1
             /\ call[Chief].op \in IF restored % 2 = 1 THEN Importers ELSE {InitKvVariableOp}
             /\ call[Chief].pc \in {"lookup", "run"}
             /\ call[Chief].tab \in {bound, None}
             /\ ~Destroying
  /\ Destroying => restored \in {0, Steps}

\* Imports that have been made, the full checkpoint's among them.
Imported == IF Importing THEN restored \div 2 ELSE (restored + 1) \div 2

\* An object that nobody has restored is not initialised.
Untouched ==
  restored = 0 \/ (restored = 1 /\ Busy) =>
    \A t \in Creators : bound = t => ~table[t].ready

\* The name denotes one object for the whole of a restore.
Restoring ==
  Imported >= 1 /\ restored < Steps =>
    /\ bound # None
    /\ \A t \in Creators : bound = t =>
         /\ ckpt.rows => table[t].rows
         /\ table[t].due = ckpt.deltas + 1 - Imported

Filled ==
  ckpt.rows => \A t \in Creators :
    /\ ~table[t].rows => table[t].due = 0 /\ ~table[t].ready
    /\ table[t].ready /\ ckpt.v2 => table[t].due = 0

Seen ==
  \A th \in Threads : \A t \in Creators :
    saw[th] = t => table[t].refs = 0 \/ table[t].ready

RestInv == WorkersDo /\ ChiefDoes /\ Untouched /\ Restoring /\ Filled /\ Seen

\* A step that does no more to an object than count its references, free it
\* or make it.
Calm(t) ==
  \/ Alike(table'[t], table[t]) /\ (table[t].refs = 0 => table'[t].refs = 0)
  \/ table'[t] = NotThere
  \/ Unmade(t) /\ table'[t] = NewTable

LEMMA CalmStep ==
  ASSUME LifeAssumption, FinitelyMany, TypeOK, RefInv, RestInv,
         UNCHANGED <<ckpt, restored>>,
         \A w \in Workers : call'[w].op \in WorkerOps,
         call'[Chief].op = call[Chief].op,
         Busy => call'[Chief].pc \in {"lookup", "run"} /\ call'[Chief].tab \in {bound', None},
         Destroying' => Destroying \/ (restored \in {0, Steps} /\ ~Busy),
         bound' = bound \/ (bound = None /\ bound' \in Creators /\ ~table'[bound'].ready),
         \A t \in Creators : bound = t => Alike(table'[t], table[t]),
         \A t \in Creators : Calm(t),
         \A u \in Threads : \A t \in Creators :
           saw'[u] = t => saw[u] = t \/ table'[t].refs = 0 \/ table'[t].ready
  PROVE  RestInv'
<1>1. WorkersDo'
  BY DEF WorkersDo
<1>2. (Busy' <=> Busy) /\ (Importing' <=> Importing) /\ Imported' = Imported
  BY DEF Busy, Importing, Imported
<1>3. ChiefDoes'
  <2>1. Steps' = Steps /\ Importers' = Importers
    BY DEF Steps, Importers
  <2> QED BY <1>2, <2>1 DEF RestInv, ChiefDoes, Busy
<1>4. Untouched'
  BY <1>2 DEF RestInv, Untouched, Alike, LifeAssumption
<1>5. Restoring'
  <2>1. Steps' = Steps
    BY DEF Steps
  <2> QED BY <1>2, <2>1 DEF RestInv, Restoring, Alike
<1>6. Filled'
  <2> SUFFICES ASSUME ckpt.rows, NEW t \in Creators
               PROVE  /\ ~table'[t].rows => table'[t].due = 0 /\ ~table'[t].ready
                      /\ table'[t].ready /\ ckpt.v2 => table'[t].due = 0
    BY DEF Filled
  <2>1. CASE Alike(table'[t], table[t])
    BY <2>1 DEF RestInv, Filled, Alike
  <2>2. CASE table'[t] = NotThere \/ table'[t] = NewTable
    BY <2>2 DEF NotThere, NewTable
  <2> QED BY <2>1, <2>2 DEF Calm
<1>7. Seen'
  <2> SUFFICES ASSUME NEW u \in Threads, NEW t \in Creators, saw'[u] = t, saw[u] = t
               PROVE  table'[t].refs = 0 \/ table'[t].ready
    BY DEF Seen
  <2>1. ~Unmade(t)
    BY UnmadeUnused
  <2>2. table[t].refs = 0 \/ table[t].ready
    BY DEF RestInv, Seen
  <2>3. CASE Alike(table'[t], table[t]) /\ (table[t].refs = 0 => table'[t].refs = 0)
    BY <2>2, <2>3 DEF Alike
  <2>4. CASE table'[t] = NotThere
    BY <2>4 DEF NotThere
  <2> QED BY <2>1, <2>3, <2>4 DEF Calm
<1> QED BY <1>1, <1>3, <1>4, <1>5, <1>6, <1>7 DEF RestInv

\* The same for a step of one thread.
LEMMA CalmThread ==
  ASSUME LifeAssumption, FinitelyMany, TypeOK, RefInv, RestInv, NEW th \in Threads,
         \A u \in Threads : u # th => call'[u] = call[u],
         UNCHANGED <<ckpt, restored>>,
         th = Chief => call'[th].op = call[th].op /\
           (Busy => call'[th].pc \in {"lookup", "run"} /\ call'[th].tab \in {bound', None}),
         th # Chief => call'[th].op \in WorkerOps,
         call'[th].op = DestroyKvVariableOp =>
           call[th].op = DestroyKvVariableOp \/ RestoreAtRest,
         bound' = bound \/ (bound = None /\ bound' \in Creators /\ ~table'[bound'].ready),
         \A t \in Creators : bound = t => Alike(table'[t], table[t]),
         \A t \in Creators : Calm(t),
         \A u \in Threads : \A t \in Creators :
           saw'[u] = t => saw[u] = t \/ table'[t].refs = 0 \/ table'[t].ready
  PROVE  RestInv'
<1>1. Chief \in Threads /\ \A w \in Workers : w \in Threads /\ w # Chief
  BY DEF Threads, LifeAssumption
<1>2. \A w \in Workers : call'[w].op \in WorkerOps
  BY <1>1 DEF RestInv, WorkersDo
<1>3. call'[Chief].op = call[Chief].op
  BY <1>1
<1>4. Busy => call'[Chief].pc \in {"lookup", "run"} /\ call'[Chief].tab \in {bound', None}
  <2> SUFFICES ASSUME Busy, th # Chief
               PROVE  call'[Chief].pc \in {"lookup", "run"} /\ call'[Chief].tab \in {bound', None}
    OBVIOUS
  <2>1. call'[Chief] = call[Chief]
    BY <1>1
  <2>2. call[Chief].pc \in {"lookup", "run"} /\ call[Chief].tab \in {bound, None}
    BY DEF RestInv, ChiefDoes
  <2>3. call[Chief].tab = bound /\ bound # None => bound' = bound
    OBVIOUS
  <2> QED BY <2>1, <2>2, <2>3
<1>5. Destroying' => Destroying \/ (restored \in {0, Steps} /\ ~Busy)
  BY DEF Destroying, RestoreAtRest, Busy, Idle
<1> QED BY <1>2, <1>3, <1>4, <1>5, CalmStep

LEMMA WorkerMethods ==
  ASSUME NEW k \in WorkerOps
  PROVE  k.method \in {"none", "use", "draw", "IsInitialized", "Destroy"}
BY Kinds DEF WorkerOps, Scoped, NoOp, DestroyKvVariableOp, KvVariableGatherOrZerosOp,
  BatchKvVariableGatherOrZerosOp

LEMMA ChiefMethods ==
  ASSUME RestInv
  PROVE  /\ call[Chief].op = NoOp \/ call[Chief].op.method \in
              {"InitRandomValues", "ImportValues", "FullOrDeltaImport"}
         /\ ~call[Chief].op.cached
         /\ ~(call[Chief].op.runs > 1)
         /\ call[Chief].op.method \notin {"use", "draw", "IsInitialized", "Destroy"}
         /\ call[Chief].op # DestroyKvVariableOp
<1>1. /\ call[Chief].op = NoOp
         \/ call[Chief].op \in {Scoped("ImportValues"), Scoped("FullOrDeltaImport"),
                                Scoped("InitRandomValues")}
  BY Kinds DEF RestInv, ChiefDoes, Busy, InitKvVariableOp
<1> QED BY <1>1 DEF Scoped, NoOp, DestroyKvVariableOp

\* A step of a thread that is the chief only while it creates.
LEMMA QuietRest ==
  ASSUME LifeAssumption, FinitelyMany, TypeOK, RefInv, RestInv, NEW th \in Threads,
         \A u \in Threads : u # th => call'[u] = call[u],
         UNCHANGED <<bound, table, ckpt, restored>>,
         th = Chief => call[th].op = NoOp /\ call'[th].op = NoOp,
         th # Chief => call'[th].op \in WorkerOps,
         call'[th].op = DestroyKvVariableOp =>
           call[th].op = DestroyKvVariableOp \/ RestoreAtRest,
         \A u \in Threads : \A t \in Creators : saw'[u] = t => saw[u] = t
  PROVE  RestInv'
<1>1. \A t \in Creators : Calm(t) /\ Alike(table'[t], table[t])
  BY DEF Calm, Alike
<1>2. th = Chief => ~Busy
  BY DEF Busy
<1> QED BY <1>1, <1>2, CalmThread

LEMMA EndRest ==
  ASSUME LifeAssumption, FinitelyMany, TypeOK, RefInv, RestInv, NEW th \in Threads, End(th),
         UNCHANGED <<bound, table, ckpt, restored>>,
         th = Chief => call[th].op = NoOp,
         \A u \in Threads : \A t \in Creators : saw'[u] = t => saw[u] = t
  PROVE  RestInv'
<1>1. call \in [Threads -> Calls]
  BY TypeParts DEF Typed
<1>2. call'[th].op = NoOp /\ \A u \in Threads : u # th => call'[u] = call[u]
  BY <1>1 DEF End, Idle
<1>3. NoOp \in WorkerOps /\ NoOp # DestroyKvVariableOp
  BY DEF WorkerOps, NoOp, DestroyKvVariableOp, Scoped
<1> QED BY <1>2, <1>3, QuietRest

\* Whoever creates runs no kernel.
LEMMA CreatorsRunNothing ==
  ASSUME RefInv, NEW th \in Threads,
         call[th] = Idle \/ Making(th) \/ call[th].pc \in {"wait", "output"}
  PROVE  /\ call[th].op = NoOp /\ NoOp \in WorkerOps /\ NoOp # DestroyKvVariableOp
         /\ th = Chief => ~Busy
<1>1. call[th].op = NoOp
  BY DEF RefInv, CallShape, Shape, Idle
<1>2. NoOp \in WorkerOps /\ NoOp # DestroyKvVariableOp
  BY DEF WorkerOps, NoOp, DestroyKvVariableOp, Scoped
<1> QED BY <1>1, <1>2 DEF Busy

LEMMA StartCreateRest ==
  ASSUME LifeAssumption, FinitelyMany, TypeOK, RefInv, RestInv,
         NEW th \in Threads, StartCreate(th)
  PROVE  RestInv'
<1>1. call \in [Threads -> Calls]
  BY TypeParts DEF Typed
<1>2. call[th] = Idle /\ UNCHANGED <<bound, table, ckpt, restored, saw>>
  BY DEF StartCreate
<1>3. /\ call'[th].op = call[th].op
      /\ \A u \in Threads : u # th => call'[u] = call[u]
  BY <1>1 DEF StartCreate, Calls
<1> QED BY <1>2, <1>3, CreatorsRunNothing, QuietRest

LEMMA GotoRest ==
  ASSUME LifeAssumption, FinitelyMany, TypeOK, RefInv, RestInv,
         NEW th \in Threads, Publish(th) \/ Wait(th)
  PROVE  RestInv'
<1>1. call[th].pc \in {"publish", "wait"} /\ UNCHANGED <<bound, table, ckpt, restored, saw>>
  BY DEF Publish, Wait, objects
<1>2. \E l \in Pcs : Goto(th, l)
  BY DEF Publish, Wait, Pcs
<1>3. /\ call'[th].op = call[th].op
      /\ \A u \in Threads : u # th => call'[u] = call[u]
  BY <1>2, GotoCall
<1> QED BY <1>1, <1>3, CreatorsRunNothing, QuietRest DEF Making

LEMMA CreateEndRest ==
  ASSUME LifeAssumption, FinitelyMany, TypeOK, RefInv, RestInv,
         NEW th \in Threads, MakeFails(th) \/ Output(th)
  PROVE  RestInv'
<1>1. /\ call[th].pc \in {"make", "output"} /\ End(th)
      /\ UNCHANGED <<bound, table, ckpt, restored, saw>>
  BY DEF MakeFails, Output, objects
<1> QED BY <1>1, CreatorsRunNothing, EndRest DEF Making

LEMMA MakeRest ==
  ASSUME LifeAssumption, FinitelyMany, IInv, TypeOK, RefInv, RestInv,
         NEW th \in Threads, Make(th)
  PROVE  RestInv'
<1>1. /\ call \in [Threads -> Calls] /\ table \in [Creators -> Objects]
      /\ bound \in Creators \cup {None}
  BY TypeParts DEF Typed
<1>2. PICK n \in Creators, t \in Creators :
        n = call[th].node /\ t = IF bound = None THEN n ELSE bound
  BY <1>1 DEF IInv, AtNodes, Making, Make
<1>3. /\ call[th].pc = "make" /\ bound' = t
      /\ table' = [table EXCEPT ![t] = IF bound = None THEN NewTable ELSE Ref(@)]
      /\ call' = [call EXCEPT ![th].pc = "publish", ![th].tab = t]
      /\ UNCHANGED <<saw, restored, ckpt>>
  BY <1>2 DEF Make
<1>4. /\ call'[th].op = call[th].op
      /\ \A u \in Threads : u # th => call'[u] = call[u]
  BY <1>1, <1>3 DEF Calls
<1>5. Unmade(n)
  BY <1>2, <1>3 DEF Unmade
<1>6. /\ table'[t] = IF bound = None THEN NewTable ELSE Ref(table[t])
      /\ \A u \in Creators : u # t => table'[u] = table[u]
  BY <1>1, <1>3
<1>7. CASE bound = None
  <2>1. table'[t] = NewTable /\ t = n
    BY <1>2, <1>6, <1>7
  <2>2. \A u \in Creators : Calm(u)
    BY <1>5, <1>6, <2>1 DEF Calm, Alike
  <2>3. ~table'[bound'].ready
    BY <1>3, <2>1 DEF NewTable
  <2>4. None \notin Creators
    BY DEF LifeAssumption
  <2> QED BY <1>3, <1>4, <1>7, <2>2, <2>3, <2>4, CreatorsRunNothing, CalmThread DEF Making
<1>8. CASE bound # None
  <2>1. bound = t /\ table'[t] = Ref(table[t]) /\ table[t] \in Objects
    BY <1>1, <1>2, <1>6, <1>8
  <2>2. Alike(table'[t], table[t])
    BY <2>1, RefObject
  <2>3. table[t].refs # 0
    BY <2>1, InUse DEF RefInv
  <2>4. \A u \in Creators : Calm(u)
    BY <1>6, <2>2, <2>3 DEF Calm, Alike
  <2> QED BY <1>3, <1>4, <2>1, <2>2, <2>4, CreatorsRunNothing, CalmThread DEF Making
<1> QED BY <1>7, <1>8

\* What the drop of a reference does to the objects, when the work left this
\* one as it was.
LEMMA DropCalm ==
  ASSUME LifeAssumption, FinitelyMany, TypeOK, RefInv, NEW th \in Threads,
         NEW t \in Creators, Owns(th, t), table' = [table EXCEPT ![t] = Unref(@)],
         UNCHANGED bound, \A u \in Creators : ~Owns(th, u)'
  PROVE  /\ \A u \in Creators : Calm(u)
         /\ \A u \in Creators : bound = u => Alike(table'[u], table[u])
<1>1. table \in [Creators -> Objects]
  BY TypeParts DEF Typed
<1>2. table[t] \in Objects /\ table' = [table EXCEPT ![t] = Unref(table[t])]
  BY <1>1
<1>3. /\ \A u \in Creators : u # t => table'[u] = table[u]
      /\ Alike(table'[t], table[t]) \/ table'[t] = NotThere
      /\ bound = t => Alike(table'[t], table[t])
  BY <1>2, DropEffect
<1>4. table[t].refs # 0
  BY InUse DEF RefInv, Counts
<1> QED BY <1>3, <1>4 DEF Calm, Alike

LEMMA SetFlagRest ==
  ASSUME LifeAssumption, FinitelyMany, TypeOK, RefInv, RestInv,
         NEW th \in Threads, SetFlag(th)
  PROVE  RestInv'
<1>1. call \in [Threads -> Calls]
  BY TypeParts DEF Typed
<1>2. /\ call[th].pc = "flag" /\ table' = [table EXCEPT ![call[th].tab] = Unref(@)]
      /\ call' = [call EXCEPT ![th].pc = "wait", ![th].tab = None]
      /\ UNCHANGED <<bound, saw, restored, ckpt>>
  BY DEF SetFlag
<1>3. call[th].tab # None
  BY <1>2 DEF RefInv, CallShape, Shape
<1>4. PICK t \in Creators : t = call[th].tab
  BY <1>1, <1>3 DEF Calls
<1>5. Owns(th, t)
  BY <1>2, <1>4 DEF Owns
<1>6. /\ \A u \in Threads : u # th => call'[u] = call[u]
      /\ call'[th].tab = None /\ call'[th].op = call[th].op
  BY <1>1, <1>2 DEF Calls
<1>7. \A u \in Creators : ~Owns(th, u)'
  BY <1>6 DEF Owns, LifeAssumption
<1>8. /\ \A u \in Creators : Calm(u)
      /\ \A u \in Creators : bound = u => Alike(table'[u], table[u])
  BY <1>2, <1>4, <1>5, <1>7, DropCalm
<1> QED BY <1>2, <1>6, <1>8, CreatorsRunNothing, CalmThread DEF Making

LEMMA LookupRest ==
  ASSUME LifeAssumption, FinitelyMany, TypeOK, RefInv, RestInv,
         NEW th \in Threads, Lookup(th)
  PROVE  RestInv'
<1>1. /\ call \in [Threads -> Calls] /\ table \in [Creators -> Objects]
      /\ bound \in Creators \cup {None} /\ saw \in [Threads -> Creators \cup {None}]
      /\ ckpt \in Checkpoints
  BY TypeParts DEF Typed
<1>2. call[th].pc = "lookup" /\ UNCHANGED <<bound, ckpt>>
  BY DEF Lookup
<1>3. th \in Workers \/ th = Chief
  BY DEF Threads
<1>4. None \notin Creators
  BY DEF LifeAssumption
<1>5. CASE bound = None
  <2>1. End(th) /\ UNCHANGED table /\ saw' = [saw EXCEPT ![th] = None]
        /\ restored' = IF th = Chief THEN 0 ELSE restored
    BY <1>5 DEF Lookup
  <2>2. \A u \in Threads : \A t \in Creators : saw'[u] = t => saw[u] = t
    BY <1>1, <1>4, <2>1
  <2>3. CASE th # Chief
    BY <1>2, <2>1, <2>2, <2>3, EndRest
  <2>4. CASE th = Chief
    <3>1. /\ call'[Chief].op = NoOp /\ NoOp # DestroyKvVariableOp
          /\ \A u \in Threads : u # Chief => call'[u] = call[u]
          /\ restored' = 0
      BY <1>1, <2>1, <2>4 DEF End, Idle, NoOp, DestroyKvVariableOp, Scoped
    <3>2. Steps' = Steps /\ Steps \in Nat
      BY <1>1, <1>2 DEF Steps, LifeAssumption
    <3>3. ~Busy' /\ Imported' = 0
      BY <3>1 DEF Busy, Importing, Imported
    <3>4. WorkersDo'
      BY <3>1 DEF RestInv, WorkersDo, Threads, LifeAssumption
    <3>5. ChiefDoes'
      BY <3>1, <3>2, <3>3 DEF ChiefDoes
    <3>6. Untouched' /\ Restoring'
      BY <1>2, <1>4, <1>5, <3>3 DEF Untouched, Restoring
    <3>7. Filled' /\ Seen'
      BY <1>2, <2>1, <2>2 DEF RestInv, Filled, Seen
    <3> QED BY <3>4, <3>5, <3>6, <3>7 DEF RestInv
  <2> QED BY <2>3, <2>4
<1>6. CASE bound # None
  <2> DEFINE l == IF call[th].op.cached THEN "keep" ELSE "run"
  <2>1. /\ table' = [table EXCEPT ![bound] = Ref(@)]
        /\ call' = [call EXCEPT ![th].tab = bound, ![th].pc = l]
        /\ UNCHANGED <<saw, restored>>
    BY <1>6 DEF Lookup
  <2>2. bound \in Creators
    BY <1>1, <1>6
  <2>3. /\ \A u \in Threads : u # th => call'[u] = call[u]
        /\ call'[th].pc = l /\ call'[th].tab = bound /\ call'[th].op = call[th].op
    <3> HIDE DEF l
    <3> DEFINE c == [call[th] EXCEPT !.tab = bound, !.pc = l]
    <3>1. call[th] \in Calls
      BY <1>1
    <3>2. c.pc = l /\ c.tab = bound /\ c.op = call[th].op
      BY <3>1 DEF Calls
    <3>3. call' = [call EXCEPT ![th] = c]
      BY <1>1, <2>1
    <3> HIDE DEF c
    <3> QED BY <1>1, <3>2, <3>3
  <2>4. /\ \A u \in Creators : u # bound => table'[u] = table[u]
        /\ Alike(table'[bound], table[bound]) /\ table[bound].refs # 0
    <3>1. Alike(Ref(table[bound]), table[bound])
      BY <1>1, <2>2, RefObject
    <3> QED BY <1>1, <2>1, <2>2, <3>1, InUse DEF RefInv
  <2>5. /\ \A u \in Creators : Calm(u)
        /\ \A u \in Creators : bound = u => Alike(table'[u], table[u])
    BY <2>4 DEF Calm, Alike
  <2>6. th = Chief => call'[th].pc = "run"
    BY <2>3, ChiefMethods
  <2>7. th # Chief => call'[th].op \in WorkerOps
    BY <1>3, <2>3 DEF RestInv, WorkersDo
  <2> QED BY <1>2, <2>1, <2>3, <2>5, <2>6, <2>7, CalmThread
<1> QED BY <1>5, <1>6

\* A worker's kernel does no more to its object than drop its reference.
LEMMA WorkerReleaseRest ==
  ASSUME LifeAssumption, FinitelyMany, TypeOK, RefInv, RestInv,
         NEW th \in Threads, th # Chief, call[th].pc = "run", ~call[th].op.cached,
         Release(th, table[call[th].tab]), UNCHANGED <<bound, ckpt, restored>>,
         \A u \in Threads : u # th => call'[u] = call[u],
         call'[th].tab = None, call'[th].op \in WorkerOps, call'[th].op # DestroyKvVariableOp,
         \A u \in Threads : \A t \in Creators :
           saw'[u] = t => saw[u] = t \/ (u = th /\ t = call[th].tab /\ table[t].ready)
  PROVE  RestInv'
<1>1. /\ call \in [Threads -> Calls] /\ table \in [Creators -> Objects]
  BY TypeParts DEF Typed
<1>2. call[th].tab # None
  BY DEF RefInv, CallShape, Shape
<1>3. PICK t \in Creators : t = call[th].tab
  BY <1>1, <1>2 DEF Calls
<1>4. Owns(th, t)
  BY <1>3 DEF Owns
<1>5. table' = [table EXCEPT ![t] = Unref(@)]
  BY <1>1, <1>3 DEF Release
<1>6. \A u \in Creators : ~Owns(th, u)'
  BY DEF Owns, LifeAssumption
<1>7. /\ \A u \in Creators : Calm(u)
      /\ \A u \in Creators : bound = u => Alike(table'[u], table[u])
  BY <1>4, <1>5, <1>6, DropCalm
<1>8. ~Unmade(t)
  BY <1>3, UnmadeUnused
<1>9. Alike(table'[t], table[t]) \/ table'[t].refs = 0
  BY <1>7, <1>8 DEF Calm, NotThere
<1>10. \A u \in Threads : \A s \in Creators :
         saw'[u] = s => saw[u] = s \/ table'[s].refs = 0 \/ table'[s].ready
  BY <1>3, <1>9 DEF Alike
<1> QED BY <1>7, <1>10, CalmThread

LEMMA WorkerRunRest ==
  ASSUME LifeAssumption, FinitelyMany, TypeOK, RefInv, RestInv,
         NEW th \in Threads, th # Chief, Run(th)
  PROVE  RestInv'
<1>1. call \in [Threads -> Calls] /\ saw \in [Threads -> Creators \cup {None}]
  BY TypeParts DEF Typed
<1>2. /\ call[th].pc = "run" /\ ~call[th].op.cached
      /\ saw' = [saw EXCEPT ![th] = None] /\ UNCHANGED <<bound, restored, ckpt>>
  BY DEF Run, Running
<1>3. call[th].op \in WorkerOps
  BY DEF RestInv, WorkersDo, Threads
<1>4. call[th].op.method \in {"use", "draw"}
  BY <1>3, WorkerMethods DEF Run, Running
<1>5. After(call[th].op.method, table[call[th].tab], restored \div 2) = table[call[th].tab]
  BY <1>4 DEF After
<1>6. Release(th, table[call[th].tab])
  BY <1>5 DEF Run
<1>7. \A u \in Threads : \A t \in Creators : saw'[u] = t => saw[u] = t
  BY <1>1, <1>2 DEF LifeAssumption
<1>8. call[th].op \in Kernels
  <2>1. call[th].op # NoOp
    BY <1>4 DEF NoOp
  <2> QED BY <1>1, <2>1 DEF Calls
<1>9. CASE call[th].op.runs > 1
  <2> DEFINE k == [call[th].op EXCEPT !.runs = @ - 1]
  <2>1. call' = [call EXCEPT ![th].pc = "lookup", ![th].tab = None, ![th].op.runs = @ - 1]
    BY <1>9 DEF Run
  <2>2. k \in Readers
    BY <1>8, <1>9, KernelFacts
  <2>3. call' = [call EXCEPT ![th].pc = "lookup", ![th].tab = None, ![th].op = k]
    BY <1>1, <2>1 DEF Calls
  <2> HIDE DEF k
  <2>4. /\ \A u \in Threads : u # th => call'[u] = call[u]
        /\ call'[th].op = k /\ call'[th].tab = None
    <3> DEFINE c == [call[th] EXCEPT !.pc = "lookup", !.tab = None, !.op = k]
    <3>1. call[th] \in Calls
      BY <1>1
    <3>2. c.op = k /\ c.tab = None
      BY <3>1 DEF Calls
    <3>3. call' = [call EXCEPT ![th] = c]
      BY <1>1, <2>3
    <3> HIDE DEF c
    <3> QED BY <1>1, <3>2, <3>3
  <2>5. k \in WorkerOps /\ k # DestroyKvVariableOp
    BY <2>2, Kinds DEF WorkerOps, DestroyKvVariableOp, Scoped, BatchKvVariableGatherOrZerosOp
  <2> QED BY <1>2, <1>6, <1>7, <2>4, <2>5, WorkerReleaseRest
<1>10. CASE ~(call[th].op.runs > 1)
  <2>1. End(th)
    BY <1>10 DEF Run
  <2>2. /\ \A u \in Threads : u # th => call'[u] = call[u]
        /\ call'[th].op = NoOp /\ call'[th].tab = None
    BY <1>1, <2>1 DEF End, Idle
  <2>3. NoOp \in WorkerOps /\ NoOp # DestroyKvVariableOp
    BY DEF WorkerOps, NoOp, DestroyKvVariableOp, Scoped
  <2> QED BY <1>2, <1>6, <1>7, <2>2, <2>3, WorkerReleaseRest
<1> QED BY <1>9, <1>10

LEMMA IsInitializedRest ==
  ASSUME LifeAssumption, FinitelyMany, TypeOK, RefInv, RestInv,
         NEW th \in Threads, IsInitialized(th)
  PROVE  RestInv'
<1>1. call \in [Threads -> Calls] /\ saw \in [Threads -> Creators \cup {None}]
  BY TypeParts DEF Typed
<1>2. /\ call[th].pc = "run" /\ End(th) /\ Release(th, table[call[th].tab])
      /\ call[th].op.method = "IsInitialized"
      /\ saw' = [saw EXCEPT ![th] = IF table[call[th].tab].ready THEN call[th].tab ELSE None]
      /\ UNCHANGED <<bound, restored, ckpt>>
  BY DEF IsInitialized, Running
<1>3. th # Chief /\ ~call[th].op.cached
  BY <1>2, ChiefMethods DEF RefInv, CallShape, Shape, KvVariableGatherOrZerosOp
<1>4. /\ \A u \in Threads : u # th => call'[u] = call[u]
      /\ call'[th].op = NoOp /\ call'[th].tab = None
  BY <1>1, <1>2 DEF End, Idle
<1>5. NoOp \in WorkerOps /\ NoOp # DestroyKvVariableOp
  BY DEF WorkerOps, NoOp, DestroyKvVariableOp, Scoped
<1>6. None \notin Creators
  BY DEF LifeAssumption
<1>7. \A u \in Threads : \A t \in Creators :
        saw'[u] = t => saw[u] = t \/ (u = th /\ t = call[th].tab /\ table[t].ready)
  BY <1>1, <1>2, <1>6
<1> QED BY <1>2, <1>3, <1>4, <1>5, <1>7, WorkerReleaseRest

\* The numbers of a restore: its step, the imports before and after it.
LEMMA RestoreNumbers ==
  ASSUME LifeAssumption, TypeOK
  PROVE  /\ restored \in Nat /\ Steps \in Nat /\ restored <= Steps /\ ckpt.deltas \in Nat
         /\ ckpt.rows \in BOOLEAN /\ ckpt.v2 \in BOOLEAN
         /\ Steps = 2 * (ckpt.deltas + 1)
         /\ restored \div 2 \in Nat
         /\ restored % 2 = 1 => /\ restored = 2 * (restored \div 2) + 1
                                /\ (restored + 1) \div 2 = restored \div 2 + 1
                                /\ restored \div 2 <= ckpt.deltas
         /\ restored % 2 # 1 => /\ restored = 2 * (restored \div 2)
                                /\ (restored + 1) \div 2 = restored \div 2
<1>1. restored \in 0..Steps /\ ckpt \in Checkpoints
  BY TypeParts DEF Typed
<1>2. ckpt.rows \in BOOLEAN /\ ckpt.v2 \in BOOLEAN /\ ckpt.deltas \in Nat
  BY <1>1 DEF LifeAssumption
<1>3. Steps = 2 * (ckpt.deltas + 1)
  BY DEF Steps
<1>4. Steps \in Nat /\ restored \in Nat /\ restored <= Steps
  BY <1>1, <1>2, <1>3
<1> QED BY <1>2, <1>3, <1>4

\* What a step of a restore makes of an object.
LEMMA ImportWork ==
  ASSUME LifeAssumption, TypeOK, RestInv, Importing,
         NEW t \in Creators, bound = t,
         NEW v, v = After(call[Chief].op.method, table[t], restored \div 2)
  PROVE  /\ v \in Objects /\ v.refs = table[t].refs
         /\ v.due = ckpt.deltas - restored \div 2
         /\ ckpt.rows => v.rows
         /\ ckpt.rows /\ ckpt.v2 /\ v.ready => v.due = 0
         /\ table[t].ready => v.ready
<1> DEFINE i == restored \div 2
           w == table[t]
<1>1. /\ restored \in Nat /\ Steps \in Nat /\ restored <= Steps /\ ckpt.deltas \in Nat
      /\ ckpt.rows \in BOOLEAN /\ ckpt.v2 \in BOOLEAN
      /\ Steps = 2 * (ckpt.deltas + 1) /\ i \in Nat
      /\ restored = 2 * i + 1 /\ i <= ckpt.deltas
  BY RestoreNumbers DEF Importing
<1>2. w \in Objects
  BY TypeParts DEF Typed
<1>3. call[Chief].op \in Importers
  BY DEF RestInv, ChiefDoes, Importing
<1>4. \/ call[Chief].op.method = "ImportValues" /\ ckpt.deltas = 0
      \/ call[Chief].op.method = "FullOrDeltaImport"
  BY <1>3 DEF Importers, KvVariableImportOp, KvVariableOldImportOp,
    KvVariableFullOrDeltaImportOp, Scoped
<1>5. /\ LoadingFinished(i) \in BOOLEAN
      /\ ckpt.v2 => (LoadingFinished(i) <=> i = ckpt.deltas)
  BY <1>1 DEF LoadingFinished
<1>6. v = After(call[Chief].op.method, w, i)
  OBVIOUS
<1>7. i = 0 => ~w.ready
  BY <1>1 DEF RestInv, Untouched, Importing
<1>8. i >= 1 => (ckpt.rows => w.rows) /\ w.due = ckpt.deltas + 1 - i
  BY <1>1 DEF RestInv, Restoring, Imported, Importing
<1>9. ckpt.rows /\ ckpt.v2 /\ w.ready => w.due = 0
  BY DEF RestInv, Filled
<1>10. ckpt.rows /\ ckpt.v2 => ~w.ready
  BY <1>1, <1>7, <1>8, <1>9
<1>11. ckpt.deltas = 0 => i = 0
  BY <1>1
<1> HIDE DEF i, w
<1>12. PICK last \in BOOLEAN :
         /\ v = IF i = 0 THEN ImportValues(w, last) ELSE DeltaImport(w, last)
         /\ ckpt.v2 => (last <=> i = ckpt.deltas)
  <2>1. CASE call[Chief].op.method = "ImportValues" /\ ckpt.deltas = 0
    <3>1. v = ImportValues(w, TRUE)
      BY <1>6, <2>1 DEF After
    <3> QED BY <1>11, <2>1, <3>1
  <2>2. CASE call[Chief].op.method = "FullOrDeltaImport"
    <3> DEFINE l == LoadingFinished(i)
    <3>1. v = FullOrDeltaImport(w, i)
      BY <1>6, <2>2 DEF After
    <3>2. v = IF i = 0 THEN ImportValues(w, l) ELSE DeltaImport(w, l)
      BY <3>1, Zenon DEF FullOrDeltaImport
    <3>3. l \in BOOLEAN /\ (ckpt.v2 => (l <=> i = ckpt.deltas))
      BY <1>5
    <3> HIDE DEF l
    <3> QED BY <3>2, <3>3
  <2> QED BY <1>4, <2>1, <2>2
<1> SUFFICES /\ v \in Objects /\ v.refs = w.refs
             /\ v.due = ckpt.deltas - i
             /\ ckpt.rows => v.rows
             /\ ckpt.rows /\ ckpt.v2 /\ v.ready => v.due = 0
             /\ w.ready => v.ready
  BY DEF i, w
<1>13. CASE i = 0
  <2>1. v = ImportValues(w, last)
    BY <1>12, <1>13
  <2>2. v \in Objects /\ v.refs = w.refs /\ v.due = ckpt.deltas
    BY <1>2, <2>1, ImportObject
  <2>3. v.rows = (w.rows \/ ckpt.rows) /\ v.ready = (w.ready \/ last)
    BY <1>2, <2>1, ImportObject
  <2>4. v.due = ckpt.deltas - i
    BY <1>1, <1>13, <2>2
  <2>5. (ckpt.rows => v.rows) /\ (w.ready => v.ready)
    BY <2>3, Zenon
  <2>6. ckpt.rows /\ ckpt.v2 /\ v.ready => last
    BY <1>10, <2>3, Zenon
  <2>7. ckpt.rows /\ ckpt.v2 /\ v.ready => v.due = 0
    BY <1>12, <1>13, <2>2, <2>6
  <2> QED BY <2>2, <2>4, <2>5, <2>7
<1>14. CASE i # 0
  <2>1. v = DeltaImport(w, last)
    BY <1>12, <1>14
  <2>2. v \in Objects /\ v.refs = w.refs /\ v.due = w.due - 1
    BY <1>2, <2>1, DeltaObject
  <2>3. v.rows = w.rows /\ v.ready = (w.ready \/ last)
    BY <1>2, <2>1, DeltaObject
  <2>4. v.due = ckpt.deltas - i /\ (ckpt.rows => w.rows)
    BY <1>1, <1>8, <1>14, <2>2
  <2>5. (ckpt.rows => v.rows) /\ (w.ready => v.ready)
    BY <2>3, <2>4, Zenon
  <2>6. ckpt.rows /\ ckpt.v2 /\ v.ready => last
    BY <1>10, <2>3, Zenon
  <2>7. ckpt.rows /\ ckpt.v2 /\ v.ready => v.due = 0
    BY <1>1, <1>12, <2>4, <2>6
  <2> QED BY <2>2, <2>4, <2>5, <2>7
<1> QED BY <1>13, <1>14

LEMMA ChiefRunRest ==
  ASSUME LifeAssumption, FinitelyMany, TypeOK, RefInv, RestInv, Run(Chief)
  PROVE  RestInv'
<1>1. /\ call \in [Threads -> Calls] /\ table \in [Creators -> Objects]
      /\ saw \in [Threads -> Creators \cup {None}]
  BY TypeParts DEF Typed
<1>2. Chief \in Threads /\ \A w \in Workers : w \in Threads /\ w # Chief
  BY DEF Threads, LifeAssumption
<1>3. /\ call[Chief].pc = "run" /\ ~call[Chief].op.cached
      /\ saw' = [saw EXCEPT ![Chief] = None] /\ UNCHANGED <<bound, restored, ckpt>>
  BY DEF Run, Running
<1>4. call[Chief].tab # None
  BY <1>2, <1>3 DEF RefInv, CallShape, Shape
<1>5. Busy
  BY DEF Busy, Run, Running, NoOp
<1>6. PICK t \in Creators : t = call[Chief].tab /\ bound = t
  BY <1>1, <1>2, <1>4, <1>5 DEF RestInv, ChiefDoes, Calls
<1>7. Owns(Chief, t)
  BY <1>3, <1>6 DEF Owns
<1> DEFINE v == After(call[Chief].op.method, table[t], restored \div 2)
<1>8. table' = [table EXCEPT ![t] = Unref(v)]
  BY <1>6 DEF Run, Release
<1>9. End(Chief)
  BY ChiefMethods DEF Run
<1>10. /\ \A u \in Threads : u # Chief => call'[u] = call[u]
       /\ call'[Chief].op = NoOp /\ call'[Chief].tab = None
  BY <1>1, <1>2, <1>9 DEF End, Idle
<1>11. \A u \in Creators : ~Owns(Chief, u)'
  BY <1>10 DEF Owns, LifeAssumption
<1>12. /\ restored \in Nat /\ Steps \in Nat /\ restored <= Steps /\ ckpt.deltas \in Nat
       /\ ckpt.rows \in BOOLEAN /\ ckpt.v2 \in BOOLEAN /\ Steps = 2 * (ckpt.deltas + 1)
       /\ restored \div 2 \in Nat
       /\ restored % 2 = 1 => /\ restored = 2 * (restored \div 2) + 1
                              /\ (restored + 1) \div 2 = restored \div 2 + 1
       /\ restored % 2 # 1 => /\ restored = 2 * (restored \div 2)
                              /\ (restored + 1) \div 2 = restored \div 2
  BY RestoreNumbers
<1>13. restored >= 1 /\ ~Destroying
  BY <1>5 DEF RestInv, ChiefDoes
<1>14. v \in Objects /\ v.refs = table[t].refs
  BY <1>1, <1>12, AfterObject
<1>15. table[t].ready => v.ready
  <2>1. CASE Importing
    BY <1>6, <2>1, ImportWork
  <2>2. CASE ~Importing
    <3>1. call[Chief].op = InitKvVariableOp
      BY <1>5, <2>2 DEF RestInv, ChiefDoes, Importing
    <3>2. v = InitRandomValues(table[t])
      BY <3>1 DEF After, InitKvVariableOp, Scoped
    <3> QED BY <1>1, <3>2, InitObject
  <2> QED BY <2>1, <2>2
<1>16. ckpt.rows => v.rows /\ (v.ready /\ ckpt.v2 => v.due = 0)
  <2>1. CASE Importing
    BY <1>6, <2>1, ImportWork
  <2>2. CASE ~Importing
    <3>1. call[Chief].op = InitKvVariableOp
      BY <1>5, <2>2 DEF RestInv, ChiefDoes, Importing
    <3>2. v = InitRandomValues(table[t])
      BY <3>1 DEF After, InitKvVariableOp, Scoped
    <3>3. /\ v.due = table[t].due /\ v.rows /\ (~table[t].rows => v.ready)
          /\ table[t].rows => v.ready = table[t].ready
      BY <1>1, <3>2, InitObject
    <3>4. ckpt.rows =>
            /\ ~table[t].rows => table[t].due = 0 /\ ~table[t].ready
            /\ table[t].ready /\ ckpt.v2 => table[t].due = 0
      BY DEF RestInv, Filled
    <3> QED BY <1>1, <3>3, <3>4 DEF Objects
  <2> QED BY <2>1, <2>2
<1>17. restored % 2 # 1 => v.due = table[t].due
  <2> SUFFICES ASSUME restored % 2 # 1
               PROVE  v.due = table[t].due
    OBVIOUS
  <2>1. call[Chief].op = InitKvVariableOp
    BY <1>5 DEF RestInv, ChiefDoes
  <2>2. v = InitRandomValues(table[t])
    BY <2>1 DEF After, InitKvVariableOp, Scoped
  <2> QED BY <1>1, <2>2, InitObject
<1>18. restored % 2 = 1 => v.due = ckpt.deltas - restored \div 2
  BY <1>5, <1>6, ImportWork DEF Importing
<1> HIDE DEF v
<1>19. /\ table' \in [Creators -> Objects]
       /\ \A u \in Creators : u # t => table'[u] = table[u]
       /\ Alike(table'[t], v)
  BY <1>2, <1>3, <1>6, <1>7, <1>8, <1>11, <1>14, DropEffect
<1>20. ~Busy' /\ Imported' = (restored + 1) \div 2
  BY <1>3, <1>10 DEF Busy, Importing, Imported
<1>21. WorkersDo'
  BY <1>2, <1>10 DEF RestInv, WorkersDo
<1>22. ChiefDoes'
  <2>1. ~Destroying'
    BY <1>10, <1>13 DEF Destroying, NoOp, DestroyKvVariableOp, Scoped
  <2> QED BY <1>20, <2>1 DEF ChiefDoes
<1>23. Untouched'
  BY <1>3, <1>13, <1>20 DEF Untouched
<1>24. Restoring'
  <2> SUFFICES ASSUME Imported' >= 1, restored < Steps
               PROVE  /\ bound # None
                      /\ ckpt.rows => table'[t].rows
                      /\ table'[t].due = ckpt.deltas + 1 - Imported'
    BY <1>3, <1>6 DEF Restoring, Steps
  <2>1. bound # None
    BY <1>6 DEF LifeAssumption
  <2>2. CASE restored % 2 = 1
    BY <1>12, <1>16, <1>18, <1>19, <1>20, <2>1, <2>2 DEF Alike
  <2>3. CASE restored % 2 # 1
    <3>1. Imported = restored \div 2 /\ Imported' = Imported
      BY <1>12, <1>20, <2>3 DEF Imported, Importing
    <3>2. table[t].due = ckpt.deltas + 1 - Imported
      BY <1>6, <3>1 DEF RestInv, Restoring
    <3> QED BY <1>16, <1>17, <1>19, <2>1, <2>3, <3>1, <3>2 DEF Alike
  <2> QED BY <2>2, <2>3
<1>25. Filled'
  BY <1>3, <1>16, <1>19 DEF RestInv, Filled, Alike
<1>26. Seen'
  <2> SUFFICES ASSUME NEW u \in Threads, NEW s \in Creators, saw'[u] = s
               PROVE  table'[s].refs = 0 \/ table'[s].ready
    BY DEF Seen
  <2>1. saw[u] = s
    BY <1>1, <1>3 DEF LifeAssumption
  <2>2. table[s].refs = 0 \/ table[s].ready
    BY <2>1 DEF RestInv, Seen
  <2>3. table[t].refs # 0
    BY <1>6, InUse DEF RefInv
  <2> QED BY <1>15, <1>19, <2>2, <2>3 DEF Alike
<1> QED BY <1>21, <1>22, <1>23, <1>24, <1>25, <1>26 DEF RestInv

\* What the name's reference and the lookup's leave of an object.
LEMMA DeleteCalm ==
  ASSUME LifeAssumption, FinitelyMany, TypeOK, RefInv, NEW th \in Threads, Delete(th),
         NEW u \in Creators
  PROVE  \/ Alike(table'[u], table[u]) /\ (table[u].refs = 0 => table'[u].refs = 0)
         \/ table'[u] = NotThere
<1>1. /\ call \in [Threads -> Calls] /\ table \in [Creators -> Objects]
  BY TypeParts DEF Typed
<1>2. call[th].pc = "run" /\ ~call[th].op.cached /\ call[th].tab # None
  BY DEF Delete, Running, RefInv, CallShape, Shape, KvVariableGatherOrZerosOp
<1>3. PICK t \in Creators : t = call[th].tab
  BY <1>1, <1>2 DEF Calls
<1>4. Owns(th, t)
  BY <1>2, <1>3 DEF Owns
<1>5. table[u] \in Objects /\ table[u].refs \in Nat
  BY <1>1 DEF Objects
<1>6. u = t => table[u].refs >= 1 + Counts(bound = u)
  BY <1>4, InUse DEF RefInv
<1>7. u = bound => table[u].refs >= 1
  BY InUse DEF RefInv
<1> DEFINE v == IF u = bound THEN Unref(table[u]) ELSE table[u]
<1>8. table'[u] = IF u = t THEN Unref(v) ELSE v
  BY <1>3 DEF Delete
<1>9. /\ v \in Objects /\ v.refs = table[u].refs - Counts(bound = u)
      /\ v = NotThere \/ Alike(v, table[u])
      /\ u # bound => v = table[u]
  <2>1. CASE u = bound
    BY <1>5, <1>7, <2>1, UnrefObject DEF Counts, Unref
  <2>2. CASE u # bound
    BY <1>5, <2>2 DEF Counts, Alike
  <2> QED BY <2>1, <2>2
<1> HIDE DEF v
<1>10. CASE u = t
  <2>1. v.refs >= 1 /\ v.refs \in Nat
    BY <1>5, <1>6, <1>9, <1>10 DEF Counts
  <2>2. v # NotThere
    BY <2>1 DEF NotThere
  <2>3. Alike(v, table[u]) /\ table[u].refs # 0
    BY <1>5, <1>6, <1>9, <1>10, <2>2 DEF Counts
  <2>4. Unref(v) = NotThere \/ Alike(Unref(v), v)
    BY <1>9, <2>1, UnrefObject DEF Unref
  <2> QED BY <1>8, <1>10, <2>3, <2>4 DEF Alike
<1>11. CASE u # t
  BY <1>7, <1>8, <1>9, <1>11 DEF Alike
<1> QED BY <1>10, <1>11

LEMMA DeleteRest ==
  ASSUME LifeAssumption, FinitelyMany, TypeOK, RefInv, RestInv, NEW th \in Threads, Delete(th)
  PROVE  RestInv'
<1>1. call \in [Threads -> Calls] /\ saw \in [Threads -> Creators \cup {None}]
  BY TypeParts DEF Typed
<1>2. /\ call[th].op.method = "Destroy" /\ End(th) /\ bound' = None
      /\ restored' \in {0, restored} /\ UNCHANGED <<saw, ckpt>>
  BY DEF Delete, Running
<1>3. th # Chief
  BY <1>2, ChiefMethods
<1>4. call[th].op = DestroyKvVariableOp
  <2>1. call[th].op \in WorkerOps
    BY <1>3 DEF RestInv, WorkersDo, Threads
  <2> QED BY <1>2, <2>1, Kinds DEF WorkerOps, Scoped, NoOp, KvVariableGatherOrZerosOp,
        BatchKvVariableGatherOrZerosOp
<1>5. Destroying
  BY <1>4 DEF Destroying
<1>6. ~Busy /\ restored \in {0, Steps}
  BY <1>5 DEF RestInv, ChiefDoes
<1>7. /\ call'[th].op = NoOp /\ \A u \in Threads : u # th => call'[u] = call[u]
  BY <1>1, <1>2 DEF End, Idle
<1>8. Chief \in Threads /\ None \notin Creators /\ NoOp \in WorkerOps
  BY DEF Threads, LifeAssumption, WorkerOps
<1>9. ~Busy' /\ Steps' = Steps /\ restored' \in {0, Steps} /\ Steps \in Nat
  <2>1. Steps \in Nat
    BY RestoreNumbers
  <2> QED BY <1>2, <1>3, <1>6, <1>7, <1>8, <2>1 DEF Busy, Steps
<1>10. WorkersDo'
  BY <1>7, <1>8 DEF RestInv, WorkersDo, Threads
<1>11. ChiefDoes'
  BY <1>9 DEF ChiefDoes
<1>12. Untouched'
  BY <1>2, <1>8 DEF Untouched
<1>13. Restoring'
  <2>1. ~Importing'
    BY <1>9 DEF Importing
  <2>2. Imported' = (restored' + 1) \div 2
    BY <2>1 DEF Imported
  <2> QED BY <1>9, <2>2 DEF Restoring
<1>14. Filled'
  BY <1>2, DeleteCalm DEF RestInv, Filled, Alike, NotThere
<1>15. Seen'
  BY <1>2, DeleteCalm DEF RestInv, Seen, Alike, NotThere
<1> QED BY <1>10, <1>11, <1>12, <1>13, <1>14, <1>15 DEF RestInv

\* The start of a call by a worker.
LEMMA BeginRest ==
  ASSUME LifeAssumption, FinitelyMany, TypeOK, RefInv, RestInv, NEW th \in Workers,
         NEW k \in WorkerOps, Begin(th, k), k = DestroyKvVariableOp => RestoreAtRest,
         UNCHANGED restored
  PROVE  RestInv'
<1>1. call \in [Threads -> Calls] /\ th \in Threads /\ th # Chief
  BY TypeParts DEF Typed, Threads, LifeAssumption
<1>2. /\ call' = [call EXCEPT ![th].pc = "lookup", ![th].op = k]
      /\ UNCHANGED <<bound, table, saw, ckpt>>
  BY DEF Begin, objects
<1>3. /\ \A u \in Threads : u # th => call'[u] = call[u]
      /\ call'[th].op = k
  BY <1>1, <1>2 DEF Calls
<1> QED BY <1>1, <1>2, <1>3, QuietRest

LEMMA BeginGatherRest ==
  ASSUME LifeAssumption, FinitelyMany, TypeOK, RefInv, RestInv, NEW th \in Workers,
         NEW g \in Gatherers, BeginGather(th, g)
  PROVE  RestInv'
<1> DEFINE c == [pc |-> IF cache[g] = None THEN "lookup" ELSE "run", node |-> g,
                 op |-> KvVariableGatherOrZerosOp, tab |-> cache[g]]
<1>1. call \in [Threads -> Calls] /\ th \in Threads /\ th # Chief
  BY TypeParts DEF Typed, Threads, LifeAssumption
<1>2. call' = [call EXCEPT ![th] = c] /\ UNCHANGED <<bound, table, saw, restored, ckpt>>
  BY DEF BeginGather, objects
<1>3. c.op = KvVariableGatherOrZerosOp
  OBVIOUS
<1> HIDE DEF c
<1>4. /\ \A u \in Threads : u # th => call'[u] = call[u]
      /\ call'[th].op = KvVariableGatherOrZerosOp
  BY <1>1, <1>2, <1>3
<1>5. /\ KvVariableGatherOrZerosOp \in WorkerOps
      /\ KvVariableGatherOrZerosOp # DestroyKvVariableOp
  BY DEF WorkerOps, KvVariableGatherOrZerosOp, DestroyKvVariableOp, Scoped
<1> QED BY <1>1, <1>2, <1>4, <1>5, QuietRest

LEMMA KeepRest ==
  ASSUME LifeAssumption, FinitelyMany, TypeOK, RefInv, RestInv, NEW th \in Threads,
         Keep(th) \/ GatherOrZeros(th)
  PROVE  RestInv'
<1>1. /\ call[th].op.cached /\ UNCHANGED <<bound, table, saw, restored, ckpt>>
  BY DEF Keep, GatherOrZeros, RefInv, CallShape, Shape, objects
<1>2. th # Chief
  BY <1>1, ChiefMethods
<1>3. CASE Keep(th)
  <2>1. call'[th].op = call[th].op /\ \A u \in Threads : u # th => call'[u] = call[u]
    BY <1>3, GotoCall DEF Keep, Pcs
  <2>2. call[th].op \in WorkerOps
    BY <1>2 DEF RestInv, WorkersDo, Threads
  <2> QED BY <1>1, <1>2, <2>1, <2>2, QuietRest
<1>4. CASE GatherOrZeros(th)
  BY <1>1, <1>2, <1>4, EndRest DEF GatherOrZeros
<1> QED BY <1>3, <1>4

\* A step of the restore is begun.
LEMMA BeginChiefRest ==
  ASSUME LifeAssumption, FinitelyMany, TypeOK, RefInv, RestInv, BeginInit \/ BeginRestore
  PROVE  RestInv'
<1>1. call \in [Threads -> Calls] /\ Chief \in Threads
  BY TypeParts DEF Typed, Threads
<1>2. PICK k : /\ Begin(Chief, k)
               /\ \/ k = InitKvVariableOp /\ restored = 0 /\ restored' = Steps
                  \/ k = InitKvVariableOp /\ restored < Steps /\ restored % 2 # 0
                     /\ restored' = restored + 1
                  \/ k \in Importers /\ restored < Steps /\ restored % 2 = 0
                     /\ restored' = restored + 1
  BY DEF BeginInit, BeginRestore
<1>3. ~Destroying
  BY DEF BeginInit, BeginRestore
<1>4. /\ call[Chief] = Idle /\ call' = [call EXCEPT ![Chief].pc = "lookup", ![Chief].op = k]
      /\ UNCHANGED <<bound, table, saw, ckpt>>
  BY <1>2 DEF Begin, objects
<1>5. /\ \A u \in Threads : u # Chief => call'[u] = call[u]
      /\ call'[Chief].pc = "lookup" /\ call'[Chief].op = k /\ call'[Chief].tab = call[Chief].tab
  BY <1>1, <1>4 DEF Calls
<1>6. call[Chief].tab = None /\ ~Busy
  BY <1>4 DEF Idle, Busy
<1>7. k # DestroyKvVariableOp /\ k # NoOp
  BY <1>2, Kinds DEF InitKvVariableOp, Scoped, DestroyKvVariableOp, NoOp
<1>8. ~Destroying'
  BY <1>3, <1>5, <1>7 DEF Destroying
<1>9. Busy' /\ Steps' = Steps /\ Importers' = Importers
  BY <1>4, <1>5, <1>7 DEF Busy, Steps, Importers
<1>10. /\ restored \in Nat /\ Steps \in Nat /\ restored <= Steps /\ ckpt.deltas \in Nat
       /\ Steps = 2 * (ckpt.deltas + 1) /\ restored \div 2 \in Nat
       /\ restored % 2 = 1 => /\ restored = 2 * (restored \div 2) + 1
                              /\ (restored + 1) \div 2 = restored \div 2 + 1
       /\ restored % 2 # 1 => /\ restored = 2 * (restored \div 2)
                              /\ (restored + 1) \div 2 = restored \div 2
  BY RestoreNumbers
<1>11. Imported = (restored + 1) \div 2
  BY <1>6 DEF Imported, Importing
<1>12. WorkersDo'
  BY <1>5 DEF RestInv, WorkersDo, Threads, LifeAssumption
<1>13. \/ restored' = Steps /\ k = InitKvVariableOp /\ restored' % 2 = 0
       \/ k = InitKvVariableOp /\ restored' = 2 * (restored \div 2 + 1) /\ restored < Steps
          /\ restored' % 2 = 0 /\ restored' = restored + 1
          /\ Imported = restored \div 2 + 1
       \/ k \in Importers /\ restored' = 2 * (restored \div 2) + 1 /\ restored < Steps
          /\ restored' % 2 = 1 /\ restored' = restored + 1
          /\ Imported = restored \div 2
  <2>1. restored % 2 \in {0, 1}
    BY <1>10
  <2> QED BY <1>2, <1>10, <1>11, <2>1
<1>14. ChiefDoes'
  <2>1. restored' >= 1
    BY <1>10, <1>13
  <2>2. k \in IF restored' % 2 = 1 THEN Importers ELSE {InitKvVariableOp}
    BY <1>13
  <2> QED BY <1>4, <1>5, <1>6, <1>8, <1>9, <2>1, <2>2 DEF ChiefDoes
<1>15. Untouched'
  <2>1. restored' # 0 /\ (restored' = 1 => restored = 0)
    BY <1>10, <1>13
  <2> QED BY <1>4, <2>1 DEF RestInv, Untouched
<1>16. Restoring'
  <2>1. restored' < Steps => restored < Steps /\ Imported' = Imported
    <3>1. CASE restored' = Steps
      BY <1>10, <3>1
    <3>2. CASE restored' = 2 * (restored \div 2 + 1) /\ restored < Steps
               /\ restored' % 2 = 0 /\ Imported = restored \div 2 + 1
      BY <1>10, <3>2 DEF Imported, Importing
    <3>3. CASE restored' = 2 * (restored \div 2) + 1 /\ restored < Steps
               /\ restored' % 2 = 1 /\ Imported = restored \div 2
      BY <1>9, <1>10, <3>3 DEF Imported, Importing
    <3> QED BY <1>13, <3>1, <3>2, <3>3
  <2> QED BY <1>4, <1>9, <2>1 DEF RestInv, Restoring
<1>17. Filled' /\ Seen'
  BY <1>4 DEF RestInv, Filled, Seen
<1> QED BY <1>12, <1>14, <1>15, <1>16, <1>17 DEF RestInv

\* Steps that are no thread's.
LEMMA DestroyGathererRest ==
  ASSUME LifeAssumption, FinitelyMany, TypeOK, RefInv, RestInv, NEW g \in Gatherers,
         DestroyGatherer(g)
  PROVE  RestInv'
<1>1. table \in [Creators -> Objects]
  BY TypeParts DEF Typed
<1>2. PICK t \in Creators : t = cache[g]
  BY DEF DestroyGatherer
<1>3. /\ table' = [table EXCEPT ![t] = Unref(table[t])]
      /\ UNCHANGED <<bound, call, saw, restored, ckpt>>
  BY <1>1, <1>2 DEF DestroyGatherer, clients
<1>4. table[t] \in Objects /\ table[t].refs >= 1 + Counts(bound = t) /\ table[t].refs \in Nat
  BY <1>1, <1>2, InUse DEF RefInv, Objects
<1>5. /\ Alike(Unref(table[t]), table[t]) \/ Unref(table[t]) = NotThere
      /\ bound = t => Alike(Unref(table[t]), table[t])
      /\ table[t].refs # 0
  <2>1. bound = t => table[t].refs > 1
    BY <1>4 DEF Counts
  <2>2. table[t].refs = 1 \/ table[t].refs > 1
    BY <1>4 DEF Counts
  <2>3. table[t].refs = 1 => Unref(table[t]) = NotThere
    BY DEF Unref
  <2>4. table[t].refs > 1 => Alike(Unref(table[t]), table[t])
    BY <1>4, UnrefObject
  <2> QED BY <2>1, <2>2, <2>3, <2>4
<1>6. /\ \A u \in Creators : Calm(u)
      /\ \A u \in Creators : bound = u => Alike(table'[u], table[u])
  BY <1>1, <1>3, <1>5 DEF Calm, Alike
<1>7. Destroying' => Destroying
  BY <1>3 DEF Destroying
<1>8. Busy => call[Chief].pc \in {"lookup", "run"} /\ call[Chief].tab \in {bound, None}
  BY DEF RestInv, ChiefDoes
<1>9. \A w \in Workers : call[w].op \in WorkerOps
  BY DEF RestInv, WorkersDo
<1> QED BY <1>3, <1>6, <1>7, <1>8, <1>9, CalmStep

LEMMA StillRest ==
  ASSUME RestInv, UNCHANGED <<bound, table, clients>>
  PROVE  RestInv'
BY DEF RestInv, WorkersDo, ChiefDoes, Untouched, Restoring, Filled, Seen, Busy, Importing,
  Imported, Destroying, Steps, Importers, clients

LEMMA RestInit ==
  ASSUME LifeAssumption, Init
  PROVE  RestInv
<1>1. /\ bound = None /\ table = [c \in Creators |-> NotThere]
      /\ call = [th \in Threads |-> Idle] /\ saw = [th \in Threads |-> None]
      /\ restored = 0
  BY DEF Init
<1>2. None \notin Creators /\ Chief \in Threads
  BY DEF LifeAssumption, Threads
<1>3. \A th \in Threads : call[th].op = NoOp
  BY <1>1 DEF Idle
<1>4. ~Busy /\ ~Destroying /\ Imported = 0
  BY <1>1, <1>2, <1>3 DEF Busy, Importing, Imported, Destroying, NoOp, DestroyKvVariableOp, Scoped
<1>5. WorkersDo
  BY <1>3 DEF WorkersDo, WorkerOps, Threads
<1> QED BY <1>1, <1>2, <1>4, <1>5 DEF RestInv, ChiefDoes, Untouched, Restoring, Filled, Seen,
      NotThere

LEMMA RestNext ==
  ASSUME LifeAssumption, FinitelyMany, IInv, TypeOK, RefInv, RestInv, [Next]_vars
  PROVE  RestInv'
<1>1. CASE UNCHANGED vars
  BY <1>1, StillRest DEF vars, objects
<1>2. ASSUME NEW th \in Threads, Continue(th)
      PROVE  RestInv'
  <2>1. CASE Make(th)
    BY <2>1, MakeRest
  <2>2. CASE MakeFails(th) \/ Output(th)
    BY <2>2, CreateEndRest
  <2>3. CASE Publish(th) \/ Wait(th)
    BY <2>3, GotoRest
  <2>4. CASE SetFlag(th)
    BY <2>4, SetFlagRest
  <2>5. CASE Lookup(th)
    BY <2>5, LookupRest
  <2>6. CASE Run(th) /\ th = Chief
    BY <2>6, ChiefRunRest
  <2>7. CASE Run(th) /\ th # Chief
    BY <2>7, WorkerRunRest
  <2>8. CASE IsInitialized(th)
    BY <2>8, IsInitializedRest
  <2>9. CASE Delete(th)
    BY <2>9, DeleteRest
  <2>10. CASE Keep(th) \/ GatherOrZeros(th)
    BY <2>10, KeepRest
  <2>11. CASE DrawFromNothing(th)
    BY <2>11, StillRest DEF DrawFromNothing
  <2> QED BY <1>2, <2>1, <2>2, <2>3, <2>4, <2>5, <2>6, <2>7, <2>8, <2>9, <2>10,
             <2>11 DEF Continue
<1>3. ASSUME NEW th \in Workers, BeginSomething(th)
      PROVE  RestInv'
  <2>1. th \in Threads
    BY DEF Threads
  <2>2. CASE StartCreate(th)
    BY <2>1, <2>2, StartCreateRest
  <2>3. CASE BeginRead(th) \/ BeginTrain(th)
    <3>1. PICK k \in Readers \cup Trainers : Begin(th, k) /\ UNCHANGED restored
      BY <2>3 DEF BeginRead, BeginTrain
    <3>2. k \in WorkerOps /\ k # DestroyKvVariableOp
      BY Kinds DEF WorkerOps, DestroyKvVariableOp, Scoped, BatchKvVariableGatherOrZerosOp
    <3> QED BY <3>1, <3>2, BeginRest
  <2>4. CASE BeginDestroy(th)
    <3>1. DestroyKvVariableOp \in WorkerOps
      BY DEF WorkerOps
    <3> QED BY <2>4, <3>1, BeginRest DEF BeginDestroy
  <2>5. CASE \E g \in Gatherers : BeginGather(th, g)
    BY <2>5, BeginGatherRest
  <2> QED BY <1>3, <2>2, <2>3, <2>4, <2>5 DEF BeginSomething
<1>4. CASE StartCreate(Chief)
  BY <1>4, StartCreateRest DEF Threads
<1>5. CASE BeginInit \/ BeginRestore
  BY <1>5, BeginChiefRest
<1>6. ASSUME NEW g \in Gatherers, DestroyGatherer(g)
      PROVE  RestInv'
  BY <1>6, DestroyGathererRest
<1> QED BY <1>1, <1>2, <1>3, <1>4, <1>5, <1>6 DEF Next

\* Who trains on the object it saw initialised finds it restored.
LEMMA TrainedIsReady ==
  ASSUME LifeAssumption, FinitelyMany, TypeOK, RefInv, RestInv, NEW th \in Threads,
         TrainsWhatItSaw(th)
  PROVE  /\ ckpt.rows => table[call[th].tab].rows
         /\ ckpt.rows /\ ckpt.v2 => table[call[th].tab].due = 0
<1>1. call \in [Threads -> Calls]
  BY TypeParts DEF Typed
<1>2. call[th].tab # None /\ saw[th] = call[th].tab
  BY DEF TrainsWhatItSaw, Running, RefInv, CallShape, Shape
<1>3. PICK t \in Creators : t = call[th].tab
  BY <1>1, <1>2 DEF Calls
<1>4. table[t].refs # 0
  BY <1>2, <1>3, NothingFreed DEF NothingFreedInUse, RefInv
<1>5. table[t].ready
  BY <1>2, <1>3, <1>4 DEF RestInv, Seen
<1> QED BY <1>3, <1>5 DEF RestInv, Filled

LEMMA RestHolds == Spec => [](IInv /\ TypeOK /\ RefInv /\ RestInv)
<1> USE FinitelyMany, LifeAssumption
<1>1. Init => IInv /\ TypeOK /\ RefInv /\ RestInv
  BY InvInit, RefsInit, RestInit
<1>2. IInv /\ TypeOK /\ RefInv /\ RestInv /\ [Next]_vars
        => (IInv /\ TypeOK /\ RefInv /\ RestInv)'
  BY InvNext, RefsNext, RestNext
<1> QED BY <1>1, <1>2, PTL DEF Spec

\* Every variable keeps its type: no count of references falls below zero and
\* no restore goes past its last step.
THEOREM LifeIsTyped == Spec => []TypeOK
BY RestHolds, PTL

\* Every object keeps a reference for whoever points to it, through creation
\* by two graphs, destruction by name and gathering nodes that overlap
\* (kv_variable_ops.cc:57-116, 355-380 and DestroyKvVariableOp).
THEOREM NoUseAfterFree == Spec => []NothingFreedInUse
<1>1. TypeOK /\ RefInv => NothingFreedInUse
  BY FinitelyMany, LifeAssumption, NothingFreed
<1> QED BY <1>1, RestHolds, PTL

\* And no more references than those, unless two first runs of one gathering
\* node overlapped (the "Potential memory leak" of kv_variable_ops.cc:366).
THEOREM LeaksAreRaces == Spec => []LeaksOnlyByRace
<1>1. TypeOK /\ RefInv => LeaksOnlyByRace
  BY FinitelyMany, NoLeaks
<1> QED BY <1>1, RestHolds, PTL

\* No interleaving of a restore, of runs of the initialiser and of a
\* destruction lets a worker that saw the variable initialised draw from an
\* empty initialisation table (GenerateRandomInitialValue takes a remainder by
\* its rows).
THEOREM NoDrawFromNothing == Spec => []DrawsFromRows
<1>1. TypeOK /\ RefInv /\ RestInv => DrawsFromRows
  BY FinitelyMany, LifeAssumption, TrainedIsReady DEF DrawsFromRows
<1> QED BY <1>1, RestHolds, PTL

\* Nor train before the last delta is in, though an initialiser runs after
\* every import.
THEOREM TrainingAfterRestore == Spec => []TrainsAfterRestore
<1>1. TypeOK /\ RefInv /\ RestInv => TrainsAfterRestore
  BY FinitelyMany, LifeAssumption, TrainedIsReady DEF TrainsAfterRestore
<1> QED BY <1>1, RestHolds, PTL
=============================================================================
