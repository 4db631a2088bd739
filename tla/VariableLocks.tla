--------------------------- MODULE VariableLocks ---------------------------
(***************************************************************************)
(* The locks an operation takes on whole variables: an optimizer locks the *)
(* mutex of its variable and of every slot, in the order of the mutexes'   *)
(* addresses, and keeps them until it has computed.  An operation on one   *)
(* variable (an export, a deletion) is the case of a single input.         *)
(*                                                                         *)
(* MaybeLockVariableInputMutexesInOrder numbers the distinct mutexes it    *)
(* finds 0, 1, ..., sorts those numbers by address, and then takes each    *)
(* number for the id of an input.                                          *)
(***************************************************************************)
EXTENDS Integers, FiniteSets

CONSTANTS
  Ops,        \* the operations that run
  Inputs,     \* the inputs of a kernel are 0 .. Inputs - 1
  Mutexes,    \* the mutexes, as addresses
  NoMutex,    \* nullptr: the input is no variable
  Profiles    \* what an operation may be called with

\* at: the mutex of every input.  ids: the inputs to lock, as a vector indexed
\* from 0.  resource: they are resource handles.  locking: use_locking.
\* sparse: they are KvVariables, whose keys have locks of their own.
IsProfile(p) ==
  /\ p.at \in [0 .. Inputs - 1 -> Mutexes \cup {NoMutex}]
  /\ \E n \in 1 .. Inputs : p.ids \in [0 .. n - 1 -> 0 .. Inputs - 1]
  /\ {p.resource, p.locking, p.sparse} \subseteq BOOLEAN
  /\ \A k \in DOMAIN p.ids : p.at[p.ids[k]] \in Mutexes

ASSUME VariablesAssumption ==
  /\ Inputs \in Nat \ {0}
  /\ Mutexes \subseteq Nat
  /\ NoMutex \notin Mutexes
  /\ \A p \in Profiles : IsProfile(p)

\* The variables to lock are the first inputs, and all different.
WellNumbered ==
  \A p \in Profiles : \A k \in DOMAIN p.ids :
    /\ p.ids[k] = k
    /\ \A j \in DOMAIN p.ids : p.at[j] = p.at[k] => j = k

VARIABLES
  profile,    \* what each operation was called with
  pc,         \* "lock", "compute" or "done"
  rest,       \* the positions in ids it has still to lock
  held        \* how often it holds every mutex

vars == <<profile, pc, rest, held>>

-----------------------------------------------------------------------------
(* What an operation locks. *)

Wanted(p, k) == p.at[p.ids[k]]

\* The positions in ids that are the first with their mutex.
Firsts(p) ==
  {k \in DOMAIN p.ids : \A j \in DOMAIN p.ids : j < k => Wanted(p, j) # Wanted(p, k)}

\* The number of the mutex at position k in the list of distinct mutexes.
Number(p, k) == Cardinality({j \in Firsts(p) : j < k})

\* The number is used as an input id.
Taken(p, k) == p.at[Number(p, k)]

\* "none": ref variables without use_locking.
Mode(p) ==
  IF ~p.locking /\ ~p.resource THEN "none"
  ELSE IF p.locking \/ ~p.sparse THEN "exclusive"
  ELSE "shared"

\* Mutant: nothing is locked without use_locking, resources or not.
PositionsIfLocking(p) == IF ~p.locking THEN {} ELSE Firsts(p)

Positions(p) == IF Mode(p) = "none" THEN {} ELSE Firsts(p)

\* Mutant: the mutexes are locked in the order of the inputs.
NextByInput(o, k) == k \in rest[o] /\ \A j \in rest[o] : k <= j

\* The next in acquire_order: the lowest address of those that are left.
NextToLock(o, k) ==
  k \in rest[o] /\ \A j \in rest[o] : Wanted(profile[o], k) <= Wanted(profile[o], j)

Holds(o, m) == held[o][m] > 0

\* Mutant: a shared lock is given whoever holds the mutex.
FreeIfShared(o, m) ==
  Mode(profile[o]) = "exclusive" => \A u \in Ops : ~Holds(u, m)

\* tensorflow::mutex; it is not reentrant.
Free(o, m) ==
  \A u \in Ops :
    Holds(u, m) => Mode(profile[o]) = "shared" /\ Mode(profile[u]) = "shared"

-----------------------------------------------------------------------------
Init ==
  /\ profile \in [Ops -> Profiles]
  /\ pc = [o \in Ops |-> "lock"]
  /\ rest = [o \in Ops |-> Positions(profile[o])]
  /\ held = [o \in Ops |-> [m \in Mutexes |-> 0]]

Lock(o, k) ==
  /\ pc[o] = "lock"
  /\ NextToLock(o, k)
  /\ rest' = [rest EXCEPT ![o] = @ \ {k}]
  /\ LET m == Taken(profile[o], k) IN
       IF m = NoMutex
       THEN UNCHANGED held
       ELSE Free(o, m) /\ held' = [held EXCEPT ![o][m] = @ + 1]
  /\ UNCHANGED <<profile, pc>>

Compute(o) ==
  /\ pc[o] = "lock"
  /\ rest[o] = {}
  /\ pc' = [pc EXCEPT ![o] = "compute"]
  /\ UNCHANGED <<profile, rest, held>>

\* ~VariableInputLockHolder
Release(o) ==
  /\ pc[o] = "compute"
  /\ pc' = [pc EXCEPT ![o] = "done"]
  /\ held' = [held EXCEPT ![o] = [m \in Mutexes |-> 0]]
  /\ UNCHANGED <<profile, rest>>

Proceed(o) == (\E k \in rest[o] : Lock(o, k)) \/ Compute(o) \/ Release(o)

Next == \E o \in Ops : Proceed(o)

Spec == Init /\ [][Next]_vars /\ \A o \in Ops : WF_vars(Proceed(o))

-----------------------------------------------------------------------------
(* Properties. *)

TypeOK ==
  /\ profile \in [Ops -> Profiles]
  /\ pc \in [Ops -> {"lock", "compute", "done"}]
  /\ rest \in [Ops -> SUBSET (0 .. Inputs - 1)]
  /\ held \in [Ops -> [Mutexes -> Nat]]

\* An operation waits only for a mutex above all those it holds, so no set of
\* operations can wait for one another in a circle.
WaitsGoUp ==
  \A o \in Ops : \A k \in rest[o] :
    \A m \in Mutexes : Holds(o, m) /\ Taken(profile[o], k) # NoMutex
                         => m < Taken(profile[o], k)

\* While an operation that locks exclusively computes, nobody else computes
\* on a variable of its inputs.
ExclusiveUpdate ==
  \A o, u \in Ops :
    (/\ o # u
     /\ pc[o] = "compute" /\ pc[u] = "compute"
     /\ Mode(profile[o]) = "exclusive" /\ Mode(profile[u]) # "none")
      => \A j \in DOMAIN profile[o].ids, k \in DOMAIN profile[u].ids :
           Wanted(profile[o], j) # Wanted(profile[u], k)

\* training_ops.cc:215 requires the mutex of a variable to be held when its
\* tensor is prepared for the update.
RequiredMutexHeld ==
  \A o \in Ops :
    pc[o] = "compute" /\ Mode(profile[o]) # "none" =>
      \A k \in DOMAIN profile[o].ids : Holds(o, Wanted(profile[o], k))

\* Every operation gets its mutexes, computes and releases them.
EveryOpFinishes == \A o \in Ops : <>(pc[o] = "done")
=============================================================================
