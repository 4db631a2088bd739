------------------------ MODULE VariableLocksProofs ------------------------
(***************************************************************************)
(* Operations whose variables are their first inputs, all different, lock  *)
(* every mutex they need, wait only upwards, and update in exclusion: for  *)
(* any number of operations, inputs and mutexes.                           *)
(*                                                                         *)
(* The assumption is what makes the number of a mutex in the list of       *)
(* distinct mutexes the id of its input.                                   *)
(***************************************************************************)
EXTENDS VariableLocks, FiniteSetTheorems, TLAPS

Locked(o) == Positions(profile[o]) \ rest[o]

\* An operation holds the mutexes of the positions it has locked.
HeldByPosition ==
  \A o \in Ops :
    /\ rest[o] \subseteq Positions(profile[o])
    /\ pc[o] # "lock" => rest[o] = {}
    /\ \A m \in Mutexes :
         Holds(o, m) <=> (pc[o] # "done" /\ \E k \in Locked(o) : Wanted(profile[o], k) = m)

\* It has locked the lowest of its mutexes.
LowestFirst ==
  \A o \in Ops : \A j \in Locked(o), k \in rest[o] :
    Wanted(profile[o], j) < Wanted(profile[o], k)

Exclusion ==
  \A o, u \in Ops : \A m \in Mutexes :
    o # u /\ Holds(o, m) /\ Holds(u, m)
      => Mode(profile[o]) = "shared" /\ Mode(profile[u]) = "shared"

IInv == TypeOK /\ HeldByPosition /\ LowestFirst /\ Exclusion

-----------------------------------------------------------------------------
\* The number given to a mutex is the id of its input, so the mutex that is
\* taken is the one that is wanted.
LEMMA TakenIsWanted ==
  ASSUME WellNumbered, NEW p \in Profiles, NEW k \in DOMAIN p.ids
  PROVE  /\ Firsts(p) = DOMAIN p.ids
         /\ Taken(p, k) = Wanted(p, k)
         /\ Wanted(p, k) \in Mutexes
         /\ k \in 0 .. Inputs - 1
         /\ \A j \in DOMAIN p.ids : Wanted(p, j) = Wanted(p, k) => j = k
<1>1. PICK n \in 1 .. Inputs : p.ids \in [0 .. n - 1 -> 0 .. Inputs - 1]
  BY VariablesAssumption DEF IsProfile
<1>2. DOMAIN p.ids = 0 .. n - 1
  BY <1>1
<1>3. /\ p.ids[k] = k
      /\ \A j \in DOMAIN p.ids : p.ids[j] = j /\ (p.at[j] = p.at[k] => j = k)
  BY DEF WellNumbered
<1>4. \A j \in DOMAIN p.ids : Wanted(p, j) = Wanted(p, k) => j = k
  BY <1>3 DEF Wanted
<1>5. Firsts(p) = DOMAIN p.ids
  <2>1. ASSUME NEW i \in DOMAIN p.ids, NEW j \in DOMAIN p.ids, j < i
        PROVE  Wanted(p, j) # Wanted(p, i)
    <3>1. p.ids[i] = i /\ p.ids[j] = j /\ (p.at[j] = p.at[i] => j = i)
      BY DEF WellNumbered
    <3>2. j # i
      BY <1>2, <2>1
    <3> QED BY <3>1, <3>2 DEF Wanted
  <2> QED BY <2>1 DEF Firsts
<1>6. {j \in Firsts(p) : j < k} = 0 .. k - 1
  BY <1>1, <1>2, <1>5, VariablesAssumption
<1>7. Cardinality(0 .. k - 1) = k
  <2>1. k \in Nat /\ 0 \in Int /\ k - 1 \in Int
    BY <1>2
  <2>2. Cardinality(0 .. k - 1) = IF 0 > k - 1 THEN 0 ELSE (k - 1) - 0 + 1
    BY <2>1, FS_Interval
  <2> QED BY <2>1, <2>2
<1>8. Number(p, k) = k
  BY <1>6, <1>7 DEF Number
<1>9. Taken(p, k) = Wanted(p, k)
  BY <1>3, <1>8 DEF Taken, Wanted
<1>10. Wanted(p, k) \in Mutexes
  BY VariablesAssumption DEF IsProfile, Wanted
<1>11. k \in 0 .. Inputs - 1
  BY <1>1, <1>2, VariablesAssumption
<1> QED BY <1>4, <1>5, <1>9, <1>10, <1>11

\* Every position an operation has to lock is one of its ids.
LEMMA PositionsAreIds ==
  ASSUME NEW p \in Profiles, NEW k \in Positions(p)
  PROVE  k \in DOMAIN p.ids /\ Mode(p) # "none"
BY DEF Positions, Firsts

THEOREM InitIInv == ASSUME WellNumbered PROVE Init => IInv
<1> SUFFICES ASSUME Init PROVE IInv
  OBVIOUS
<1>1. ASSUME NEW o \in Ops PROVE Positions(profile[o]) \subseteq 0 .. Inputs - 1
  BY TakenIsWanted, PositionsAreIds DEF Init
<1>2. TypeOK
  BY <1>1 DEF Init, TypeOK
<1>3. \A o \in Ops : Locked(o) = {} /\ \A m \in Mutexes : ~Holds(o, m)
  BY DEF Init, Locked, Holds
<1>4. HeldByPosition
  BY <1>3 DEF Init, HeldByPosition
<1>5. LowestFirst /\ Exclusion
  BY <1>3 DEF LowestFirst, Exclusion
<1> QED BY <1>2, <1>4, <1>5 DEF IInv

-----------------------------------------------------------------------------
\* What locking one more mutex changes.
LEMMA LockEffect ==
  ASSUME WellNumbered, IInv, NEW o \in Ops, NEW k \in rest[o], Lock(o, k)
  PROVE  LET m == Wanted(profile[o], k) IN
         /\ m \in Mutexes
         /\ k \in Positions(profile[o])
         /\ Mode(profile[o]) # "none"
         /\ pc[o] = "lock"
         /\ Free(o, m)
         /\ \A j \in rest[o] \ {k} : m < Wanted(profile[o], j)
         /\ rest' = [rest EXCEPT ![o] = @ \ {k}]
         /\ held' = [held EXCEPT ![o][m] = @ + 1]
         /\ UNCHANGED <<profile, pc>>
<1> DEFINE p == profile[o]
           m == Wanted(p, k)
<1>1. p \in Profiles /\ k \in Positions(p) /\ k \in DOMAIN p.ids /\ Mode(p) # "none"
  BY PositionsAreIds DEF IInv, TypeOK, HeldByPosition
<1>2. m \in Mutexes /\ Taken(p, k) = m
  BY <1>1, TakenIsWanted
<1>3. m # NoMutex
  BY <1>2, VariablesAssumption
<1>4. Free(o, m) /\ held' = [held EXCEPT ![o][m] = @ + 1]
  BY <1>2, <1>3 DEF Lock
<1>5. ASSUME NEW j \in rest[o] \ {k} PROVE m < Wanted(p, j)
  <2>1. j \in DOMAIN p.ids
    BY <1>1, PositionsAreIds DEF IInv, HeldByPosition
  <2>2. Wanted(p, j) \in Mutexes /\ Wanted(p, j) # m
    BY <1>1, <1>5, <2>1, TakenIsWanted
  <2>3. m <= Wanted(p, j)
    BY <1>5 DEF Lock, NextToLock
  <2>4. m \in Nat /\ Wanted(p, j) \in Nat
    BY <1>2, <2>2, VariablesAssumption
  <2> HIDE DEF m, p
  <2> QED BY <2>2, <2>3, <2>4
<1> HIDE DEF m
<1> QED BY <1>1, <1>2, <1>4, <1>5 DEF Lock, m

\* One more mutex is locked: the lowest of those that are left.
LEMMA LockPreserves ==
  ASSUME WellNumbered, IInv, NEW o \in Ops, NEW k \in rest[o], Lock(o, k)
  PROVE  IInv'
<1> DEFINE m == Wanted(profile[o], k)
<1>1. /\ m \in Mutexes
      /\ k \in Positions(profile[o])
      /\ Mode(profile[o]) # "none"
      /\ pc[o] = "lock"
      /\ Free(o, m)
      /\ \A j \in rest[o] \ {k} : m < Wanted(profile[o], j)
      /\ rest' = [rest EXCEPT ![o] = @ \ {k}]
      /\ held' = [held EXCEPT ![o][m] = @ + 1]
      /\ UNCHANGED <<profile, pc>>
  BY LockEffect
<1>2. Wanted(profile[o], k) = m
  OBVIOUS
<1> HIDE DEF m
<1>3. TypeOK'
  BY <1>1 DEF IInv, TypeOK
<1>4. \A u \in Ops : \A x \in Mutexes :
        Holds(u, x)' <=> Holds(u, x) \/ (u = o /\ x = m)
  BY <1>1 DEF IInv, TypeOK, Holds
<1>5. /\ \A u \in Ops \ {o} : rest'[u] = rest[u] /\ Locked(u)' = Locked(u)
      /\ rest'[o] = rest[o] \ {k}
      /\ Locked(o)' = Locked(o) \cup {k}
  BY <1>1 DEF IInv, TypeOK, Locked
<1>6. HeldByPosition'
  <2> SUFFICES ASSUME NEW u \in Ops
               PROVE  (/\ rest[u] \subseteq Positions(profile[u])
                       /\ pc[u] # "lock" => rest[u] = {}
                       /\ \A x \in Mutexes :
                            Holds(u, x) <=> (/\ pc[u] # "done"
                                             /\ \E j \in Locked(u) : Wanted(profile[u], j) = x))'
    BY DEF HeldByPosition
  <2>1. CASE u # o
    BY <1>1, <1>4, <1>5, <2>1 DEF IInv, HeldByPosition
  <2>2. CASE u = o
    BY <1>1, <1>2, <1>4, <1>5, <2>2 DEF IInv, HeldByPosition
  <2> QED BY <2>1, <2>2
<1>7. LowestFirst'
  BY <1>1, <1>2, <1>5 DEF IInv, LowestFirst
<1>8. Exclusion'
  <2> SUFFICES ASSUME NEW u \in Ops, NEW w \in Ops, NEW x \in Mutexes,
                      u # w, Holds(u, x)', Holds(w, x)'
               PROVE  Mode(profile[u]) = "shared" /\ Mode(profile[w]) = "shared"
    BY <1>1 DEF Exclusion
  <2>1. CASE Holds(u, x) /\ Holds(w, x)
    BY <2>1 DEF IInv, Exclusion
  <2>2. CASE u = o /\ x = m
    BY <1>1, <1>4, <2>2 DEF Free
  <2>3. CASE w = o /\ x = m
    BY <1>1, <1>4, <2>3 DEF Free
  <2> QED BY <1>4, <2>1, <2>2, <2>3
<1> QED BY <1>3, <1>6, <1>7, <1>8 DEF IInv

\* The operation has all its mutexes and computes.
LEMMA ComputePreserves ==
  ASSUME IInv, NEW o \in Ops, Compute(o)
  PROVE  IInv'
<1>1. TypeOK'
  BY DEF IInv, TypeOK, Compute
<1>2. \A u \in Ops : /\ Locked(u)' = Locked(u) /\ rest'[u] = rest[u]
                     /\ \A m \in Mutexes : Holds(u, m)' <=> Holds(u, m)
  BY DEF Compute, Locked, Holds
<1>3. HeldByPosition'
  <2>1. /\ pc[o] = "lock" /\ rest[o] = {} /\ profile' = profile
        /\ pc'[o] = "compute" /\ \A u \in Ops \ {o} : pc'[u] = pc[u]
    BY DEF IInv, TypeOK, Compute
  <2> QED BY <1>2, <2>1 DEF IInv, HeldByPosition
<1>4. LowestFirst' /\ Exclusion'
  BY <1>2 DEF IInv, LowestFirst, Exclusion, Compute
<1> QED BY <1>1, <1>3, <1>4 DEF IInv

\* The destructor of the lock holder gives every mutex back.
LEMMA ReleasePreserves ==
  ASSUME IInv, NEW o \in Ops, Release(o)
  PROVE  IInv'
<1>1. TypeOK'
  BY DEF IInv, TypeOK, Release
<1>2. /\ \A u \in Ops : Locked(u)' = Locked(u) /\ rest'[u] = rest[u]
      /\ \A m \in Mutexes : ~Holds(o, m)'
      /\ \A u \in Ops \ {o} : \A m \in Mutexes : Holds(u, m)' <=> Holds(u, m)
  BY DEF IInv, TypeOK, Release, Locked, Holds
<1>3. HeldByPosition'
  <2>1. /\ pc[o] = "compute" /\ profile' = profile
        /\ pc'[o] = "done" /\ \A u \in Ops \ {o} : pc'[u] = pc[u]
    BY DEF IInv, TypeOK, Release
  <2> QED BY <1>2, <2>1 DEF IInv, HeldByPosition
<1>4. LowestFirst'
  BY <1>2 DEF IInv, LowestFirst, Release
<1>5. Exclusion'
  BY <1>2 DEF IInv, Exclusion, Release
<1> QED BY <1>1, <1>3, <1>4, <1>5 DEF IInv

\* The invariant holds in every reachable state.
THEOREM Invariant == ASSUME WellNumbered PROVE Spec => []IInv
<1>1. Init => IInv
  BY InitIInv
<1>2. IInv /\ [Next]_vars => IInv'
  <2> SUFFICES ASSUME IInv, [Next]_vars PROVE IInv'
    OBVIOUS
  <2>1. CASE UNCHANGED vars
    BY <2>1 DEF vars, IInv, TypeOK, HeldByPosition, LowestFirst, Exclusion, Locked, Holds
  <2>2. ASSUME NEW o \in Ops, NEW k \in rest[o], Lock(o, k) PROVE IInv'
    BY <2>2, LockPreserves
  <2>3. ASSUME NEW o \in Ops, Compute(o) PROVE IInv'
    BY <2>3, ComputePreserves
  <2>4. ASSUME NEW o \in Ops, Release(o) PROVE IInv'
    BY <2>4, ReleasePreserves
  <2> QED BY <2>1, <2>2, <2>3, <2>4 DEF Next, Proceed
<1> QED BY <1>1, <1>2, PTL DEF Spec

-----------------------------------------------------------------------------
\* An operation waits only for a mutex above all those it holds: no set of
\* operations can wait for one another in a circle, whatever they lock.
THEOREM NoCircularWait == ASSUME WellNumbered PROVE Spec => []WaitsGoUp
<1>1. IInv => WaitsGoUp
  <2> SUFFICES ASSUME IInv, NEW o \in Ops, NEW k \in rest[o], NEW m \in Mutexes, Holds(o, m)
               PROVE  m < Taken(profile[o], k)
    BY DEF WaitsGoUp
  <2>1. PICK j \in Locked(o) : Wanted(profile[o], j) = m
    BY DEF IInv, HeldByPosition
  <2>2. profile[o] \in Profiles /\ k \in DOMAIN profile[o].ids
    BY PositionsAreIds DEF IInv, TypeOK, HeldByPosition
  <2>3. Taken(profile[o], k) = Wanted(profile[o], k)
    BY <2>2, TakenIsWanted
  <2> QED BY <2>1, <2>3 DEF IInv, LowestFirst
<1> QED BY <1>1, Invariant, PTL

\* While an operation computes, it holds the mutex of every variable among its
\* inputs, as GetInputTensorFromVariable requires.
THEOREM MutexesHeld == ASSUME WellNumbered PROVE Spec => []RequiredMutexHeld
<1>1. IInv => RequiredMutexHeld
  <2> SUFFICES ASSUME IInv, NEW o \in Ops, pc[o] = "compute", Mode(profile[o]) # "none",
                      NEW k \in DOMAIN profile[o].ids
               PROVE  Holds(o, Wanted(profile[o], k))
    BY DEF RequiredMutexHeld
  <2>1. profile[o] \in Profiles
    BY DEF IInv, TypeOK
  <2>2. Firsts(profile[o]) = DOMAIN profile[o].ids /\ Wanted(profile[o], k) \in Mutexes
    BY <2>1, TakenIsWanted
  <2>3. k \in Locked(o)
    BY <2>2 DEF IInv, HeldByPosition, Locked, Positions
  <2> QED BY <2>2, <2>3 DEF IInv, HeldByPosition
<1> QED BY <1>1, Invariant, PTL

\* Nobody computes on a variable while another operation that locked it
\* exclusively computes on it.
THEOREM UpdatesExclude == ASSUME WellNumbered PROVE Spec => []ExclusiveUpdate
<1>1. IInv /\ RequiredMutexHeld => ExclusiveUpdate
  <2> SUFFICES ASSUME IInv, RequiredMutexHeld, NEW o \in Ops, NEW u \in Ops, o # u,
                      pc[o] = "compute", pc[u] = "compute",
                      Mode(profile[o]) = "exclusive", Mode(profile[u]) # "none",
                      NEW j \in DOMAIN profile[o].ids, NEW k \in DOMAIN profile[u].ids,
                      Wanted(profile[o], j) = Wanted(profile[u], k)
               PROVE  FALSE
    BY DEF ExclusiveUpdate
  <2>1. Holds(o, Wanted(profile[o], j)) /\ Holds(u, Wanted(profile[u], k))
    BY DEF RequiredMutexHeld
  <2>2. Wanted(profile[o], j) \in Mutexes
    BY VariablesAssumption DEF IInv, TypeOK, IsProfile, Wanted
  <2> QED BY <2>1, <2>2 DEF IInv, Exclusion
<1> QED BY <1>1, Invariant, MutexesHeld, PTL
=============================================================================
