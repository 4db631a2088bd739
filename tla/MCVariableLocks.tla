-------------------------- MODULE MCVariableLocks --------------------------
EXTENDS VariableLocks

\* The mutexes of inputs in, all different, and no mutex elsewhere.
Placements(in) ==
  {[i \in 0 .. Inputs - 1 |-> IF i \in in THEN f[i] ELSE NoMutex] :
     f \in {g \in [in -> Mutexes] : \A i, j \in in : g[i] = g[j] => i = j}}

\* Operations on KvVariables whose first n inputs are the variables.
Leading(n) ==
  {[at |-> a, ids |-> [k \in 0 .. n - 1 |-> k],
    resource |-> TRUE, locking |-> l, sparse |-> TRUE] :
     a \in Placements(0 .. n - 1), l \in BOOLEAN}

SparseProfiles == Leading(1) \cup Leading(2)

\* The theorems are about these.
ASSUME SparseIsWellNumbered == Profiles = SparseProfiles => WellNumbered

\* The ids of ResourceComputeAdaDQHHG, whose fourth variable is input 11.
AdaDQHHG == [k \in 0 .. 3 |-> IF k = 3 THEN 11 ELSE k]

DenseProfiles ==
  {[at |-> a, ids |-> AdaDQHHG, resource |-> TRUE, locking |-> FALSE, sparse |-> FALSE] :
     a \in Placements({0, 1, 2, 11})}
=============================================================================
