------------------------------ MODULE KvCalls ------------------------------
(***************************************************************************)
(* The calls that threads make on one key of a KvVariable, for KvAtomic    *)
(* (what they promise) and KvKeyLocks (how they keep it).                  *)
(***************************************************************************)
EXTENDS Integers

CONSTANTS
  Threads,    \* the threads that run kernels
  MaxValue,   \* magnitudes of a row are 0 .. MaxValue
  Kinds,      \* the kinds of call the program makes
  NoRow,      \* the key is not in the table
  Done,       \* the reply of a call that gives nothing back
  NoReply     \* the call has not taken effect

\* FindOrInsert, FindOrZeros, GetCount, InsertOrUpdate, ScatterUpdate, an
\* optimizer's step, Delete, ImportValues.
CallKinds == {"gather", "lookup", "count", "update", "scatter", "train", "delete", "import"}

ASSUME CallsAssumption ==
  /\ MaxValue \in Nat \ {0}
  /\ Kinds \subseteq CallKinds
  /\ NoRow \notin 0 .. MaxValue
  /\ Done \notin 0 .. MaxValue
  /\ Done # NoRow
  /\ NoReply \notin 0 .. MaxValue
  /\ NoReply \notin {NoRow, Done}

Values == 0 .. MaxValue
Row == Values \cup {NoRow}

\* The row a call brings along; an import's payload may hold none for the key.
Arguments(kind) ==
  CASE kind \in {"update", "scatter", "train"} -> Values
    [] kind = "import" -> Row
    [] OTHER -> {NoRow}

Calls == UNION {[kind : {k}, arg : Arguments(k)] : k \in Kinds}

Idle == [kind |-> "idle", arg |-> NoRow]

\* A cwise operation.  What it computes does not matter, only that of two of
\* them on one row both are to be seen.
Plus(v, d) == (v + d) % (MaxValue + 1)
=============================================================================
