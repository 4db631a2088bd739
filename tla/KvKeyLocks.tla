---------------------------- MODULE KvKeyLocks ----------------------------
(***************************************************************************)
(* One key of a KvVariable under concurrent calls, step by step between    *)
(* the lock operations.  Two locks are involved: mu(), which an operation  *)
(* holds from beginning to end (shared, or exclusive to delete and         *)
(* import, or not at all to look up for prediction), and the spin lock of  *)
(* the key's segment, which it holds around each access to the entry.      *)
(*                                                                         *)
(* A section under the exclusive spin lock is one step: nobody else        *)
(* touches the entry meanwhile.  A section under the shared one is as many *)
(* steps as the other readers can tell apart.                              *)
(*                                                                         *)
(* Every key is frequent enough (enter_threshold_ is 0) and none is        *)
(* blacklisted: KvTable has those cases.  Writing under_threshold_ under   *)
(* the shared lock is left out too, since every reader writes what it      *)
(* works out from the same row.                                            *)
(***************************************************************************)
EXTENDS KvCalls

CONSTANTS
  MaxCalls,   \* bound: the calls the threads make between them
  MaxCount    \* the saturation bound of the 16-bit frequency

ASSUME LocksAssumption ==
  /\ MaxCalls \in Nat
  /\ MaxCount \in Nat \ {0}

VARIABLES
  entry,      \* ev_table_'s entry of the key: its row and its frequency
  accesses,   \* history: the counted accesses since the row was inserted
  mu,         \* how every thread holds mu()
  spin,       \* how every thread holds the segment's spin_rw_mutex
  pc,         \* where every thread is in its call
  call,       \* the call it is in
  seen,       \* what it read before the step it is about to take
  reply,      \* what the call gives back
  left        \* the calls still to be made

vars == <<entry, accesses, mu, spin, pc, call, seen, reply, left>>

Missed == [t \in Threads |-> pc[t] = "insert"]

Atomic == INSTANCE KvAtomic WITH row <- entry.row, missed <- Missed

Absent == [row |-> NoRow, cnt |-> 0]
Present == entry.row # NoRow

Locations == {"idle", "find", "count", "upgrade", "upgrading", "relock", "copy",
              "load", "change", "insert", "step", "erase", "clear", "return"}

TypeOK ==
  /\ entry \in {Absent} \cup [row : Values, cnt : 1 .. MaxCount]
  /\ accesses \in Nat
  /\ mu \in [Threads -> {"none", "shared", "exclusive"}]
  /\ spin \in [Threads -> {"none", "shared", "upgrading"}]
  /\ pc \in [Threads -> Locations]
  /\ call \in [Threads -> Calls \cup {Idle}]
  /\ seen \in [Threads -> Nat]
  /\ \A t \in Threads : reply[t] \in {NoReply, Done} \/ reply[t] \in Row
  /\ left \in 0 .. MaxCalls

Init ==
  /\ entry = Absent
  /\ accesses = 0
  /\ mu = [t \in Threads |-> "none"]
  /\ spin = [t \in Threads |-> "none"]
  /\ pc = [t \in Threads |-> "idle"]
  /\ call = [t \in Threads |-> Idle]
  /\ seen = [t \in Threads |-> 0]
  /\ reply = [t \in Threads |-> NoReply]
  /\ left = MaxCalls

-----------------------------------------------------------------------------
(* The locks. *)

Others(t) == Threads \ {t}

\* tensorflow::mutex, if the call takes it at all
MayHold(t, mode) ==
  \A u \in Others(t) :
    /\ mode # "none" => mu[u] # "exclusive"
    /\ mode = "exclusive" => mu[u] = "none"

\* tbb::spin_rw_mutex: nobody is let in while a thread upgrades to a writer.
MayShare(t) == \A u \in Others(t) : spin[u] # "upgrading"

MayWrite(t) == \A u \in Others(t) : spin[u] = "none"

\* A waiting writer, like an upgrade, announces itself in the lock's state.
WriterPending(t) ==
  \E u \in Others(t) :
    \/ spin[u] = "upgrading"
    \/ pc[u] \in {"relock", "change", "insert", "step", "erase", "clear"}

-----------------------------------------------------------------------------
(* The entry. *)

\* Mutant: the sum is stored without its bound.
SaturateAddUnbounded(x, d) == x + d

\* SaturateAddFrequency
SaturateAdd(x, d) == IF x + d > MaxCount THEN MaxCount ELSE x + d

\* InsertWithFnUnsafe is an insert-or-assign, whatever is there.
PutEntry(v) ==
  /\ entry' = [row |-> v, cnt |-> 1]
  /\ accesses' = 1

\* AddFrequency, on top of the frequency that was read.
PutCount(c) ==
  /\ entry' = [entry EXCEPT !.cnt = SaturateAdd(c, 1)]
  /\ accesses' = accesses + 1

PutRow(v) ==
  /\ entry' = [entry EXCEPT !.row = v]
  /\ UNCHANGED accesses

Remove == entry' = Absent /\ accesses' = 0

-----------------------------------------------------------------------------
(* Steps of a call. *)

\* Mutant: a deletion shares mu().
MuModeShared(kind) == IF kind = "lookup" THEN "none" ELSE "shared"

MuMode(kind) ==
  IF kind = "lookup" THEN "none"
  ELSE IF kind \in {"delete", "import"} THEN "exclusive" ELSE "shared"

Start(kind) ==
  CASE kind \in {"gather", "lookup", "count"} -> "find"
    [] kind \in {"update", "scatter"} -> "change"
    [] kind = "train" -> "step"
    [] kind = "delete" -> "erase"
    [] kind = "import" -> "clear"

Begin(t, c) ==
  /\ pc[t] = "idle"
  /\ left > 0
  /\ MayHold(t, MuMode(c.kind))
  /\ mu' = [mu EXCEPT ![t] = MuMode(c.kind)]
  /\ pc' = [pc EXCEPT ![t] = Start(c.kind)]
  /\ call' = [call EXCEPT ![t] = c]
  /\ left' = left - 1
  /\ UNCHANGED <<entry, accesses, spin, seen, reply>>

\* From one place in a call to the next, holding the spin lock as mode says.
Move(t, from, to, mode) ==
  /\ pc[t] = from
  /\ pc' = [pc EXCEPT ![t] = to]
  /\ spin' = [spin EXCEPT ![t] = mode]
  /\ UNCHANGED <<mu, call, left>>

Step(t, from, to, mode) ==
  Move(t, from, to, mode) /\ UNCHANGED reply

Finish(t, from, r) ==
  /\ Move(t, from, "return", "none")
  /\ reply' = [reply EXCEPT ![t] = r]
  /\ UNCHANGED seen

See(t, x) == seen' = [seen EXCEPT ![t] = x]

\* Mutant: the lookup gives the lock up before the access is counted.
GatherFindUnlocks(t) ==
  /\ call[t].kind = "gather"
  /\ MayShare(t)
  /\ \/ Present /\ Step(t, "find", "count", "none") /\ See(t, entry.cnt)
     \/ ~Present /\ Step(t, "find", "upgrade", "shared") /\ UNCHANGED seen
  /\ UNCHANGED <<entry, accesses>>

\* FindOrInsertWithDifferentFn: the lookup under the shared lock.
GatherFind(t) ==
  /\ call[t].kind = "gather"
  /\ MayShare(t)
  /\ \/ Present /\ Step(t, "find", "count", "shared") /\ See(t, entry.cnt)
     \/ ~Present /\ Step(t, "find", "upgrade", "shared") /\ UNCHANGED seen
  /\ UNCHANGED <<entry, accesses>>

\* The find function runs under the shared lock: it stores a frequency that
\* another thread may have changed since it was read.
GatherCount(t) ==
  /\ Finish(t, "count", entry.row)
  /\ PutCount(seen[t])

\* upgrade_to_writer keeps the lock: the WRITER bit is set, and the other
\* readers are waited for.
UpgradeKeep(t) ==
  /\ MayShare(t)
  /\ Step(t, "upgrade", "upgrading", "upgrading")
  /\ UNCHANGED <<entry, accesses, seen>>

\* Mutant: the failed upgrade keeps its share of the lock.
UpgradeGiveUpKeeps(t) ==
  /\ WriterPending(t)
  /\ \E u \in Others(t) : spin[u] # "none"
  /\ Step(t, "upgrade", "relock", "shared")
  /\ UNCHANGED <<entry, accesses, seen>>

\* upgrade_to_writer gives the lock up to another writer and waits for it.
UpgradeGiveUp(t) ==
  /\ WriterPending(t)
  /\ \E u \in Others(t) : spin[u] # "none"
  /\ Step(t, "upgrade", "relock", "none")
  /\ UNCHANGED <<entry, accesses, seen>>

GatherInsert(t, v) ==
  /\ MayWrite(t)
  /\ Finish(t, "upgrading", v)
  /\ PutEntry(v)

\* Mutant: the key is not looked up again.
GatherRelockBlind(t, v) ==
  /\ MayWrite(t)
  /\ Finish(t, "relock", v)
  /\ PutEntry(v)

\* The lock was given up, so the key is looked up again.
GatherRelock(t, v) ==
  /\ MayWrite(t)
  /\ \/ Present /\ Finish(t, "relock", entry.row) /\ PutCount(entry.cnt)
     \/ ~Present /\ Finish(t, "relock", v) /\ PutEntry(v)

\* FindOrZeros: BatchGetWithFn copies the row under the shared lock.
LookupFind(t) ==
  /\ call[t].kind = "lookup"
  /\ MayShare(t)
  /\ \/ Present /\ Step(t, "find", "copy", "shared") /\ See(t, entry.row)
     \/ ~Present /\ Finish(t, "find", NoRow)
  /\ UNCHANGED <<entry, accesses>>

LookupCopy(t) ==
  /\ Finish(t, "copy", entry.row)
  /\ UNCHANGED <<entry, accesses>>

\* GetCount: FindOrNull gives a pointer to the entry and unlocks the segment.
CountFind(t) ==
  /\ call[t].kind = "count"
  /\ MayShare(t)
  /\ \/ Present /\ Step(t, "find", "load", "none") /\ UNCHANGED seen
     \/ ~Present /\ Finish(t, "find", Done)
  /\ UNCHANGED <<entry, accesses>>

CountLoad(t) ==
  /\ Finish(t, "load", Done)
  /\ UNCHANGED <<entry, accesses>>

\* InsertOrUpdate assigns the argument, ScatterUpdate combines it.
NewRow(t) ==
  IF call[t].kind = "update" THEN call[t].arg ELSE Plus(entry.row, call[t].arg)

\* UpdateWithFn and FetchAndUpdateWithFn: FALSE when there is no entry.
Change(t) ==
  /\ MayWrite(t)
  /\ \/ Present /\ Finish(t, "change", Done) /\ PutRow(NewRow(t))
     \/ /\ ~Present
        /\ Step(t, "change", "insert", "none")
        /\ UNCHANGED <<entry, accesses, seen>>

InsertedRow(t, v) ==
  IF call[t].kind = "scatter" THEN Plus(v, call[t].arg) ELSE call[t].arg

\* InsertWithFn, after the lock was released (v is an initial row).
Insert(t, v) ==
  /\ MayWrite(t)
  /\ Finish(t, "insert", Done)
  /\ IF InsertedRow(t, v) = NoRow THEN UNCHANGED <<entry, accesses>>
     ELSE PutEntry(InsertedRow(t, v))

\* An optimizer keeps the exclusive lock from FindOrInsertUnsafe to its write.
Train(t, v) ==
  /\ MayWrite(t)
  /\ Finish(t, "step", Done)
  /\ \/ Present /\ PutRow(Plus(entry.row, call[t].arg))
     \/ ~Present /\ PutEntry(Plus(v, call[t].arg))

\* DeleteKey
Erase(t) ==
  /\ MayWrite(t)
  /\ Finish(t, "erase", Done)
  /\ Remove

\* ImportValues: clear() locks each segment in turn, then the payload's keys
\* are inserted one by one.
Clear(t) ==
  /\ MayWrite(t)
  /\ Step(t, "clear", "insert", "none")
  /\ Remove
  /\ UNCHANGED seen

Return(t) ==
  /\ pc[t] = "return"
  /\ mu' = [mu EXCEPT ![t] = "none"]
  /\ pc' = [pc EXCEPT ![t] = "idle"]
  /\ call' = [call EXCEPT ![t] = Idle]
  /\ seen' = [seen EXCEPT ![t] = 0]
  /\ reply' = [reply EXCEPT ![t] = NoReply]
  /\ UNCHANGED <<entry, accesses, spin, left>>

Proceed(t) ==
  \/ GatherFind(t) \/ GatherCount(t) \/ UpgradeKeep(t) \/ UpgradeGiveUp(t)
  \/ LookupFind(t) \/ LookupCopy(t) \/ CountFind(t) \/ CountLoad(t)
  \/ Change(t) \/ Erase(t) \/ Clear(t) \/ Return(t)
  \/ \E v \in Values :
       GatherInsert(t, v) \/ GatherRelock(t, v) \/ Insert(t, v) \/ Train(t, v)

Next ==
  \E t \in Threads :
    \/ \E c \in Calls : Begin(t, c)
    \/ Proceed(t)

\* Every thread that can run runs.
Fairness == \A t \in Threads : WF_vars(Proceed(t))

Spec == Init /\ [][Next]_vars /\ Fairness

-----------------------------------------------------------------------------
(* Properties. *)

\* A thread that found the entry and goes on using it (to count the access,
\* to copy the row, or, in GetCount, without the segment's lock) finds the
\* same entry there, and the row it copies is the one it found.  (With the
\* types, which bound the count that is stored.)
PointersStayValid ==
  /\ TypeOK
  /\ \A t \in Threads :
       /\ pc[t] \in {"count", "copy", "load"} => Present
       /\ pc[t] = "copy" => entry.row = seen[t]

\* The frequency never exceeds the accesses counted since the row was
\* inserted: nobody stores a frequency it read from an earlier entry.
FrequencyNeverAhead == Present => entry.cnt <= accesses

\* embedding_value.h says the low bits of freq_val_ are the total frequency.
FrequencyIsTotal ==
  (Present /\ \A t \in Threads : pc[t] # "count")
    => entry.cnt = IF accesses > MaxCount THEN MaxCount ELSE accesses

\* Every call on the row takes effect at one moment of its execution, as
\* KvAtomic says: no gather overwrites a row, all of them are given the row
\* that is there, and no optimizer step is lost to another.
CallsAreAtomic == Atomic!Spec

\* Every call returns: the locks let nobody wait for ever.
EveryCallReturns == \A t \in Threads : pc[t] # "idle" ~> pc[t] = "idle"
=============================================================================
