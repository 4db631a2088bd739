-------------------------- MODULE KvKeyLocksProofs --------------------------
(***************************************************************************)
(* Calls on one key are safe and atomic, for any number of threads and of  *)
(* calls: what a thread has found stays there while it uses it, and every  *)
(* call takes effect in one step of KvAtomic.                              *)
(***************************************************************************)
EXTENDS KvKeyLocks, TLAPS

\* The kinds of call that come to a place, and the spin lock they have there.
Reaches(kind, p) ==
  /\ p = "idle" <=> kind = "idle"
  /\ p = "find" => kind \in {"gather", "lookup", "count"}
  /\ p \in {"count", "upgrade", "upgrading", "relock"} => kind = "gather"
  /\ p = "copy" => kind = "lookup"
  /\ p = "load" => kind = "count"
  /\ p = "change" => kind \in {"update", "scatter"}
  /\ p = "insert" => kind \in {"update", "scatter", "import"}
  /\ p = "step" => kind = "train"
  /\ p = "erase" => kind = "delete"
  /\ p = "clear" => kind = "import"

SpinAt(p) ==
  IF p \in {"count", "upgrade", "copy"} THEN "shared"
  ELSE IF p = "upgrading" THEN "upgrading" ELSE "none"

MuAt(p, kind) == IF p = "idle" THEN "none" ELSE MuMode(kind)

\* Where a thread is says which call it is in and what it holds.
PlaceOK(t) ==
  /\ Reaches(call[t].kind, pc[t])
  /\ mu[t] = MuAt(pc[t], call[t].kind)
  /\ spin[t] = SpinAt(pc[t])
  /\ reply[t] = NoReply <=> pc[t] # "return"

\* The two locks exclude whom they should.
Exclusion ==
  \A t, u \in Threads :
    t # u => /\ mu[t] = "exclusive" => mu[u] # "shared" /\ mu[u] # "exclusive"
             /\ spin[t] = "upgrading" => spin[u] # "upgrading"

ThreadsOK ==
  /\ mu \in [Threads -> {"none", "shared", "exclusive"}]
  /\ spin \in [Threads -> {"none", "shared", "upgrading"}]
  /\ pc \in [Threads -> Locations]
  /\ call \in [Threads -> Calls \cup {Idle}]
  /\ reply \in [Threads -> {NoReply, Done} \cup Row]
  /\ left \in 0 .. MaxCalls
  /\ \A t \in Threads : PlaceOK(t)
  /\ Exclusion

\* What a thread has seen of the entry still holds.
SeenOK(t) ==
  /\ pc[t] = "count" => Present /\ seen[t] <= accesses
  /\ pc[t] = "copy" => Present /\ entry.row = seen[t]
  /\ pc[t] = "load" => Present
  /\ pc[t] \in {"upgrade", "upgrading"} => ~Present
  /\ pc[t] = "insert" /\ call[t].kind = "import" => ~Present

EntryOK ==
  /\ entry \in {Absent} \cup [row : Values, cnt : 1 .. MaxCount]
  /\ accesses \in Nat
  /\ seen \in [Threads -> Nat]
  /\ FrequencyNeverAhead
  /\ \A t \in Threads : SeenOK(t)

IInv == ThreadsOK /\ EntryOK

-----------------------------------------------------------------------------

LEMMA CallFacts ==
  ASSUME NEW c \in Calls
  PROVE  /\ c.kind \in Kinds /\ c.kind \in CallKinds
         /\ c.arg \in Row
         /\ c.kind \in {"update", "scatter", "train"} => c.arg \in Values
         /\ c.kind # "idle"
  <1>1. PICK k \in Kinds : c \in [kind : {k}, arg : Arguments(k)]
    BY DEF Calls
  <1>2. c.kind = k /\ c.arg \in Arguments(k) /\ k \in CallKinds
    BY <1>1, CallsAssumption
  <1> QED
    BY <1>2 DEF Arguments, Row, CallKinds

LEMMA PlusType ==
  ASSUME NEW v \in Values, NEW d \in Values
  PROVE  Plus(v, d) \in Values
  BY CallsAssumption DEF Plus, Values

LEMMA EntryFacts ==
  ASSUME EntryOK
  PROVE  /\ Present => entry \in [row : Values, cnt : 1 .. MaxCount]
         /\ ~Present => entry = Absent
         /\ entry.row \in Row
         /\ Present => entry.row \in Values
  BY CallsAssumption DEF EntryOK, Present, Absent, Row, Values

LEMMA InvInit == Init => IInv
  BY LocksAssumption, CallsAssumption
  DEF Init, IInv, ThreadsOK, EntryOK, PlaceOK, Exclusion, SeenOK, Locations, Reaches, SpinAt,
      MuAt, Present, Absent, FrequencyNeverAhead, Idle

LEMMA InvPointers == IInv => PointersStayValid
  BY DEF IInv, ThreadsOK, EntryOK, SeenOK, PointersStayValid, TypeOK, Row

LEMMA InvFrequency == IInv => FrequencyNeverAhead
  BY DEF IInv, EntryOK

-----------------------------------------------------------------------------
(* The threads. *)

\* A thread in a call goes to another place in it.
LEMMA MoveThreads ==
  ASSUME ThreadsOK, NEW t \in Threads, NEW to \in Locations, NEW r,
         pc[t] \notin {"idle", "return"}, to # "idle",
         pc' = [pc EXCEPT ![t] = to],
         spin' = [spin EXCEPT ![t] = SpinAt(to)],
         reply' = [reply EXCEPT ![t] = r],
         UNCHANGED <<mu, call, left>>,
         Reaches(call[t].kind, to),
         IF to = "return" THEN r \in {Done} \cup Row ELSE r = NoReply,
         to = "upgrading" => MayShare(t)
  PROVE  ThreadsOK'
  <1>1. r \in {NoReply, Done} \cup Row /\ (r = NoReply <=> to # "return")
    BY CallsAssumption DEF Row, Values
  <1>2. SpinAt(to) \in {"none", "shared", "upgrading"}
    BY DEF SpinAt
  <1>3. PlaceOK(t)'
    BY <1>1 DEF ThreadsOK, PlaceOK, MuAt
  <1>4. ASSUME NEW u \in Threads, u # t PROVE PlaceOK(u)'
    BY <1>4 DEF ThreadsOK, PlaceOK
  <1>5. Exclusion'
    <2>1. SpinAt(to) = "upgrading" => to = "upgrading"
      BY DEF SpinAt
    <2> QED
      BY <2>1 DEF ThreadsOK, Exclusion, MayShare, Others
  <1> QED
    BY <1>1, <1>2, <1>3, <1>4, <1>5 DEF ThreadsOK

LEMMA BeginThreads ==
  ASSUME ThreadsOK, NEW t \in Threads, NEW c \in Calls, Begin(t, c)
  PROVE  ThreadsOK'
  <1>1. c.kind \in CallKinds
    BY CallFacts
  <1>2. /\ Start(c.kind) \in Locations \ {"idle", "return"}
        /\ Reaches(c.kind, Start(c.kind))
        /\ SpinAt(Start(c.kind)) = "none"
        /\ MuMode(c.kind) \in {"none", "shared", "exclusive"}
    BY <1>1 DEF CallKinds, Start, Locations, Reaches, SpinAt, MuMode
  <1>3. PlaceOK(t)'
    BY <1>2 DEF Begin, ThreadsOK, PlaceOK, MuAt, SpinAt
  <1>4. ASSUME NEW u \in Threads, u # t PROVE PlaceOK(u)'
    BY <1>4 DEF Begin, ThreadsOK, PlaceOK
  <1>5. Exclusion'
    BY <1>2 DEF Begin, ThreadsOK, Exclusion, MayHold, Others
  <1> QED
    BY <1>2, <1>3, <1>4, <1>5, LocksAssumption DEF Begin, ThreadsOK

LEMMA ReturnThreads ==
  ASSUME ThreadsOK, NEW t \in Threads, Return(t)
  PROVE  ThreadsOK'
  <1>1. PlaceOK(t)'
    BY DEF Return, ThreadsOK, PlaceOK, MuAt, SpinAt, Reaches, Idle
  <1>2. ASSUME NEW u \in Threads, u # t PROVE PlaceOK(u)'
    BY <1>2 DEF Return, ThreadsOK, PlaceOK
  <1>3. Exclusion'
    BY DEF Return, ThreadsOK, Exclusion
  <1> QED
    BY <1>1, <1>2, <1>3 DEF Return, ThreadsOK, Locations

\* The two ways a call goes on in the model.
LEMMA StepThreads ==
  ASSUME ThreadsOK, NEW t \in Threads, NEW from, NEW to \in Locations \ {"idle", "return"},
         from \notin {"idle", "return"}, Step(t, from, to, SpinAt(to)),
         Reaches(call[t].kind, to), to = "upgrading" => MayShare(t)
  PROVE  ThreadsOK'
  <1>1. reply[t] = NoReply
    BY DEF ThreadsOK, PlaceOK, Step, Move
  <1>2. reply' = [reply EXCEPT ![t] = NoReply]
    BY <1>1 DEF Step, ThreadsOK
  <1> QED
    BY <1>2, MoveThreads DEF Step, Move

LEMMA FinishThreads ==
  ASSUME ThreadsOK, NEW t \in Threads, NEW from, NEW r \in {Done} \cup Row,
         from \notin {"idle", "return"}, Finish(t, from, r)
  PROVE  ThreadsOK'
  <1>1. SpinAt("return") = "none" /\ "return" \in Locations
    BY DEF SpinAt, Locations
  <1>2. Reaches(call[t].kind, "return")
    <2>1. call[t] \in Calls
      BY DEF ThreadsOK, PlaceOK, Finish, Move, Reaches, Locations, Idle, CallKinds
    <2> QED
      BY <2>1, CallFacts DEF Reaches
  <1> QED
    BY <1>1, <1>2, MoveThreads DEF Finish, Move

-----------------------------------------------------------------------------
(* The entry.  Only t's own place and what it has seen may change.         *)

Frame(t) ==
  /\ \A u \in Others(t) : pc'[u] = pc[u] /\ seen'[u] = seen[u] /\ call'[u] = call[u]
  /\ seen' \in [Threads -> Nat]

LEMMA Unwritten ==
  ASSUME IInv, NEW t \in Threads, Frame(t), SeenOK(t)', UNCHANGED <<entry, accesses>>
  PROVE  EntryOK'
  <1>1. ASSUME NEW u \in Others(t) PROVE SeenOK(u)'
    BY DEF IInv, EntryOK, Frame, Others, SeenOK, Present
  <1> QED
    BY <1>1 DEF IInv, EntryOK, Frame, Others, FrequencyNeverAhead, Present

\* Whoever waits for the entry to stay away would exclude t, and whoever uses
\* the row holds the spin lock.
LEMMA Written ==
  ASSUME IInv, NEW t \in Threads, Frame(t), SeenOK(t)', MayWrite(t), mu[t] # "none",
         entry' \in [row : Values, cnt : 1 .. MaxCount],
         accesses' \in Nat, entry'.cnt <= accesses'
  PROVE  EntryOK'
  <1>1. Present'
    BY CallsAssumption DEF Present, Values
  <1>2. ASSUME NEW u \in Others(t) PROVE SeenOK(u)'
    <2>1. /\ u \in Threads /\ u # t
          /\ pc'[u] = pc[u] /\ seen'[u] = seen[u] /\ call'[u] = call[u]
          /\ spin[u] = "none" /\ PlaceOK(u)
      BY DEF IInv, ThreadsOK, Frame, Others, MayWrite
    <2>2. pc[u] \notin {"count", "copy", "upgrade", "upgrading"}
      BY <2>1 DEF PlaceOK, SpinAt
    <2>3. ~(pc[u] = "insert" /\ call[u].kind = "import")
      <3>1. mu[u] # "exclusive"
        BY <2>1 DEF IInv, ThreadsOK, Exclusion
      <3> QED
        BY <2>1, <3>1 DEF PlaceOK, MuAt, MuMode
    <2> QED
      BY <1>1, <2>1, <2>2, <2>3 DEF SeenOK
  <1> QED
    BY <1>2 DEF IInv, EntryOK, Frame, Others, FrequencyNeverAhead

LEMMA Removed ==
  ASSUME IInv, NEW t \in Threads, Frame(t), SeenOK(t)', MayWrite(t), mu[t] = "exclusive",
         Remove
  PROVE  EntryOK'
  <1>1. ~Present' /\ entry' = Absent /\ accesses' = 0
    BY DEF Remove, Present, Absent
  <1>2. ASSUME NEW u \in Others(t) PROVE SeenOK(u)'
    <2>1. /\ u \in Threads /\ u # t
          /\ pc'[u] = pc[u] /\ seen'[u] = seen[u] /\ call'[u] = call[u]
          /\ spin[u] = "none" /\ PlaceOK(u)
      BY DEF IInv, ThreadsOK, Frame, Others, MayWrite
    <2>2. pc[u] \notin {"count", "copy", "upgrade", "upgrading"}
      BY <2>1 DEF PlaceOK, SpinAt
    <2>3. pc[u] # "load"
      <3>1. mu[u] # "shared"
        BY <2>1 DEF IInv, ThreadsOK, Exclusion
      <3> QED
        BY <2>1, <3>1 DEF PlaceOK, MuAt, MuMode, Reaches
    <2> QED
      BY <1>1, <2>1, <2>2, <2>3 DEF SeenOK
  <1> QED
    BY <1>1, <1>2 DEF IInv, EntryOK, Frame, Others, FrequencyNeverAhead

\* What the writes make of the entry.
LEMMA Put ==
  ASSUME NEW v \in Values, PutEntry(v)
  PROVE  /\ entry' \in [row : Values, cnt : 1 .. MaxCount]
         /\ accesses' \in Nat /\ entry'.cnt <= accesses' /\ entry'.row = v
  BY LocksAssumption DEF PutEntry

LEMMA Counted ==
  ASSUME EntryOK, Present, NEW c \in Nat, c <= accesses, PutCount(c)
  PROVE  /\ entry' \in [row : Values, cnt : 1 .. MaxCount]
         /\ accesses' \in Nat /\ entry'.cnt <= accesses' /\ entry'.row = entry.row
         /\ accesses <= accesses'
  <1>1. SaturateAdd(c, 1) \in 1 .. MaxCount /\ SaturateAdd(c, 1) <= accesses + 1
    BY LocksAssumption DEF SaturateAdd, EntryOK
  <1> QED
    BY <1>1, EntryFacts DEF PutCount, EntryOK

LEMMA Changed ==
  ASSUME EntryOK, Present, NEW v \in Values, PutRow(v)
  PROVE  /\ entry' \in [row : Values, cnt : 1 .. MaxCount]
         /\ accesses' \in Nat /\ entry'.cnt <= accesses' /\ entry'.row = v
  BY EntryFacts DEF PutRow, EntryOK, FrequencyNeverAhead

LEMMA FinishFrame ==
  ASSUME IInv, NEW t \in Threads, NEW from, NEW r, Finish(t, from, r)
  PROVE  Frame(t) /\ SeenOK(t)'
  BY DEF IInv, ThreadsOK, EntryOK, Finish, Move, Frame, Others, SeenOK

LEMMA StepFrame ==
  ASSUME IInv, NEW t \in Threads, NEW from, NEW to, NEW mode, Step(t, from, to, mode),
         UNCHANGED seen \/ \E x \in Nat : See(t, x)
  PROVE  Frame(t) /\ pc'[t] = to
  BY DEF IInv, ThreadsOK, EntryOK, Step, Move, Frame, Others, See

-----------------------------------------------------------------------------
(* The steps of a call.                                                    *)

LEMMA Here ==
  ASSUME IInv, NEW t \in Threads
  PROVE  /\ ThreadsOK /\ EntryOK
         /\ Reaches(call[t].kind, pc[t])
         /\ mu[t] = MuAt(pc[t], call[t].kind)
         /\ spin[t] = SpinAt(pc[t])
         /\ SeenOK(t)
         /\ call[t] # Idle => call[t] \in Calls
  BY DEF IInv, ThreadsOK, EntryOK, PlaceOK

LEMMA PlaceFacts ==
  /\ {"count", "upgrade", "upgrading", "relock", "copy", "load", "insert"}
       \subseteq Locations \ {"idle", "return"}
  /\ SpinAt("count") = "shared" /\ SpinAt("upgrade") = "shared"
  /\ SpinAt("upgrading") = "upgrading" /\ SpinAt("relock") = "none"
  /\ SpinAt("copy") = "shared" /\ SpinAt("load") = "none" /\ SpinAt("insert") = "none"
  /\ Reaches("gather", "count") /\ Reaches("gather", "upgrade")
  /\ Reaches("gather", "upgrading") /\ Reaches("gather", "relock")
  /\ Reaches("lookup", "copy") /\ Reaches("count", "load")
  /\ Reaches("update", "insert") /\ Reaches("scatter", "insert")
  /\ Reaches("import", "insert")
  BY DEF Locations, SpinAt, Reaches

LEMMA BeginInv ==
  ASSUME IInv, NEW t \in Threads, NEW c \in Calls, Begin(t, c)
  PROVE  IInv'
  <1>1. c.kind \in CallKinds
    BY CallFacts
  <1>2. Start(c.kind) \in {"find", "change", "step", "erase", "clear"}
    BY <1>1 DEF CallKinds, Start
  <1>3. Frame(t) /\ SeenOK(t)'
    BY <1>2 DEF IInv, ThreadsOK, EntryOK, Begin, Frame, Others, SeenOK
  <1> QED
    BY <1>3, Here, Unwritten, BeginThreads DEF Begin, IInv

LEMMA ReturnInv ==
  ASSUME IInv, NEW t \in Threads, Return(t)
  PROVE  IInv'
  <1>1. Frame(t) /\ SeenOK(t)'
    BY DEF IInv, ThreadsOK, EntryOK, Return, Frame, Others, SeenOK
  <1> QED
    BY <1>1, Here, Unwritten, ReturnThreads DEF Return, IInv

LEMMA GatherFindInv ==
  ASSUME IInv, NEW t \in Threads, GatherFind(t)
  PROVE  IInv'
  <1>1. CASE Present /\ Step(t, "find", "count", "shared") /\ See(t, entry.cnt)
    <2>1. entry.cnt \in Nat /\ entry.cnt <= accesses
      BY <1>1, Here, EntryFacts DEF EntryOK, FrequencyNeverAhead
    <2>2. Frame(t) /\ pc'[t] = "count"
      BY <1>1, <2>1, StepFrame
    <2>3. SeenOK(t)'
      BY <1>1, <2>1, <2>2 DEF GatherFind, SeenOK, See, IInv, EntryOK, Present
    <2>4. ThreadsOK'
      BY <1>1, Here, PlaceFacts, StepThreads DEF GatherFind
    <2> QED
      BY <2>2, <2>3, <2>4, Unwritten DEF GatherFind, IInv
  <1>2. CASE ~Present /\ Step(t, "find", "upgrade", "shared") /\ UNCHANGED seen
    <2>1. Frame(t) /\ pc'[t] = "upgrade"
      BY <1>2, StepFrame
    <2>2. SeenOK(t)'
      BY <1>2, <2>1 DEF GatherFind, SeenOK, Present
    <2>3. ThreadsOK'
      BY <1>2, Here, PlaceFacts, StepThreads DEF GatherFind
    <2> QED
      BY <2>1, <2>2, <2>3, Unwritten DEF GatherFind, IInv
  <1> QED
    BY <1>1, <1>2 DEF GatherFind

\* Under the shared lock: no other thread may have the entry to itself, and
\* what the others have seen of it stays true.
LEMMA GatherCountInv ==
  ASSUME IInv, NEW t \in Threads, GatherCount(t)
  PROVE  IInv'
  <1>1. pc[t] = "count" /\ Present /\ seen[t] <= accesses /\ seen[t] \in Nat
    BY Here DEF GatherCount, Finish, Move, SeenOK, EntryOK
  <1>2. /\ entry' \in [row : Values, cnt : 1 .. MaxCount]
        /\ accesses' \in Nat /\ entry'.cnt <= accesses' /\ entry'.row = entry.row
        /\ accesses <= accesses'
    BY <1>1, Here, Counted DEF GatherCount
  <1>3. Present'
    BY <1>1, <1>2 DEF Present
  <1>4. Frame(t) /\ SeenOK(t)'
    BY FinishFrame DEF GatherCount
  <1>5. ASSUME NEW u \in Others(t) PROVE SeenOK(u)'
    <2>1. u \in Threads /\ SeenOK(u) /\ accesses \in Nat /\ seen[u] \in Nat
      BY DEF Others, IInv, EntryOK
    <2> QED
      BY <1>1, <1>2, <1>3, <1>4, <2>1 DEF SeenOK, Frame, Present
  <1>6. EntryOK'
    BY <1>2, <1>4, <1>5 DEF EntryOK, Frame, Others, FrequencyNeverAhead
  <1>7. entry.row \in Row
    BY Here, EntryFacts
  <1> QED
    BY <1>6, <1>7, Here, FinishThreads DEF GatherCount, IInv

LEMMA UpgradeInv ==
  ASSUME IInv, NEW t \in Threads, UpgradeKeep(t) \/ UpgradeGiveUp(t)
  PROVE  IInv'
  <1>1. CASE UpgradeKeep(t)
    <2>1. Frame(t) /\ pc'[t] = "upgrading" /\ pc[t] = "upgrade" /\ ~Present
      BY <1>1, Here, StepFrame DEF UpgradeKeep, Step, Move, SeenOK
    <2>2. SeenOK(t)'
      BY <1>1, <2>1 DEF UpgradeKeep, SeenOK, Present
    <2>3. ThreadsOK'
      <3>1. call[t].kind = "gather"
        BY <2>1, Here DEF Reaches
      <3> QED
        BY <1>1, <3>1, Here, PlaceFacts, StepThreads DEF UpgradeKeep
    <2> QED
      BY <1>1, <2>1, <2>2, <2>3, Unwritten DEF UpgradeKeep, IInv
  <1>2. CASE UpgradeGiveUp(t)
    <2>1. Frame(t) /\ pc'[t] = "relock" /\ pc[t] = "upgrade"
      BY <1>2, StepFrame DEF UpgradeGiveUp, Step, Move
    <2>2. SeenOK(t)'
      BY <2>1 DEF SeenOK
    <2>3. ThreadsOK'
      <3>1. call[t].kind = "gather"
        BY <2>1, Here DEF Reaches
      <3> QED
        BY <1>2, <3>1, Here, PlaceFacts, StepThreads DEF UpgradeGiveUp
    <2> QED
      BY <1>2, <2>1, <2>2, <2>3, Unwritten DEF UpgradeGiveUp, IInv
  <1> QED
    BY <1>1, <1>2

\* A call that ends with a row or a count in the entry.
LEMMA FinishWritten ==
  ASSUME IInv, NEW t \in Threads, NEW from, NEW r \in {Done} \cup Row,
         from \notin {"idle", "return"}, Finish(t, from, r), MayWrite(t), mu[t] # "none",
         entry' \in [row : Values, cnt : 1 .. MaxCount],
         accesses' \in Nat, entry'.cnt <= accesses'
  PROVE  IInv'
  BY FinishFrame, FinishThreads, Written DEF IInv

\* One that ends and leaves the entry alone.
LEMMA FinishUnwritten ==
  ASSUME IInv, NEW t \in Threads, NEW from, NEW r \in {Done} \cup Row,
         from \notin {"idle", "return"}, Finish(t, from, r), UNCHANGED <<entry, accesses>>
  PROVE  IInv'
  BY FinishFrame, FinishThreads, Unwritten DEF IInv

LEMMA GatherInsertInv ==
  ASSUME IInv, NEW t \in Threads, NEW v \in Values,
         GatherInsert(t, v) \/ GatherRelock(t, v)
  PROVE  IInv'
  <1>1. v \in Row /\ entry.row \in Row
    BY Here, EntryFacts DEF Row
  <1>2. mu[t] # "none"
    BY Here DEF GatherInsert, GatherRelock, Finish, Move, Reaches, MuAt, MuMode
  <1>3. CASE GatherInsert(t, v)
    BY <1>1, <1>2, <1>3, Put, FinishWritten DEF GatherInsert
  <1>4. CASE GatherRelock(t, v) /\ Present
    <2>1. entry.cnt \in Nat /\ entry.cnt <= accesses
      BY <1>4, Here, EntryFacts DEF EntryOK, FrequencyNeverAhead
    <2> QED
      BY <1>1, <1>2, <1>4, <2>1, Here, Counted, FinishWritten DEF GatherRelock
  <1>5. CASE GatherRelock(t, v) /\ ~Present
    BY <1>1, <1>2, <1>5, Put, FinishWritten DEF GatherRelock
  <1> QED
    BY <1>3, <1>4, <1>5

LEMMA LookupInv ==
  ASSUME IInv, NEW t \in Threads, LookupFind(t) \/ LookupCopy(t)
  PROVE  IInv'
  <1>1. entry.row \in Row /\ NoRow \in Row /\ (Present => entry.row \in Nat)
    BY Here, EntryFacts DEF Row, Values
  <1>2. CASE LookupFind(t) /\ Present
    <2>1. Step(t, "find", "copy", "shared") /\ See(t, entry.row)
      BY <1>2 DEF LookupFind
    <2>2. Frame(t) /\ pc'[t] = "copy"
      BY <1>1, <1>2, <2>1, StepFrame
    <2>3. SeenOK(t)'
      BY <1>2, <2>1, <2>2 DEF LookupFind, SeenOK, See, IInv, EntryOK, Present
    <2>4. ThreadsOK'
      BY <1>2, <2>1, Here, PlaceFacts, StepThreads DEF LookupFind
    <2> QED
      BY <1>2, <2>2, <2>3, <2>4, Unwritten DEF LookupFind, IInv
  <1>3. CASE LookupFind(t) /\ ~Present
    BY <1>1, <1>3, FinishUnwritten DEF LookupFind
  <1>4. CASE LookupCopy(t)
    BY <1>1, <1>4, FinishUnwritten DEF LookupCopy
  <1> QED
    BY <1>2, <1>3, <1>4

LEMMA CountInv ==
  ASSUME IInv, NEW t \in Threads, CountFind(t) \/ CountLoad(t)
  PROVE  IInv'
  <1>1. CASE CountFind(t) /\ Present
    <2>1. Step(t, "find", "load", "none") /\ UNCHANGED seen
      BY <1>1 DEF CountFind
    <2>2. Frame(t) /\ pc'[t] = "load"
      BY <2>1, StepFrame
    <2>3. SeenOK(t)'
      BY <1>1, <2>2 DEF CountFind, SeenOK, Present
    <2>4. ThreadsOK'
      BY <1>1, <2>1, Here, PlaceFacts, StepThreads DEF CountFind
    <2> QED
      BY <1>1, <2>2, <2>3, <2>4, Unwritten DEF CountFind, IInv
  <1>2. CASE CountFind(t) /\ ~Present
    BY <1>2, FinishUnwritten DEF CountFind
  <1>3. CASE CountLoad(t)
    BY <1>3, FinishUnwritten DEF CountLoad
  <1> QED
    BY <1>1, <1>2, <1>3

\* A call that writes holds mu().
LEMMA WritersHold ==
  ASSUME IInv, NEW t \in Threads, pc[t] \in {"change", "insert", "step"}
  PROVE  /\ mu[t] # "none"
         /\ call[t] \in Calls
         /\ call[t].kind \in {"update", "scatter", "train"} => call[t].arg \in Values
         /\ call[t].arg \in Row
  <1>1. call[t] \in Calls
    BY Here DEF Reaches, Idle
  <1> QED
    BY <1>1, Here, CallFacts DEF Reaches, MuAt, MuMode

LEMMA ChangeInv ==
  ASSUME IInv, NEW t \in Threads, Change(t)
  PROVE  IInv'
  <1>1. pc[t] = "change" /\ call[t].kind \in {"update", "scatter"}
    BY Here DEF Change, Finish, Step, Move, Reaches
  <1>2. CASE Present
    <2>1. NewRow(t) \in Values
      BY <1>1, <1>2, WritersHold, PlusType, Here, EntryFacts DEF NewRow
    <2>2. Finish(t, "change", Done) /\ PutRow(NewRow(t)) /\ MayWrite(t)
      BY <1>2 DEF Change
    <2>3. mu[t] # "none"
      BY <1>1, WritersHold
    <2> QED
      BY <1>2, <2>1, <2>2, <2>3, Here, Changed, FinishWritten
  <1>3. CASE ~Present
    <2>1. Step(t, "change", "insert", "none") /\ UNCHANGED <<entry, accesses, seen>>
      BY <1>3 DEF Change
    <2>2. Frame(t) /\ pc'[t] = "insert"
      BY <2>1, StepFrame
    <2>3. SeenOK(t)'
      BY <1>3, <2>1, <2>2 DEF SeenOK, Present
    <2>4. ThreadsOK'
      <3>1. Reaches(call[t].kind, "insert")
        BY <1>1, PlaceFacts
      <3> QED
        BY <2>1, <3>1, Here, PlaceFacts, StepThreads
    <2> QED
      BY <2>1, <2>2, <2>3, <2>4, Unwritten DEF IInv
  <1> QED
    BY <1>2, <1>3

LEMMA InsertInv ==
  ASSUME IInv, NEW t \in Threads, NEW v \in Values, Insert(t, v)
  PROVE  IInv'
  <1>1. pc[t] = "insert" /\ Finish(t, "insert", Done) /\ MayWrite(t)
    BY DEF Insert, Finish, Move
  <1>2. call[t].kind \in {"update", "scatter", "import"} /\ mu[t] # "none"
    BY <1>1, Here, WritersHold DEF Reaches
  <1>3. InsertedRow(t, v) \in Row
    BY <1>1, <1>2, WritersHold, PlusType DEF InsertedRow, Row
  <1>4. CASE InsertedRow(t, v) = NoRow
    BY <1>1, <1>4, FinishUnwritten DEF Insert
  <1>5. CASE InsertedRow(t, v) # NoRow
    <2>1. InsertedRow(t, v) \in Values /\ PutEntry(InsertedRow(t, v))
      BY <1>3, <1>5 DEF Insert, Row
    <2> QED
      BY <1>1, <1>2, <2>1, Put, FinishWritten
  <1> QED
    BY <1>4, <1>5

LEMMA TrainInv ==
  ASSUME IInv, NEW t \in Threads, NEW v \in Values, Train(t, v)
  PROVE  IInv'
  <1>1. pc[t] = "step" /\ Finish(t, "step", Done) /\ MayWrite(t)
    BY DEF Train, Finish, Move
  <1>2. call[t].kind = "train" /\ mu[t] # "none" /\ call[t].arg \in Values
    BY <1>1, Here, WritersHold DEF Reaches
  <1>3. CASE Present /\ PutRow(Plus(entry.row, call[t].arg))
    <2>1. Plus(entry.row, call[t].arg) \in Values
      BY <1>2, <1>3, PlusType, Here, EntryFacts
    <2> QED
      BY <1>1, <1>2, <1>3, <2>1, Here, Changed, FinishWritten
  <1>4. CASE PutEntry(Plus(v, call[t].arg))
    <2>1. Plus(v, call[t].arg) \in Values
      BY <1>2, PlusType
    <2> QED
      BY <1>1, <1>2, <1>4, <2>1, Put, FinishWritten
  <1> QED
    BY <1>3, <1>4 DEF Train

LEMMA RemoveInv ==
  ASSUME IInv, NEW t \in Threads, Erase(t) \/ Clear(t)
  PROVE  IInv'
  <1>1. pc[t] \in {"erase", "clear"} /\ MayWrite(t) /\ Remove
    BY DEF Erase, Clear, Finish, Step, Move
  <1>2. mu[t] = "exclusive"
    BY <1>1, Here DEF Reaches, MuAt, MuMode
  <1>3. CASE Erase(t)
    BY <1>1, <1>2, <1>3, FinishFrame, FinishThreads, Removed DEF Erase, IInv
  <1>4. CASE Clear(t)
    <2>1. Step(t, "clear", "insert", "none") /\ UNCHANGED seen
      BY <1>4 DEF Clear
    <2>2. Frame(t) /\ pc'[t] = "insert"
      BY <2>1, StepFrame
    <2>3. SeenOK(t)'
      BY <1>1, <2>2 DEF SeenOK, Remove, Present, Absent
    <2>4. ThreadsOK'
      <3>1. call[t].kind = "import"
        BY <2>1, Here DEF Step, Move, Reaches
      <3> QED
        BY <2>1, <3>1, Here, PlaceFacts, StepThreads
    <2> QED
      BY <1>1, <1>2, <2>2, <2>3, <2>4, Removed DEF IInv
  <1> QED
    BY <1>3, <1>4

LEMMA StutterInv ==
  ASSUME IInv, UNCHANGED vars
  PROVE  IInv'
  BY DEF IInv, ThreadsOK, EntryOK, PlaceOK, Exclusion, SeenOK, Present,
         FrequencyNeverAhead, vars

LEMMA InvNext ==
  ASSUME IInv, [Next]_vars
  PROVE  IInv'
  <1>1. CASE UNCHANGED vars
    BY <1>1, StutterInv
  <1>2. ASSUME NEW t \in Threads, NEW c \in Calls, Begin(t, c) PROVE IInv'
    BY <1>2, BeginInv
  <1>3. ASSUME NEW t \in Threads, NEW v \in Values,
               GatherInsert(t, v) \/ GatherRelock(t, v) \/ Insert(t, v) \/ Train(t, v)
        PROVE IInv'
    BY <1>3, GatherInsertInv, InsertInv, TrainInv
  <1>4. ASSUME NEW t \in Threads,
               \/ GatherFind(t) \/ GatherCount(t) \/ UpgradeKeep(t) \/ UpgradeGiveUp(t)
               \/ LookupFind(t) \/ LookupCopy(t) \/ CountFind(t) \/ CountLoad(t)
               \/ Change(t) \/ Erase(t) \/ Clear(t) \/ Return(t)
        PROVE IInv'
    BY <1>4, GatherFindInv, GatherCountInv, UpgradeInv, LookupInv, CountInv, ChangeInv,
       RemoveInv, ReturnInv
  <1> QED
    BY <1>1, <1>2, <1>3, <1>4 DEF Next, Proceed

-----------------------------------------------------------------------------

\* What the threads hold and have seen is kept by every step.
THEOREM Invariance == Spec => []IInv
  BY InvInit, InvNext, PTL DEF Spec

\* A thread that found the entry and goes on using it finds it there, however
\* many threads delete, import, insert and count meanwhile: the segment's lock
\* keeps a row while it is copied or counted, and mu(), shared, keeps the entry
\* GetCount has a bare pointer to.
THEOREM PointersValid == Spec => []PointersStayValid
  BY Invariance, InvPointers, PTL

\* No thread stores a frequency it read from an earlier entry: while a lookup
\* counts, the lock it shares keeps everybody from replacing the entry.
THEOREM NeverAhead == Spec => []FrequencyNeverAhead
  BY Invariance, InvFrequency, PTL

-----------------------------------------------------------------------------
(***************************************************************************)
(* Every call takes effect in one step, for any number of threads and of   *)
(* calls: each step between the lock operations of KvKeyLocks is a step of *)
(* KvAtomic or changes nothing that a caller can see.                      *)
(***************************************************************************)

\* The two modules have the calls in common.
LEMMA SameCalls ==
  /\ Atomic!Idle = Idle /\ Atomic!Values = Values /\ Atomic!Calls = Calls
  /\ \A v, d : Atomic!Plus(v, d) = Plus(v, d)
  BY DEF Atomic!Idle, Idle, Atomic!Values, Values, Atomic!Plus, Plus, Atomic!Calls, Calls,
         Atomic!Arguments, Arguments, Atomic!Row, Row, Atomic!Values, Values

LEMMA MissedAfter ==
  ASSUME NEW t \in Threads, \A u \in Threads \ {t} : pc'[u] = pc[u]
  PROVE  /\ pc'[t] # "insert" => Missed' = [Missed EXCEPT ![t] = FALSE]
         /\ pc'[t] = "insert" => Missed' = [Missed EXCEPT ![t] = TRUE]
         /\ (pc[t] = "insert" <=> pc'[t] = "insert") => Missed' = Missed
  BY Zenon DEF Missed

\* A thread moves, and no other.
LEMMA MovedAlone ==
  ASSUME IInv, NEW t \in Threads, NEW to, pc' = [pc EXCEPT ![t] = to]
  PROVE  pc'[t] = to /\ \A u \in Threads \ {t} : pc'[u] = pc[u]
  BY DEF IInv, ThreadsOK

\* The last step of a call is its effect, if nobody saw it before.
LEMMA EffectSeen ==
  ASSUME IInv, NEW t \in Threads, NEW from, NEW r, from # "return", Finish(t, from, r)
  PROVE  /\ pc[t] = from /\ reply[t] = NoReply
         /\ Atomic!Effect(t, entry'.row, r)
  <1>1. pc[t] = from /\ reply[t] = NoReply
    BY DEF Finish, Move, IInv, ThreadsOK, PlaceOK
  <1>2. Missed' = [Missed EXCEPT ![t] = FALSE]
    BY MovedAlone, MissedAfter DEF Finish, Move
  <1> QED
    BY <1>1, <1>2 DEF Finish, Move, Atomic!Effect

\* A step in between, which leaves the row alone, is not seen.
LEMMA StepUnseen ==
  ASSUME IInv, NEW t \in Threads, NEW from, NEW to, NEW mode,
         from # "insert", to # "insert", Step(t, from, to, mode), entry' = entry
  PROVE  UNCHANGED Atomic!vars
  <1>1. Missed' = Missed
    BY MovedAlone, MissedAfter DEF Step, Move
  <1> QED
    BY <1>1 DEF Step, Move, Atomic!vars

\* The step in which a call finds, or makes, that there is no row.
LEMMA MissSeen ==
  ASSUME IInv, NEW t \in Threads, NEW from, NEW mode, from # "insert", from # "return",
         Step(t, from, "insert", mode), entry'.row = NoRow,
         \/ call[t].kind \in {"update", "scatter"} /\ entry.row = NoRow
         \/ call[t].kind = "import"
  PROVE  Atomic!Miss(t)
  <1>1. pc[t] = from /\ reply[t] = NoReply
    BY DEF Step, Move, IInv, ThreadsOK, PlaceOK
  <1>2. Missed' = [Missed EXCEPT ![t] = TRUE] /\ ~Missed[t]
    BY <1>1, MovedAlone, MissedAfter DEF Step, Move, Missed
  <1> QED
    BY <1>1, <1>2 DEF Step, Move, Atomic!Miss, Atomic!Pending

-----------------------------------------------------------------------------
(* The steps of KvKeyLocks. *)

AtomicStep(t) ==
  \/ \E c \in Calls : Atomic!Begin(t, c)
  \/ Atomic!Gather(t) \/ Atomic!Lookup(t) \/ Atomic!Count(t) \/ Atomic!Update(t)
  \/ Atomic!Add(t) \/ Atomic!AddToNew(t) \/ Atomic!Delete(t) \/ Atomic!Miss(t)
  \/ Atomic!Fill(t) \/ Atomic!Return(t)

LEMMA BeginSeen ==
  ASSUME IInv, NEW t \in Threads, NEW c \in Calls, Begin(t, c)
  PROVE  Atomic!Begin(t, c)
  <1>1. c.kind \in CallKinds
    BY CallFacts
  <1>2. Start(c.kind) \in {"find", "change", "step", "erase", "clear"}
    BY <1>1 DEF CallKinds, Start
  <1>3. Missed' = Missed
    BY <1>2, MovedAlone, MissedAfter DEF Begin
  <1>4. call[t] = Idle
    <2>1. call[t].kind = "idle"
      BY Here DEF Begin, Reaches
    <2> QED
      BY <2>1, Here, CallFacts
  <1> QED
    BY <1>3, <1>4, SameCalls DEF Begin, Atomic!Begin

LEMMA ReturnSeen ==
  ASSUME IInv, NEW t \in Threads, Return(t)
  PROVE  Atomic!Return(t)
  <1>1. reply[t] # NoReply
    BY DEF Return, IInv, ThreadsOK, PlaceOK
  <1>2. Missed' = Missed
    <2>1. pc[t] # "insert" /\ pc' = [pc EXCEPT ![t] = "idle"]
      BY DEF Return
    <2> QED
      BY <2>1, MovedAlone, MissedAfter
  <1> QED
    BY <1>1, <1>2, SameCalls DEF Return, Atomic!Return

\* Whoever counts finds the row there; whoever upgrades without giving the
\* lock up finds none.
LEMMA GatherSeen ==
  ASSUME IInv, NEW t \in Threads, NEW v \in Values,
         GatherCount(t) \/ GatherInsert(t, v) \/ GatherRelock(t, v)
  PROVE  Atomic!Gather(t)
  <1>1. PICK from \in {"count", "upgrading", "relock"} : \E r : Finish(t, from, r)
    BY DEF GatherCount, GatherInsert, GatherRelock
  <1>2. pc[t] = from /\ reply[t] = NoReply
    BY <1>1, EffectSeen
  <1>3. Atomic!Pending(t, {"gather"})
    BY <1>2, Here DEF Reaches, Atomic!Pending
  <1>4. CASE GatherCount(t)
    <2>1. entry.row # NoRow
      BY <1>4, Here DEF GatherCount, Finish, Move, SeenOK, Present
    <2>2. entry'.row = entry.row
      BY <1>4, <2>1, Here, EntryFacts DEF GatherCount, PutCount, Present
    <2> QED
      BY <1>3, <1>4, <2>1, <2>2, EffectSeen DEF GatherCount, Atomic!Gather
  <1>5. CASE GatherInsert(t, v)
    <2>1. entry.row = NoRow
      BY <1>5, Here DEF GatherInsert, Finish, Move, SeenOK, Present
    <2>2. Finish(t, "upgrading", v) /\ entry'.row = v
      BY <1>5, Put DEF GatherInsert
    <2>3. Atomic!Effect(t, v, v)
      BY <2>2, EffectSeen
    <2> QED
      BY <1>3, <2>1, <2>3, SameCalls DEF Atomic!Gather
  <1>6. CASE GatherRelock(t, v) /\ Present
    <2>1. entry'.row = entry.row
      BY <1>6, Here, EntryFacts DEF GatherRelock, PutCount, Present
    <2> QED
      BY <1>3, <1>6, <2>1, EffectSeen DEF GatherRelock, Atomic!Gather, Present
  <1>7. CASE GatherRelock(t, v) /\ ~Present
    <2>1. Finish(t, "relock", v) /\ entry'.row = v
      BY <1>7, Put DEF GatherRelock
    <2>2. Atomic!Effect(t, v, v)
      BY <2>1, EffectSeen
    <2> QED
      BY <1>3, <1>7, <2>2, SameCalls DEF Atomic!Gather, Present
  <1> QED
    BY <1>4, <1>5, <1>6, <1>7

LEMMA LookupSeen ==
  ASSUME IInv, NEW t \in Threads,
         LookupCopy(t) \/ (LookupFind(t) /\ ~Present)
  PROVE  Atomic!Lookup(t)
  <1>1. PICK from \in {"find", "copy"} : Finish(t, from, entry.row)
    BY DEF LookupFind, LookupCopy, Present
  <1>2. call[t].kind = "lookup" /\ entry' = entry
    BY Here DEF LookupFind, LookupCopy, Finish, Move, Reaches
  <1> QED
    BY <1>1, <1>2, EffectSeen DEF Atomic!Lookup, Atomic!Pending

LEMMA CountSeen ==
  ASSUME IInv, NEW t \in Threads,
         CountLoad(t) \/ (CountFind(t) /\ ~Present)
  PROVE  Atomic!Count(t)
  <1>1. PICK from \in {"find", "load"} : Finish(t, from, Done)
    BY DEF CountFind, CountLoad
  <1>2. call[t].kind = "count" /\ entry' = entry
    BY Here DEF CountFind, CountLoad, Finish, Move, Reaches
  <1> QED
    BY <1>1, <1>2, EffectSeen DEF Atomic!Count, Atomic!Pending

\* Steps that only look.
LEMMA LookingUnseen ==
  ASSUME IInv, NEW t \in Threads,
         \/ GatherFind(t) \/ UpgradeKeep(t) \/ UpgradeGiveUp(t)
         \/ (LookupFind(t) /\ Present) \/ (CountFind(t) /\ Present)
  PROVE  UNCHANGED Atomic!vars
  BY StepUnseen DEF GatherFind, UpgradeKeep, UpgradeGiveUp, LookupFind, CountFind

LEMMA ChangeSeen ==
  ASSUME IInv, NEW t \in Threads, Change(t)
  PROVE  Atomic!Update(t) \/ Atomic!Add(t) \/ Atomic!Miss(t)
  <1>1. pc[t] = "change" /\ call[t].kind \in {"update", "scatter"}
    BY Here DEF Change, Finish, Step, Move, Reaches
  <1>2. CASE Present
    <2>1. Finish(t, "change", Done) /\ PutRow(NewRow(t))
      BY <1>2 DEF Change
    <2>2. entry'.row = NewRow(t)
      BY <1>2, <2>1, Here, EntryFacts DEF PutRow
    <2>3. Atomic!Effect(t, NewRow(t), Done) /\ reply[t] = NoReply
      BY <2>1, <2>2, EffectSeen
    <2> QED
      BY <1>1, <1>2, <2>3, SameCalls
      DEF NewRow, Present, Atomic!Update, Atomic!Add, Atomic!Pending
  <1>3. CASE ~Present
    <2>1. Step(t, "change", "insert", "none") /\ entry' = entry
      BY <1>3 DEF Change
    <2> QED
      BY <1>1, <1>3, <2>1, MissSeen DEF Present
  <1> QED
    BY <1>2, <1>3

LEMMA InsertSeen ==
  ASSUME IInv, NEW t \in Threads, NEW v \in Values, Insert(t, v)
  PROVE  Atomic!Update(t) \/ Atomic!AddToNew(t) \/ Atomic!Fill(t)
  <1>1. pc[t] = "insert" /\ Finish(t, "insert", Done) /\ Missed[t]
    BY DEF Insert, Finish, Move, Missed
  <1>2. call[t].kind \in {"update", "scatter", "import"}
    BY <1>1, Here DEF Reaches
  <1>3. call[t].kind = "import" => entry.row = NoRow
    BY <1>1, Here DEF SeenOK, Present
  <1>4. entry'.row = InsertedRow(t, v)
    <2>1. CASE InsertedRow(t, v) = NoRow
      <3>1. call[t].kind = "import"
        BY <1>1, <1>2, <2>1, WritersHold, PlusType, CallsAssumption DEF InsertedRow, Values
      <3> QED
        BY <1>3, <2>1, <3>1 DEF Insert
    <2>2. CASE InsertedRow(t, v) # NoRow
      BY <2>2 DEF Insert, PutEntry
    <2> QED
      BY <2>1, <2>2
  <1>5. Atomic!Effect(t, InsertedRow(t, v), Done) /\ reply[t] = NoReply
    BY <1>1, <1>4, EffectSeen
  <1>6. CASE call[t].kind = "scatter"
    BY <1>1, <1>5, <1>6, SameCalls DEF InsertedRow, Atomic!AddToNew, Atomic!Pending
  <1>7. CASE call[t].kind = "update"
    BY <1>1, <1>5, <1>7 DEF InsertedRow, Atomic!Update, Atomic!Pending
  <1>8. CASE call[t].kind = "import"
    BY <1>1, <1>3, <1>5, <1>8 DEF InsertedRow, Atomic!Fill, Atomic!Pending
  <1> QED
    BY <1>2, <1>6, <1>7, <1>8

LEMMA TrainSeen ==
  ASSUME IInv, NEW t \in Threads, NEW v \in Values, Train(t, v)
  PROVE  Atomic!Add(t) \/ Atomic!AddToNew(t)
  <1>1. pc[t] = "step" /\ Finish(t, "step", Done)
    BY DEF Train, Finish, Move
  <1>2. call[t].kind = "train"
    BY <1>1, Here DEF Reaches
  <1>3. CASE Present
    <2>1. entry'.row = Plus(entry.row, call[t].arg)
      BY <1>3, Here, EntryFacts DEF Train, PutRow
    <2> QED
      BY <1>1, <1>2, <1>3, <2>1, EffectSeen, SameCalls
      DEF Present, Atomic!Add, Atomic!Pending
  <1>4. CASE ~Present
    <2>1. entry'.row = Plus(v, call[t].arg)
      BY <1>4 DEF Train, PutEntry
    <2>2. Atomic!Effect(t, Plus(v, call[t].arg), Done) /\ reply[t] = NoReply
      BY <1>1, <2>1, EffectSeen
    <2> QED
      BY <1>2, <1>4, <2>2, SameCalls DEF Present, Atomic!AddToNew, Atomic!Pending
  <1> QED
    BY <1>3, <1>4

LEMMA RemoveSeen ==
  ASSUME IInv, NEW t \in Threads, Erase(t) \/ Clear(t)
  PROVE  Atomic!Delete(t) \/ Atomic!Miss(t)
  <1>1. entry'.row = NoRow
    BY DEF Erase, Clear, Remove, Absent
  <1>2. CASE Erase(t)
    <2>1. call[t].kind = "delete" /\ Finish(t, "erase", Done)
      BY <1>2, Here DEF Erase, Finish, Move, Reaches
    <2> QED
      BY <1>1, <2>1, EffectSeen DEF Atomic!Delete, Atomic!Pending
  <1>3. CASE Clear(t)
    <2>1. call[t].kind = "import" /\ Step(t, "clear", "insert", "none")
      BY <1>3, Here DEF Clear, Step, Move, Reaches
    <2> QED
      BY <1>1, <2>1, MissSeen
  <1> QED
    BY <1>2, <1>3

-----------------------------------------------------------------------------
(* The specification. *)

LEMMA InitSeen == Init => Atomic!Init
  <1> SUFFICES ASSUME Init PROVE Atomic!Init
    OBVIOUS
  <1>1. \A t \in Threads : pc[t] # "insert"
    BY DEF Init
  <1>2. Missed = [t \in Threads |-> FALSE]
    BY <1>1, Zenon DEF Missed
  <1> QED
    BY <1>2, SameCalls DEF Init, Atomic!Init, Absent

LEMMA StepSeen ==
  ASSUME IInv, [Next]_vars
  PROVE  [Atomic!Next]_(Atomic!vars)
  <1>1. CASE UNCHANGED vars
    BY <1>1 DEF vars, Atomic!vars, Missed
  <1>2. ASSUME NEW t \in Threads, AtomicStep(t) PROVE Atomic!Next
    BY <1>2, SameCalls DEF AtomicStep, Atomic!Next
  <1>3. ASSUME NEW t \in Threads, NEW c \in Calls, Begin(t, c) PROVE Atomic!Next
    BY <1>2, <1>3, BeginSeen DEF AtomicStep
  <1>4. ASSUME NEW t \in Threads, NEW v \in Values,
               GatherInsert(t, v) \/ GatherRelock(t, v) \/ Insert(t, v) \/ Train(t, v)
        PROVE Atomic!Next
    BY <1>2, <1>4, GatherSeen, InsertSeen, TrainSeen DEF AtomicStep
  <1>5. ASSUME NEW t \in Threads, GatherCount(t) PROVE Atomic!Next
    <2>1. 0 \in Values
      BY CallsAssumption DEF Values
    <2> QED
      BY <1>2, <1>5, <2>1, GatherSeen DEF AtomicStep
  <1>6. ASSUME NEW t \in Threads,
               LookupFind(t) \/ LookupCopy(t) \/ CountFind(t) \/ CountLoad(t)
        PROVE [Atomic!Next]_(Atomic!vars)
    BY <1>2, <1>6, LookupSeen, CountSeen, LookingUnseen DEF AtomicStep
  <1>7. ASSUME NEW t \in Threads, GatherFind(t) \/ UpgradeKeep(t) \/ UpgradeGiveUp(t)
        PROVE UNCHANGED Atomic!vars
    BY <1>7, LookingUnseen
  <1>8. ASSUME NEW t \in Threads, Change(t) \/ Erase(t) \/ Clear(t) \/ Return(t)
        PROVE Atomic!Next
    BY <1>2, <1>8, ChangeSeen, RemoveSeen, ReturnSeen DEF AtomicStep
  <1> QED
    BY <1>1, <1>3, <1>4, <1>5, <1>6, <1>7, <1>8 DEF Next, Proceed

\* However many threads call, each call on the key takes effect at one moment
\* between its beginning and its return, or in the two halves KvAtomic allows:
\* the upgrade that fails and looks the key up again, the counting under a
\* shared lock and the lookups without mu() cannot be told from that.
THEOREM AtomicCalls == Spec => CallsAreAtomic
  BY InitSeen, StepSeen, Invariance, PTL DEF Spec, CallsAreAtomic, Atomic!Spec
=============================================================================
