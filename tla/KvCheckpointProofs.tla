------------------------- MODULE KvCheckpointProofs -------------------------
(***************************************************************************)
(* What is restored from checkpoints is what was saved, and what is served *)
(* is what was trained, for every set of keys, threshold and cut-off and   *)
(* any sequence of exports, failed saves and restarts.                     *)
(***************************************************************************)
EXTENDS KvCheckpoint, FiniteSetTheorems, TLAPS

\* A variable whose changes are recorded (SUPPORT_DELTA_EXPORT), and which
\* its saver may export with the default cut-off.
DeltasRecorded ==
  /\ IsFiniteSet(Keys)
  /\ SupportDelta
  /\ DefaultCutoff \in Cutoffs

\* under_threshold_ says no more than the last cut-off that was applied, and
\* of a blacklisted key that was in the table before, always that it is under.
Judged(e, r, c) ==
  e # Absent =>
    /\ e.black => e.val = 0 /\ (r = "serving" => e.under)
    /\ ~e.black /\ e.under => e.val < c

\* The reader has judged every key it has by the default cut-off; a key it
\* has blacklisted without ever having it is not under it.
CopyJudged(e) == Judged(e, "restart", DefaultCutoff)

\* The inductive invariant.
IInv ==
  /\ CheckpointFaithful
  /\ SupportPrediction => ServedFaithful
  /\ DefaultCutoff <= strictest
  /\ \A k \in Keys : Judged(store[k], reader, strictest) /\ CopyJudged(copy[k])

-----------------------------------------------------------------------------
(* Entries. *)

LEMMA NumberFacts ==
  /\ 0 \in Values /\ 0 \in Counts /\ 1 \in Counts
  /\ Values \subseteq Int /\ Counts \subseteq Int /\ Cutoffs \subseteq Int
  /\ DefaultCutoff = 1
  /\ None \notin Values /\ None \notin Counts
  BY ConstantsAssumption DEF Values, Counts, DefaultCutoff, None

LEMMA NewEntryFacts ==
  ASSUME NEW v \in Values, NEW c \in Counts, NEW r, NEW s \in Cutoffs, DefaultCutoff <= s
  PROVE  /\ NewEntry(v, c) \in Entry /\ NewEntry(v, c) # Absent
         /\ NewEntry(v, c).val = v /\ ~NewEntry(v, c).black /\ NewEntry(v, c).cnt = c
         /\ Judged(NewEntry(v, c), r, s)
  <1> DEFINE e == NewEntry(v, c)
             u == v < DefaultCutoff
  <1>1. u \in BOOLEAN /\ (u => v < s)
    BY NumberFacts
  <1>2. e = [val |-> v, black |-> FALSE, under |-> u, cnt |-> c]
    BY DEF NewEntry
  <1> HIDE DEF e, u
  <1>3. e \in Entry /\ e.val = v /\ e.black = FALSE /\ e.under = u /\ e.cnt = c
    BY <1>1, <1>2 DEF Entry
  <1>4. e # Absent
    BY <1>3, AbsentAssumption
  <1>5. Judged(e, r, s)
    BY <1>1, <1>3 DEF Judged
  <1> QED
    BY <1>3, <1>4, <1>5 DEF e

LEMMA WriteFacts ==
  ASSUME NEW e \in Entry, NEW v \in Values, NEW r, NEW s \in Cutoffs, DefaultCutoff <= s
  PROVE  /\ Write(e, v) \in Entry
         /\ Judged(Write(e, v), r, s)
  <1> DEFINE w == Write(e, v)
             u == UnderThreshold(e.black, v, DefaultCutoff)
             x == IF e.black THEN 0 ELSE v
  <1>1. x \in Values /\ u \in BOOLEAN /\ (e.black => x = 0 /\ u) /\ (~e.black /\ u => x < s)
    BY NumberFacts DEF UnderThreshold, Entry
  <1>2. w = [e EXCEPT !.val = x, !.under = u]
    BY DEF Write
  <1> HIDE DEF w, u, x
  <1>3. w \in Entry /\ w.val = x /\ w.black = e.black /\ w.under = u
    BY <1>1, <1>2 DEF Entry
  <1>4. Judged(w, r, s)
    BY <1>1, <1>3 DEF Judged
  <1> QED
    BY <1>3, <1>4 DEF w

LEMMA CountFacts ==
  ASSUME NEW e \in Entry, NEW c \in Counts
  PROVE  /\ [e EXCEPT !.cnt = SaturateAdd(@, c)] \in Entry
         /\ SaturateAdd(e.cnt, c) \in Counts
  BY ConstantsAssumption DEF SaturateAdd, Counts, Entry

LEMMA BlackEntryFacts ==
  ASSUME NEW e \in Entry \cup {Absent}, NEW s, CopyJudged(e)
  PROVE  /\ BlackEntry(e) \in Entry /\ BlackEntry(e) # Absent
         /\ BlackEntry(e).black /\ BlackEntry(e).val = 0
         /\ Judged(BlackEntry(e), "restart", s)
  <1>1. CASE e = Absent
    <2> DEFINE b == [val |-> 0, black |-> TRUE, under |-> FALSE, cnt |-> 1]
    <2>1. BlackEntry(e) = b
      BY <1>1 DEF BlackEntry
    <2>2. b \in Entry /\ b.black = TRUE /\ b.val = 0
      BY NumberFacts DEF Entry
    <2> HIDE DEF b
    <2> QED
      BY <2>1, <2>2, AbsentAssumption DEF Judged
  <1>2. CASE e \in Entry
    BY <1>2, NumberFacts, AbsentAssumption DEF BlackEntry, Entry, Judged, CopyJudged
  <1> QED
    BY <1>1, <1>2

LEMMA WithCountFacts ==
  ASSUME NEW e \in Entry \cup {Absent}, NEW c \in Counts \cup {None}
  PROVE  /\ WithCount(e, c) \in Entry \cup {Absent}
         /\ WithCount(e, c) = Absent <=> e = Absent
         /\ e # Absent => /\ WithCount(e, c).val = e.val
                          /\ WithCount(e, c).black = e.black
                          /\ WithCount(e, c).under = e.under
                          /\ c # None => WithCount(e, c).cnt = c
                          /\ c = None => WithCount(e, c).cnt = e.cnt
  BY AbsentAssumption DEF WithCount, Entry

-----------------------------------------------------------------------------
(* Steps on one key. *)

LEMMA IInvFacts ==
  ASSUME IInv, NEW k \in Keys
  PROVE  /\ store[k] \in Entry \cup {Absent} /\ copy[k] \in Entry \cup {Absent}
         /\ strictest \in Cutoffs /\ strictest \in Int /\ DefaultCutoff <= strictest
         /\ Judged(store[k], reader, strictest) /\ CopyJudged(copy[k])
  BY NumberFacts DEF IInv, CheckpointFaithful, CheckpointTypeOK, TypeOK, Tables

\* A step that makes e of key k's entry.
LEMMA BecomeKeepsInvariant ==
  ASSUME DeltasRecorded, IInv, NEW k \in Keys, NEW e \in Entry \cup {Absent},
         Judged(e, reader, strictest), Become(k, e), ReaderUnchanged
  PROVE  IInv'
  <1>1. /\ store' \in Tables
        /\ store'[k] = e
        /\ \A j \in Keys : j # k => store'[j] = store[j]
    BY DEF Become, IInv, CheckpointFaithful, CheckpointTypeOK, TypeOK, Tables
  <1>2. /\ train' = train \cup {k} /\ pred' = pred
        /\ UNCHANGED <<reader, copy, lost, strictest>>
    BY DEF Become, Marked, DeltasRecorded, ReaderUnchanged
  <1>3. CheckpointTypeOK'
    BY <1>1, <1>2 DEF IInv, CheckpointFaithful, CheckpointTypeOK, TypeOK
  <1>4. CheckpointFaithful'
    BY <1>1, <1>2, <1>3 DEF IInv, CheckpointFaithful, Faithful, Same
  <1>5. ServedFaithful => ServedFaithful'
    BY <1>1, <1>2 DEF ServedFaithful, Faithful, Same
  <1>6. \A j \in Keys : Judged(store'[j], reader, strictest) /\ CopyJudged(copy'[j])
    BY <1>1, <1>2 DEF IInv
  <1> QED
    BY <1>2, <1>4, <1>5, <1>6 DEF IInv

LEMMA GatherJudged ==
  ASSUME IInv, NEW k \in Keys, NEW c \in Counts, NEW v \in Values, Gather(k, c, v)
  PROVE  \E e \in Entry \cup {Absent} : Judged(e, reader, strictest) /\ Become(k, e)
  <1>1. CASE ~Present(k)
    BY <1>1, IInvFacts, NewEntryFacts DEF Gather
  <1>2. CASE Present(k)
    <2> DEFINE e == [store[k] EXCEPT
                       !.cnt = SaturateAdd(@, c),
                       !.under = UnderThreshold(store[k].black, store[k].val, DefaultCutoff)]
    <2>1. store[k] \in Entry /\ store[k] # Absent
      BY <1>2, IInvFacts DEF Present
    <2>2. SaturateAdd(store[k].cnt, c) \in Counts
      BY <2>1, CountFacts
    <2>3. /\ e \in Entry /\ e.val = store[k].val /\ e.black = store[k].black
          /\ e.under = UnderThreshold(store[k].black, store[k].val, DefaultCutoff)
      BY <2>1, <2>2, NumberFacts DEF Entry, UnderThreshold
    <2>4. Become(k, e)
      BY <1>2 DEF Gather
    <2> HIDE DEF e
    <2>5. Judged(e, reader, strictest)
      <3>1. e.black => e.val = 0 /\ e.under
        BY <2>1, <2>3, IInvFacts DEF Judged, UnderThreshold
      <3>2. ~e.black /\ e.under => e.val < DefaultCutoff
        BY <2>1, <2>3 DEF UnderThreshold
      <3>3. e.val \in Int /\ strictest \in Int /\ DefaultCutoff <= strictest
        BY <2>3, IInvFacts, NumberFacts DEF Entry
      <3>4. ~e.black /\ e.under => e.val < strictest
        BY <3>2, <3>3, NumberFacts
      <3> QED
        BY <3>1, <3>4 DEF Judged
    <2> QED
      BY <2>3, <2>4, <2>5
  <1> QED
    BY <1>1, <1>2

LEMMA WritesJudged ==
  ASSUME IInv, NEW k \in Keys, NEW v \in Values, InsertOrUpdate(k, v) \/ ScatterUpdate(k, v)
  PROVE  \E e \in Entry \cup {Absent} : Judged(e, reader, strictest) /\ Become(k, e)
  <1>1. CASE Become(k, NewEntry(v, 1))
    BY <1>1, IInvFacts, NumberFacts, NewEntryFacts
  <1>2. CASE Present(k) /\ Become(k, Write(store[k], v))
    <2>1. store[k] \in Entry
      BY <1>2, IInvFacts DEF Present
    <2> QED
      BY <1>2, <2>1, IInvFacts, WriteFacts
  <1>3. CASE Become(k, store[k])
    BY <1>3, IInvFacts
  <1>4. CASE InsertOrUpdate(k, v)
    BY <1>1, <1>2, <1>4 DEF InsertOrUpdate
  <1>5. CASE ScatterUpdate(k, v)
    BY <1>1, <1>2, <1>3, <1>5 DEF ScatterUpdate
  <1> QED
    BY <1>4, <1>5

LEMMA TrainBaseFacts ==
  ASSUME IInv, NEW k \in Keys, NEW i \in Values
  PROVE  TrainBase(k, i) \in Entry /\ ~TrainBase(k, i).black
  <1>1. CASE ~Present(k)
    BY <1>1, IInvFacts, NumberFacts, NewEntryFacts DEF TrainBase
  <1>2. CASE Present(k)
    <2>1. store[k] \in Entry
      BY <1>2, IInvFacts DEF Present
    <2>2. Revive(store[k]) \in Entry /\ ~Revive(store[k]).black
      BY <2>1 DEF Revive, Entry
    <2> QED
      BY <1>2, <2>2 DEF TrainBase
  <1> QED
    BY <1>1, <1>2

LEMMA OptimizersJudged ==
  ASSUME IInv, NEW k \in Keys, NEW i \in Values, NEW v \in Values,
         TrainLasso(k, i) \/ TrainCover(k, i, v) \/ SlotCover(k, i, v)
  PROVE  \E e \in Entry \cup {Absent} : Judged(e, reader, strictest) /\ Become(k, e)
  <1>1. CASE TrainLasso(k, i)
    <2> DEFINE e == BlackEntry(TrainBase(k, i))
    <2> DEFINE t == TrainBase(k, i)
    <2>0. t \in Entry /\ ~t.black /\ t # Absent
      BY TrainBaseFacts, AbsentAssumption
    <2> HIDE DEF t
    <2>1. e \in Entry /\ e.black /\ e.val = 0 /\ e.under
      BY <2>0, NumberFacts DEF BlackEntry, Entry, t
    <2>2. Become(k, e)
      BY <1>1 DEF TrainLasso
    <2> HIDE DEF e
    <2>3. Judged(e, reader, strictest)
      BY <2>1 DEF Judged
    <2> QED
      BY <2>1, <2>2, <2>3
  <1>2. CASE TrainCover(k, i, v)
    BY <1>2, IInvFacts, TrainBaseFacts, WriteFacts DEF TrainCover
  <1>3. CASE SlotCover(k, i, v)
    <2>1. SlotBase(k, i) \in Entry
      <3>1. CASE ~Present(k)
        BY <3>1, IInvFacts, NumberFacts, NewEntryFacts DEF SlotBase
      <3>2. CASE Present(k)
        <4>1. store[k] \in Entry
          BY <3>2, IInvFacts DEF Present
        <4> QED
          BY <3>2, <4>1, NumberFacts, CountFacts DEF SlotBase
      <3> QED
        BY <3>1, <3>2
    <2> QED
      BY <1>3, <2>1, IInvFacts, WriteFacts DEF SlotCover
  <1> QED
    BY <1>1, <1>2, <1>3

LEMMA CoverStepJudged ==
  ASSUME IInv, NEW k \in Keys, CoverStep(k)
  PROVE  \E e \in Entry \cup {Absent} : Judged(e, reader, strictest) /\ Become(k, e)
  <1>1. CASE \E c \in Counts, v \in Values : Gather(k, c, v)
    BY <1>1, GatherJudged
  <1>2. CASE \E v \in Values : InsertOrUpdate(k, v) \/ ScatterUpdate(k, v)
    BY <1>2, WritesJudged
  <1>3. CASE FilteredUpdate(k)
    BY <1>3, IInvFacts DEF FilteredUpdate
  <1>4. CASE Delete(k)
    BY <1>4 DEF Delete, Judged
  <1>5. CASE \E i \in Values : TrainLasso(k, i)
    BY <1>5, NumberFacts, OptimizersJudged
  <1>6. CASE \E i, v \in Values : TrainCover(k, i, v) \/ SlotCover(k, i, v)
    BY <1>6, OptimizersJudged
  <1> QED
    BY <1>1, <1>2, <1>3, <1>4, <1>5, <1>6 DEF CoverStep

LEMMA OperateKeepsInvariant ==
  ASSUME DeltasRecorded, IInv, Operate
  PROVE  IInv'
  <1>1. CASE \E k \in Keys : CoverStep(k)
    BY <1>1, CoverStepJudged, BecomeKeepsInvariant DEF Operate
  <1>2. ASSUME NEW S \in SUBSET Keys, DeleteWithTimestamp(S)
        PROVE  IInv'
    <2>1. /\ store' \in Tables
          /\ \A k \in Keys : store'[k] = IF k \in S THEN Absent ELSE store[k]
      BY <1>2 DEF DeleteWithTimestamp, IInv, CheckpointFaithful, CheckpointTypeOK, TypeOK, Tables
    <2>2. /\ train' = train \cup S /\ pred' = pred
          /\ UNCHANGED <<reader, copy, lost, strictest>>
      BY <1>2 DEF DeleteWithTimestamp, Marked, DeltasRecorded, ReaderUnchanged, Operate
    <2>3. CheckpointTypeOK'
      BY <2>1, <2>2 DEF IInv, CheckpointFaithful, CheckpointTypeOK, TypeOK
    <2>4. CheckpointFaithful'
      BY <2>1, <2>2, <2>3 DEF IInv, CheckpointFaithful, Faithful, Same
    <2>5. ServedFaithful => ServedFaithful'
      BY <2>1, <2>2 DEF ServedFaithful, Faithful, Same
    <2>6. \A k \in Keys : Judged(store'[k], reader, strictest) /\ CopyJudged(copy'[k])
      BY <2>1, <2>2 DEF IInv, Judged
    <2> QED
      BY <2>2, <2>4, <2>5, <2>6 DEF IInv
  <1> QED
    BY <1>1, <1>2 DEF Operate

LEMMA BlacklistKeepsInvariant ==
  ASSUME DeltasRecorded, IInv, Blacklist, reader = "restart"
  PROVE  IInv'
  <1>1. PICK k \in Keys : MarkBlacklist(k)
    BY DEF Blacklist
  <1> DEFINE e == BlackEntry(store[k])
  <1>2. Become(k, e)
    BY <1>1 DEF MarkBlacklist
  <1>3. e \in Entry /\ Judged(e, reader, strictest)
    <2>1. CASE store[k] = Absent
      BY <2>1, BlackEntryFacts DEF CopyJudged, Judged
    <2>2. CASE store[k] # Absent /\ store[k].black
      BY <2>2, IInvFacts DEF BlackEntry
    <2>3. CASE store[k] # Absent /\ ~store[k].black
      <3>1. store[k] \in Entry
        BY <2>3, IInvFacts
      <3>2. e = [store[k] EXCEPT !.val = 0, !.black = TRUE, !.under = TRUE]
        BY <2>3 DEF BlackEntry
      <3> HIDE DEF e
      <3>3. e \in Entry /\ e.black /\ e.val = 0 /\ e.under
        BY <3>1, <3>2, NumberFacts DEF Entry
      <3> QED
        BY <3>3 DEF Judged
    <2> QED
      BY <2>1, <2>2, <2>3
  <1> HIDE DEF e
  <1> QED
    BY <1>2, <1>3, BecomeKeepsInvariant DEF Blacklist

LEMMA RestartKeepsInvariant ==
  ASSUME DeltasRecorded, IInv, Restart
  PROVE  IInv'
  <1>1. CheckpointTypeOK'
    BY DEF Restart, DeltasRecorded, IInv, CheckpointFaithful, CheckpointTypeOK, TypeOK
  <1>2. CheckpointFaithful'
    BY <1>1 DEF Restart, CheckpointFaithful, Faithful, Same
  <1>3. ServedFaithful'
    BY DEF Restart, ServedFaithful
  <1>4. \A k \in Keys : Judged(store'[k], reader', strictest') /\ CopyJudged(copy'[k])
    BY DEF Restart, IInv, CopyJudged
  <1> QED
    BY <1>2, <1>3, <1>4, NumberFacts DEF Restart, IInv

-----------------------------------------------------------------------------
(* What a reader makes of one key. *)

LEMMA ImportedFacts ==
  ASSUME NEW p, NEW k \in Keys, p.vals[k] \in Values \cup {None},
         p.freq[k] \in Counts \cup {None}
  PROVE  LET r == Imported(p)[k]
         IN /\ r \in Entry \cup {Absent} /\ CopyJudged(r)
            /\ k \in p.black => r # Absent /\ r.black /\ r.val = 0
            /\ k \notin p.black => r = Absent <=> p.vals[k] = None
            /\ k \notin p.black /\ r # Absent => r.val = p.vals[k] /\ ~r.black
            /\ p.freq[k] # None /\ r # Absent => r.cnt = p.freq[k]
  <1> DEFINE b == [val |-> p.vals[k], black |-> FALSE, under |-> FALSE, cnt |-> 1]
             e == IF p.vals[k] = None THEN Absent ELSE b
             l == IF k \in p.black THEN BlackEntry(e) ELSE e
             r == WithCount(l, p.freq[k])
  <1>1. Imported(p)[k] = r
    BY DEF Imported
  <1>2. /\ e \in Entry \cup {Absent} /\ CopyJudged(e)
        /\ e = Absent <=> p.vals[k] = None
        /\ e # Absent => e.val = p.vals[k] /\ ~e.black
    <2>1. CASE p.vals[k] = None
      BY <2>1 DEF CopyJudged, Judged
    <2>2. CASE p.vals[k] # None
      <3>1. b.val = p.vals[k] /\ b.black = FALSE /\ b.under = FALSE
        OBVIOUS
      <3>2. b \in Entry
        BY <2>2, NumberFacts DEF Entry
      <3>3. e = b
        BY <2>2
      <3> HIDE DEF b, e
      <3> QED
        BY <2>2, <3>1, <3>2, <3>3, AbsentAssumption DEF CopyJudged, Judged
    <2> QED
      BY <2>1, <2>2
  <1> HIDE DEF e
  <1>3. /\ l \in Entry \cup {Absent} /\ CopyJudged(l)
        /\ k \in p.black => l # Absent /\ l.black /\ l.val = 0
        /\ k \notin p.black => l = e
    BY <1>2, BlackEntryFacts DEF CopyJudged
  <1> HIDE DEF l
  <1>4. /\ r \in Entry \cup {Absent} /\ (r = Absent <=> l = Absent)
        /\ r # Absent => /\ r.val = l.val /\ r.black = l.black /\ r.under = l.under
                         /\ p.freq[k] # None => r.cnt = p.freq[k]
    BY <1>3, WithCountFacts
  <1> HIDE DEF r
  <1>5. CopyJudged(r)
    BY <1>3, <1>4 DEF CopyJudged, Judged
  <1> QED
    BY <1>1, <1>2, <1>3, <1>4, <1>5

LEMMA DeltaAppliedFacts ==
  ASSUME NEW t, NEW d, NEW n, NEW k \in Keys, t[k] \in Entry \cup {Absent}, CopyJudged(t[k]),
         d.vals[k] \in Values \cup {None}, d.freq[k] \in Counts \cup {None}
  PROVE  LET r == DeltaApplied(t, d, n)[k]
         IN /\ r \in Entry \cup {Absent} /\ CopyJudged(r)
            /\ k \in d.del => r = Absent
            /\ k \notin d.del /\ k \in d.black /\ Training(n) =>
                 r # Absent /\ r.black /\ r.val = 0
            /\ k \notin d.del /\ k \notin d.black /\ d.vals[k] # None =>
                 r # Absent /\ ~r.black /\ r.val = d.vals[k]
            /\ k \notin d.del /\ k \notin d.black /\ d.vals[k] = None /\ d.freq[k] = None =>
                 r = t[k]
            /\ d.freq[k] # None /\ r # Absent => r.cnt = d.freq[k]
  <1> DEFINE c == IF t[k] = Absent THEN 1 ELSE t[k].cnt
             u == IF d.vals[k] = None THEN t[k] ELSE NewEntry(d.vals[k], c)
             l == IF k \notin d.black THEN u
                  ELSE IF Training(n) THEN BlackEntry(u) ELSE Absent
             r == IF k \in d.del THEN Absent ELSE WithCount(l, d.freq[k])
  <1>1. DeltaApplied(t, d, n)[k] = r
    BY DEF DeltaApplied
  <1>2. /\ u \in Entry \cup {Absent} /\ CopyJudged(u)
        /\ d.vals[k] = None => u = t[k]
        /\ d.vals[k] # None => u # Absent /\ u.val = d.vals[k] /\ ~u.black
    <2>1. CASE d.vals[k] = None
      BY <2>1
    <2>2. CASE d.vals[k] # None
      <3>1. c \in Counts
        BY NumberFacts DEF Entry
      <3>3. Judged(NewEntry(d.vals[k], c), "restart", DefaultCutoff)
        <4> DEFINE e == NewEntry(d.vals[k], c)
        <4>1. ~e.black /\ (e.under => e.val < DefaultCutoff)
          BY DEF NewEntry
        <4> HIDE DEF e
        <4>2. Judged(e, "restart", DefaultCutoff)
          BY <4>1 DEF Judged
        <4> QED
          BY <4>2 DEF e
      <3>4. NewEntry(d.vals[k], c) \in Entry
        BY <2>2, <3>1, NumberFacts DEF NewEntry, Entry
      <3>5. NewEntry(d.vals[k], c).val = d.vals[k] /\ ~NewEntry(d.vals[k], c).black
        BY DEF NewEntry
      <3> HIDE DEF c
      <3> QED
        BY <2>2, <3>3, <3>4, <3>5, AbsentAssumption DEF CopyJudged
    <2> QED
      BY <2>1, <2>2
  <1> HIDE DEF u
  <1>3. /\ l \in Entry \cup {Absent} /\ CopyJudged(l)
        /\ k \notin d.black => l = u
        /\ k \in d.black /\ Training(n) => l # Absent /\ l.black /\ l.val = 0
    <2>1. CASE k \notin d.black
      BY <2>1, <1>2
    <2>2. CASE k \in d.black /\ Training(n)
      BY <2>2, <1>2, BlackEntryFacts DEF CopyJudged
    <2>3. CASE k \in d.black /\ ~Training(n)
      BY <2>3 DEF CopyJudged, Judged
    <2> QED
      BY <2>1, <2>2, <2>3
  <1> HIDE DEF l
  <1>4. k \notin d.del =>
          /\ r \in Entry \cup {Absent} /\ (r = Absent <=> l = Absent)
          /\ r # Absent => /\ r.val = l.val /\ r.black = l.black /\ r.under = l.under
                           /\ d.freq[k] # None => r.cnt = d.freq[k]
          /\ d.freq[k] = None => r = l
    BY <1>3, WithCountFacts DEF WithCount
  <1>5. k \in d.del => r = Absent
    OBVIOUS
  <1> HIDE DEF r
  <1>6. CopyJudged(r)
    BY <1>3, <1>4, <1>5 DEF CopyJudged, Judged
  <1> QED
    BY <1>1, <1>2, <1>3, <1>4, <1>5, <1>6

-----------------------------------------------------------------------------
(* What the reader has of one key, with the cut-off as a parameter. *)

Near(e, r, s) ==
  IF e = Absent THEN r = Absent
  ELSE LowFrequency(e) \/ Same(e, r) \/ (e.val < s /\ ~e.black /\ r = Absent)

Restored(e, r, s) ==
  Near(e, r, s) /\ (e # Absent /\ r # Absent => e.cnt = r.cnt)

Served(e, r, s) ==
  IF e # Absent /\ e.black THEN LowFrequency(e) \/ r = Absent ELSE Near(e, r, s)

\* What an export changes of an entry is under_threshold_ only.
Alike(e, f) ==
  /\ e = Absent <=> f = Absent
  /\ e # Absent => f.val = e.val /\ f.black = e.black /\ f.cnt = e.cnt

LEMMA AlikeKept ==
  ASSUME NEW e \in Entry \cup {Absent}, NEW f \in Entry \cup {Absent}, Alike(e, f), NEW r,
         NEW s \in Int, NEW z \in Int, s <= z
  PROVE  /\ Restored(e, r, s) => Restored(f, r, z)
         /\ Served(e, r, s) => Served(f, r, z)
  <1>1. CASE e = Absent
    BY <1>1 DEF Alike, Restored, Served, Near
  <1>2. CASE e # Absent
    <2>1. e \in Entry /\ f # Absent
      BY <1>2 DEF Alike
    <2>2. f.val = e.val /\ f.black = e.black /\ f.cnt = e.cnt /\ e.val \in Int
      BY <1>2, <2>1, NumberFacts DEF Alike, Entry
    <2>3. e.val < s => f.val < z
      BY <2>2
    <2>4. Near(e, r, s) => Near(f, r, z)
      <3>1. LowFrequency(e) => LowFrequency(f)
        BY <2>2 DEF LowFrequency
      <3>2. Same(e, r) => Same(f, r)
        BY <2>2 DEF Same
      <3>3. ~e.black => ~f.black
        BY <2>2
      <3> QED
        BY <1>2, <2>1, <2>3, <3>1, <3>2, <3>3 DEF Near
    <2> QED
      BY <1>2, <2>1, <2>2, <2>4 DEF Restored, Served, LowFrequency
  <1> QED
    BY <1>1, <1>2

LEMMA InvariantParts ==
  /\ IInv <=> /\ CheckpointTypeOK
              /\ DefaultCutoff <= strictest
              /\ reader = "restart" => \A k \in Keys \ (train \cup lost) :
                                         Restored(store[k], copy[k], strictest)
              /\ SupportPrediction /\ reader = "serving" =>
                   \A k \in Keys \ (train \cup pred \cup lost) :
                      Served(store[k], copy[k], strictest)
              /\ \A k \in Keys : Judged(store[k], reader, strictest) /\ CopyJudged(copy[k])
  BY DEF IInv, CheckpointFaithful, ServedFaithful, Faithful, Restored, Served, Near

LEMMA InvariantAfter ==
  ASSUME CheckpointTypeOK',
         DefaultCutoff <= strictest',
         reader' = "restart" => \A k \in Keys \ (train' \cup lost') :
                                   Restored(store'[k], copy'[k], strictest'),
         SupportPrediction /\ reader' = "serving" =>
           \A k \in Keys \ (train' \cup pred' \cup lost') :
              Served(store'[k], copy'[k], strictest'),
         \A k \in Keys : Judged(store'[k], reader', strictest') /\ CopyJudged(copy'[k])
  PROVE  IInv'
  BY DEF IInv, CheckpointFaithful, ServedFaithful, Faithful, Restored, Served, Near

-----------------------------------------------------------------------------
(* The lists after an export. *)

LEMMA ListsAfter ==
  ASSUME DeltasRecorded, IInv, NEW n \in FirstN, ExportLists(n)
  PROVE  /\ train' \in SUBSET Keys /\ pred' \in SUBSET Keys
         /\ Changed(n) \in SUBSET Keys
         /\ reader = "restart" /\ Given(n) => train \subseteq Changed(n)
         /\ reader = "restart" /\ ~Given(n) => train' = train
         /\ reader = "serving" /\ Given(n) =>
              n = 3 /\ Changed(n) = train \cup pred /\ train' = train /\ pred' = {}
         /\ reader = "serving" /\ ~Given(n) /\ SupportPrediction =>
              train' \cup pred' = train \cup pred
  BY DEF ExportLists, TrainListAfterExport, PredictionListAfterExport, Changed, Given,
         Training, FirstN, IInv, CheckpointFaithful, CheckpointTypeOK, TypeOK

\* An export whose payload does not reach the reader, with the table t after it.
LEMMA UnreadKeepsInvariant ==
  ASSUME DeltasRecorded, IInv, NEW n \in FirstN, ExportLists(n),
         store' \in Tables, \A k \in Keys : Alike(store[k], store'[k]),
         \A k \in Keys : Judged(store'[k], reader, strictest'),
         strictest' \in Cutoffs, strictest <= strictest',
         copy' = copy, reader' = reader,
         lost' = IF Given(n) THEN lost \cup Changed(n) ELSE lost
  PROVE  IInv'
  <1>1. CheckpointTypeOK'
    BY ListsAfter DEF IInv, CheckpointFaithful, CheckpointTypeOK, TypeOK
  <1>2. strictest \in Int /\ strictest' \in Int /\ DefaultCutoff <= strictest'
    <2>1. strictest \in Int /\ DefaultCutoff <= strictest
      BY NumberFacts DEF IInv, CheckpointFaithful, CheckpointTypeOK
    <2>2. strictest' \in Int /\ DefaultCutoff \in Int
      BY NumberFacts
    <2> QED
      BY <2>1, <2>2
  <1>3. \A k \in Keys : store[k] \in Entry \cup {Absent} /\ store'[k] \in Entry \cup {Absent}
    BY IInvFacts DEF Tables
  <1>4. \A k \in Keys : Restored(store[k], copy[k], strictest) =>
                          Restored(store'[k], copy'[k], strictest')
    BY <1>2, <1>3, AlikeKept
  <1>5. \A k \in Keys : Served(store[k], copy[k], strictest) =>
                          Served(store'[k], copy'[k], strictest')
    BY <1>2, <1>3, AlikeKept
  <1>6. ASSUME reader = "restart", NEW k \in Keys \ (train' \cup lost')
        PROVE  Restored(store'[k], copy'[k], strictest')
    <2>1. k \notin train \cup lost
      BY <1>6, ListsAfter
    <2> QED
      BY <1>4, <1>6, <2>1, InvariantParts
  <1>7. ASSUME SupportPrediction, reader = "serving", NEW k \in Keys \ (train' \cup pred' \cup lost')
        PROVE  Served(store'[k], copy'[k], strictest')
    <2>1. k \notin train \cup pred \cup lost
      BY <1>7, ListsAfter
    <2> QED
      BY <1>5, <1>7, <2>1, InvariantParts
  <1>8. \A k \in Keys : Judged(store'[k], reader', strictest') /\ CopyJudged(copy'[k])
    BY DEF IInv
  <1> QED
    BY <1>1, <1>2, <1>6, <1>7, <1>8, InvariantAfter

-----------------------------------------------------------------------------
(* Full exports. *)

LEMMA RefreshedFacts ==
  ASSUME IInv, NEW cutoff \in Cutoffs, NEW s \in Cutoffs,
         s = IF cutoff > strictest THEN cutoff ELSE strictest
  PROVE  /\ Refreshed(store, cutoff) \in Tables
         /\ strictest <= s
         /\ \A k \in Keys : /\ Alike(store[k], Refreshed(store, cutoff)[k])
                            /\ Judged(Refreshed(store, cutoff)[k], reader, s)
  <1>1. strictest \in Int /\ cutoff \in Int /\ s \in Int /\ strictest <= s /\ cutoff <= s
    BY NumberFacts DEF IInv, CheckpointFaithful, CheckpointTypeOK
  <1> DEFINE T == Refreshed(store, cutoff)
  <1>2. ASSUME NEW k \in Keys
        PROVE  /\ T[k] \in Entry \cup {Absent} /\ Alike(store[k], T[k])
               /\ Judged(T[k], reader, s)
    <2>1. CASE store[k] = Absent \/ cutoff = DefaultCutoff
      <3>1. T[k] = store[k]
        BY <2>1 DEF Refreshed
      <3>2. store[k] # Absent => store[k].val \in Int
        BY IInvFacts, NumberFacts DEF Entry
      <3>3. Judged(store[k], reader, s)
        BY <1>1, <3>2, IInvFacts DEF Judged
      <3> HIDE DEF T
      <3> QED
        BY <3>1, <3>3, IInvFacts DEF Alike
    <2>2. CASE store[k] # Absent /\ cutoff # DefaultCutoff
      <3> DEFINE u == UnderThreshold(store[k].black, store[k].val, cutoff)
      <3>1. T[k] = [store[k] EXCEPT !.under = u]
        BY <2>2 DEF Refreshed
      <3>2. store[k] \in Entry
        BY <2>2, IInvFacts
      <3>3. u \in BOOLEAN /\ (store[k].black => u) /\ (~store[k].black /\ u => store[k].val < s)
        <4>1. store[k].val \in Int /\ store[k].black \in BOOLEAN
          BY <3>2, NumberFacts DEF Entry
        <4>2. store[k].val < cutoff => store[k].val < s
          BY <1>1, <4>1
        <4> QED
          BY <4>1, <4>2 DEF UnderThreshold
      <3> HIDE DEF T, u
      <3>4. /\ T[k] \in Entry /\ T[k].val = store[k].val /\ T[k].black = store[k].black
            /\ T[k].cnt = store[k].cnt /\ T[k].under = u
        BY <3>1, <3>2, <3>3 DEF Entry
      <3>5. Judged(T[k], reader, s)
        BY <2>2, <3>3, <3>4, IInvFacts DEF Judged
      <3>6. T[k] # Absent
        BY <3>4, AbsentAssumption
      <3> QED
        BY <2>2, <3>4, <3>5, <3>6 DEF Alike
    <2> QED
      BY <2>1, <2>2
  <1>3. T \in Tables
    BY <1>2 DEF Refreshed, Tables
  <1> QED
    BY <1>1, <1>2, <1>3

\* The rows of a training export, and of an inference export of a variable in
\* which blacklisted keys are under the cut-off, are those it has counted.
LEMMA RowsAreCounted ==
  ASSUME DeltasRecorded, NEW t, NEW n,
         Training(n) \/ \A k \in Keys : t[k] # Absent /\ t[k].black => t[k].under
  PROVE  RowChoices(t, n) = {Counted(t, n)}
  <1>1. Candidates(t, n) = Counted(t, n)
    BY DEF Candidates, Counted, Eligible
  <1>2. IsFiniteSet(Counted(t, n))
    BY FS_Subset DEF DeltasRecorded, Counted
  <1>3. ASSUME NEW E \in SUBSET Counted(t, n), Cardinality(E) = Cardinality(Counted(t, n))
        PROVE  E = Counted(t, n)
    BY <1>2, <1>3, FS_Subset
  <1> QED
    BY <1>1, <1>3 DEF RowChoices

\* One key of a full payload that is read.
LEMMA FullRead ==
  ASSUME NEW t \in Tables, NEW n, NEW s \in Int, NEW g \in Contents(t, Counted(t, n)),
         NEW k \in Keys, NEW q, Judged(t[k], q, s)
  PROVE  LET r == Imported(FullOutput(t, n, Counted(t, n), g))[k]
         IN /\ r \in Entry \cup {Absent} /\ CopyJudged(r)
            /\ Training(n) => Restored(t[k], r, s)
            /\ ~Training(n) => Served(t[k], r, s)
  <1> DEFINE E == Counted(t, n)
             p == FullOutput(t, n, E, g)
             r == Imported(p)[k]
  <1>1. t[k] \in Entry \cup {Absent}
    BY DEF Tables
  <1>2. k \in E => g[k] \in Values /\ g[k] = t[k].val /\ ~t[k].black /\ t[k] # Absent
    BY DEF Contents, Counted
  <1>3. k \in E <=> t[k] # Absent /\ ~t[k].black /\ ~t[k].under /\ (Training(n) => ~LowFrequency(t[k]))
    BY DEF Counted, Eligible
  <1>4. /\ p.vals[k] = IF k \in E THEN g[k] ELSE None
        /\ k \in p.black <=> Training(n) /\ t[k] # Absent /\ t[k].black
        /\ p.freq[k] = IF Training(n) /\ t[k] # Absent THEN t[k].cnt ELSE None
    BY DEF FullOutput
  <1> HIDE DEF E, p
  <1>5. p.vals[k] \in Values \cup {None} /\ p.freq[k] \in Counts \cup {None}
    BY <1>1, <1>2, <1>4 DEF Entry
  <1>6. /\ r \in Entry \cup {Absent} /\ CopyJudged(r)
        /\ k \in p.black => r # Absent /\ r.black /\ r.val = 0
        /\ k \notin p.black => r = Absent <=> p.vals[k] = None
        /\ k \notin p.black /\ r # Absent => r.val = p.vals[k] /\ ~r.black
        /\ p.freq[k] # None /\ r # Absent => r.cnt = p.freq[k]
    BY <1>5, ImportedFacts
  <1> HIDE DEF r
  <1>7. Training(n) => Restored(t[k], r, s)
    <2> SUFFICES ASSUME Training(n)
                 PROVE  Restored(t[k], r, s)
      OBVIOUS
    <2>1. CASE t[k] = Absent
      BY <2>1, <1>3, <1>4, <1>6 DEF Restored, Near
    <2>2. CASE t[k] # Absent
      <3>1. t[k] \in Entry /\ t[k].cnt \in Counts /\ t[k].black \in BOOLEAN
        BY <1>1, <2>2 DEF Entry
      <3>2. r # Absent => r.cnt = t[k].cnt
        BY <1>4, <1>6, <2>2, <3>1, NumberFacts
      <3>3. Near(t[k], r, s)
        <4>1. CASE t[k].black
          <5>1. t[k].val = 0
            BY <2>2, <4>1 DEF Judged
          <5>2. r # Absent /\ r.black /\ r.val = 0 /\ r.black \in BOOLEAN
            BY <1>4, <1>6, <2>2, <4>1 DEF Entry
          <5> QED
            BY <2>2, <3>1, <4>1, <5>1, <5>2 DEF Near, Same
        <4>2. CASE ~t[k].black /\ LowFrequency(t[k])
          BY <2>2, <4>2 DEF Near
        <4>3. CASE ~t[k].black /\ t[k].under
          <5>1. t[k].val < s
            BY <2>2, <4>3 DEF Judged
          <5>2. r = Absent
            BY <1>3, <1>4, <1>6, <4>3
          <5> QED
            BY <2>2, <4>3, <5>1, <5>2 DEF Near
        <4>4. CASE ~t[k].black /\ ~t[k].under /\ ~LowFrequency(t[k])
          <5>1. k \in E /\ r # Absent
            BY <1>2, <1>3, <1>4, <1>6, <2>2, <4>4, NumberFacts
          <5>2. r.val = t[k].val /\ ~r.black /\ r.black \in BOOLEAN
            BY <1>2, <1>4, <1>6, <4>4, <5>1 DEF Entry
          <5> QED
            BY <2>2, <3>1, <4>4, <5>1, <5>2 DEF Near, Same
        <4> QED
          BY <4>1, <4>2, <4>3, <4>4
      <3> QED
        BY <3>2, <3>3 DEF Restored
    <2> QED
      BY <2>1, <2>2
  <1>8. ~Training(n) => Served(t[k], r, s)
    <2> SUFFICES ASSUME ~Training(n)
                 PROVE  Served(t[k], r, s)
      OBVIOUS
    <2>1. CASE t[k] = Absent \/ t[k].black
      <3>1. r = Absent
        BY <2>1, <1>3, <1>4, <1>6
      <3> QED
        BY <2>1, <3>1 DEF Served, Near
    <2>2. CASE t[k] # Absent /\ ~t[k].black /\ t[k].under
      <3>1. r = Absent /\ t[k].val < s
        BY <1>3, <1>4, <1>6, <2>2 DEF Judged
      <3> QED
        BY <2>2, <3>1 DEF Served, Near
    <2>3. CASE t[k] # Absent /\ ~t[k].black /\ ~t[k].under
      <3>1. k \in E /\ r # Absent
        BY <1>2, <1>3, <1>4, <1>6, <2>3, NumberFacts
      <3>2. r.val = t[k].val /\ ~r.black /\ r.black \in BOOLEAN /\ t[k].black \in BOOLEAN
        BY <1>1, <1>2, <1>4, <1>6, <2>3, <3>1 DEF Entry
      <3> QED
        BY <2>3, <3>1, <3>2 DEF Served, Near, Same
    <2> QED
      BY <2>1, <2>2, <2>3
  <1> QED
    BY <1>6, <1>7, <1>8 DEF r, p, E

LEMMA FullSaveKeepsInvariant ==
  ASSUME DeltasRecorded, IInv, NEW n \in FirstN \ {6}, NEW cutoff \in Cutoffs,
         NEW w \in BOOLEAN, FullSave(n, cutoff, w)
  PROVE  IInv'
  <1> DEFINE T == Refreshed(store, cutoff)
  <1>1. store' = T /\ ExportLists(n) /\ reader' = reader
    BY DEF FullSave, ExportValues
  <1>2. strictest' = IF cutoff > strictest THEN cutoff ELSE strictest
    BY DEF FullSave
  <1>3. strictest' \in Cutoffs /\ strictest \in Cutoffs /\ strictest' \in Int
    BY <1>2, IInvFacts, NumberFacts DEF IInv, CheckpointFaithful, CheckpointTypeOK
  <1>4. /\ T \in Tables /\ strictest <= strictest'
        /\ \A k \in Keys : Alike(store[k], T[k]) /\ Judged(T[k], reader, strictest')
    BY <1>2, <1>3, RefreshedFacts
  <1>5. CASE ~(Given(n) /\ w)
    <2>1. copy' = copy /\ lost' = IF Given(n) THEN lost \cup Changed(n) ELSE lost
      BY <1>5 DEF FullSave
    <2> QED
      BY <1>1, <1>3, <1>4, <2>1, UnreadKeepsInvariant
  <1>6. CASE Given(n) /\ w
    <2>1. PICK E \in RowChoices(T, n) : \E g \in Contents(T, E) :
                 copy' = Imported(FullOutput(T, n, E, g))
      BY <1>6 DEF FullSave
    <2>2. lost' = {}
      BY <1>6 DEF FullSave
    <2>3. Training(n) \/ \A k \in Keys : T[k] # Absent /\ T[k].black => T[k].under
      <3>1. CASE reader = "restart"
        BY <1>6, <3>1 DEF Given
      <3>2. CASE reader = "serving"
        BY <1>4, <3>2 DEF Judged
      <3> QED
        BY <3>1, <3>2 DEF IInv, CheckpointFaithful, CheckpointTypeOK, Readers
    <2>4. E = Counted(T, n)
      BY <2>1, <2>3, RowsAreCounted
    <2>5. PICK g \in Contents(T, E) : copy' = Imported(FullOutput(T, n, E, g))
      BY <2>1
    <2> HIDE DEF T
    <2>6. ASSUME NEW k \in Keys
          PROVE  /\ copy'[k] \in Entry \cup {Absent} /\ CopyJudged(copy'[k])
                 /\ Training(n) => Restored(T[k], copy'[k], strictest')
                 /\ ~Training(n) => Served(T[k], copy'[k], strictest')
      BY <1>3, <1>4, <2>4, <2>5, FullRead
    <2>7. copy' \in Tables
      BY <2>5, <2>6 DEF Imported, Tables
    <2>8. CheckpointTypeOK'
      BY <1>1, <1>3, <1>4, <2>2, <2>7, ListsAfter
         DEF IInv, CheckpointFaithful, CheckpointTypeOK, TypeOK
    <2>9. reader = "restart" => Training(n)
      BY <1>6 DEF Given
    <2>10. reader = "serving" => ~Training(n)
      BY <1>6 DEF Given, Training
    <2>11. DefaultCutoff <= strictest'
      <3>1. strictest \in Int /\ DefaultCutoff <= strictest /\ DefaultCutoff \in Int
        BY NumberFacts DEF IInv, CheckpointFaithful, CheckpointTypeOK
      <3> QED
        BY <1>3, <1>4, <3>1
    <2> QED
      BY <1>1, <1>4, <2>6, <2>8, <2>9, <2>10, <2>11, InvariantAfter
  <1> QED
    BY <1>5, <1>6

-----------------------------------------------------------------------------
(* Delta exports. *)

LEMMA DeltaRead ==
  ASSUME IInv, NEW n, NEW k \in Keys, Changed(n) \in SUBSET Keys
  PROVE  LET r == DeltaApplied(copy, DeltaOutput(n), n)[k]
         IN /\ r \in Entry \cup {Absent} /\ CopyJudged(r)
            /\ k \notin Changed(n) => r = copy[k]
            /\ k \in Changed(n) /\ Training(n) => Restored(store[k], r, strictest)
            /\ k \in Changed(n) /\ ~Training(n) => Served(store[k], r, strictest)
  <1> DEFINE e == store[k]
             d == DeltaOutput(n)
             r == DeltaApplied(copy, d, n)[k]
  <1>1. e \in Entry \cup {Absent} /\ copy[k] \in Entry \cup {Absent} /\ CopyJudged(copy[k])
    BY IInvFacts
  <1>2. e # Absent => e.val \in Values /\ e.cnt \in Counts /\ e.black \in BOOLEAN
    BY <1>1 DEF Entry
  <1>3. /\ k \in UpdateList(n) <=>
             k \in Changed(n) /\ e # Absent /\ ~LowFrequency(e) /\ ~e.black
        /\ k \in BlackList(n) <=>
             k \in Changed(n) /\ e # Absent /\ ~LowFrequency(e) /\ e.black
    BY DEF UpdateList, BlackList, Frequent, Present
  <1>4. /\ d.vals[k] = IF k \in UpdateList(n) THEN e.val ELSE None
        /\ k \in d.black <=> Training(n) /\ k \in BlackList(n)
        /\ d.freq[k] = IF ~Training(n) \/ k \notin Changed(n) THEN None
                       ELSE IF e # Absent THEN e.cnt ELSE 0
        /\ k \in d.del <=> \/ k \in Changed(n) /\ e = Absent
                           \/ ~Training(n) /\ k \in BlackList(n)
    BY DEF DeltaOutput, Present
  <1> HIDE DEF d
  <1>5. d.vals[k] \in Values \cup {None} /\ d.freq[k] \in Counts \cup {None}
    BY <1>2, <1>3, <1>4, NumberFacts
  <1>6. /\ r \in Entry \cup {Absent} /\ CopyJudged(r)
        /\ k \in d.del => r = Absent
        /\ k \notin d.del /\ k \in d.black /\ Training(n) =>
             r # Absent /\ r.black /\ r.val = 0
        /\ k \notin d.del /\ k \notin d.black /\ d.vals[k] # None =>
             r # Absent /\ ~r.black /\ r.val = d.vals[k]
        /\ k \notin d.del /\ k \notin d.black /\ d.vals[k] = None /\ d.freq[k] = None =>
             r = copy[k]
        /\ d.freq[k] # None /\ r # Absent => r.cnt = d.freq[k]
    BY <1>1, <1>5, DeltaAppliedFacts
  <1>7. Judged(e, reader, strictest)
    BY IInvFacts
  <1> HIDE DEF r, e
  <1>8. r # Absent => r.black \in BOOLEAN
    BY <1>6 DEF Entry
  <1>9. k \notin Changed(n) => r = copy[k]
    BY <1>3, <1>4, <1>6
  <1>10. ASSUME k \in Changed(n), e = Absent
         PROVE  r = Absent
    BY <1>4, <1>6, <1>10
  <1>11. ASSUME k \in Changed(n), e # Absent, ~LowFrequency(e), ~e.black
         PROVE  r # Absent /\ Same(e, r)
    <2>1. d.vals[k] = e.val /\ d.vals[k] # None /\ k \notin d.black /\ k \notin d.del
      BY <1>2, <1>3, <1>4, <1>11, NumberFacts
    <2> QED
      BY <1>2, <1>6, <1>8, <1>11, <2>1 DEF Same
  <1>12. ASSUME k \in Changed(n), Training(n), e # Absent, ~LowFrequency(e), e.black
         PROVE  r # Absent /\ Same(e, r)
    <2>1. k \in d.black /\ k \notin d.del /\ e.val = 0
      BY <1>3, <1>4, <1>7, <1>12 DEF Judged
    <2> QED
      BY <1>2, <1>6, <1>8, <1>12, <2>1 DEF Same
  <1>13. ASSUME k \in Changed(n), ~Training(n), e # Absent, ~LowFrequency(e), e.black
         PROVE  r = Absent
    BY <1>3, <1>4, <1>6, <1>13
  <1>14. ASSUME k \in Changed(n), Training(n)
         PROVE  Restored(e, r, strictest)
    <2>1. e # Absent /\ r # Absent => e.cnt = r.cnt
      BY <1>2, <1>4, <1>6, <1>14, NumberFacts
    <2>2. Near(e, r, strictest)
      BY <1>10, <1>11, <1>12, <1>14 DEF Near
    <2> QED
      BY <2>1, <2>2 DEF Restored
  <1>15. ASSUME k \in Changed(n), ~Training(n)
         PROVE  Served(e, r, strictest)
    BY <1>10, <1>11, <1>13, <1>15 DEF Served, Near
  <1> QED
    BY <1>6, <1>9, <1>14, <1>15 DEF r, d, e

LEMMA DeltaSaveKeepsInvariant ==
  ASSUME DeltasRecorded, IInv, NEW n \in {3, 8}, NEW w \in BOOLEAN, DeltaSave(n, w)
  PROVE  IInv'
  <1>0. n \in FirstN
    BY DEF FirstN
  <1>1. store' = store /\ ExportLists(n) /\ reader' = reader /\ strictest' = strictest
    BY DEF DeltaSave, DeltaExport
  <1>2. strictest \in Cutoffs /\ strictest \in Int /\ store \in Tables
    BY NumberFacts DEF IInv, CheckpointFaithful, CheckpointTypeOK, TypeOK
  <1>3. Changed(n) \in SUBSET Keys /\ train' \in SUBSET Keys /\ pred' \in SUBSET Keys
    BY <1>0, <1>1, ListsAfter
  <1>4. CASE ~(Given(n) /\ w)
    <2>1. copy' = copy /\ lost' = IF Given(n) THEN lost \cup Changed(n) ELSE lost
      BY <1>4 DEF DeltaSave
    <2>2. \A k \in Keys : Alike(store[k], store'[k]) /\ Judged(store'[k], reader, strictest')
      BY <1>1, IInvFacts DEF Alike
    <2> QED
      BY <1>0, <1>1, <1>2, <2>1, <2>2, UnreadKeepsInvariant
  <1>5. CASE Given(n) /\ w
    <2>1. copy' = DeltaApplied(copy, DeltaOutput(n), n) /\ lost' = lost \ Changed(n)
      BY <1>5 DEF DeltaSave
    <2>2. ASSUME NEW k \in Keys
          PROVE  /\ copy'[k] \in Entry \cup {Absent} /\ CopyJudged(copy'[k])
                 /\ k \notin Changed(n) => copy'[k] = copy[k]
                 /\ k \in Changed(n) /\ Training(n) => Restored(store[k], copy'[k], strictest)
                 /\ k \in Changed(n) /\ ~Training(n) => Served(store[k], copy'[k], strictest)
      BY <1>3, <2>1, DeltaRead
    <2>3. copy' \in Tables
      BY <2>1, <2>2 DEF DeltaApplied, Tables
    <2>4. CheckpointTypeOK'
      BY <1>1, <1>3, <2>1, <2>3 DEF IInv, CheckpointFaithful, CheckpointTypeOK, TypeOK
    <2>5. ASSUME reader = "restart", NEW k \in Keys \ (train' \cup lost')
          PROVE  Restored(store[k], copy'[k], strictest)
      <3>1. Training(n) /\ train \subseteq Changed(n)
        BY <1>0, <1>1, <1>5, <2>5, ListsAfter DEF Given
      <3>2. k \notin Changed(n) => k \notin train \cup lost
        BY <2>1, <2>5, <3>1
      <3> QED
        BY <2>2, <2>5, <3>1, <3>2, InvariantParts
    <2>6. ASSUME SupportPrediction, reader = "serving",
                 NEW k \in Keys \ (train' \cup pred' \cup lost')
          PROVE  Served(store[k], copy'[k], strictest)
      <3>1. ~Training(n) /\ Changed(n) = train \cup pred
        <4>1. n = 3 /\ Changed(n) = train \cup pred
          BY <1>0, <1>1, <1>5, <2>6, ListsAfter
        <4> QED
          BY <4>1 DEF Training
      <3>2. k \notin Changed(n) => k \notin train \cup pred \cup lost
        BY <2>1, <2>6, <3>1
      <3> QED
        BY <2>2, <2>6, <3>1, <3>2, InvariantParts
    <2>7. \A k \in Keys : Judged(store[k], reader, strictest) /\ CopyJudged(copy'[k])
      BY <2>2, IInvFacts
    <2> QED
      BY <1>1, <2>4, <2>5, <2>6, <2>7, InvariantAfter, InvariantParts
  <1> QED
    BY <1>4, <1>5

-----------------------------------------------------------------------------
LEMMA InitHolds ==
  ASSUME DeltasRecorded, CheckpointInit
  PROVE  IInv
  <1>1. CheckpointTypeOK
    BY DEF CheckpointInit, CheckpointTypeOK, Init, TypeOK, EmptyTable, Tables, DeltasRecorded
  <1>2. \A k \in Keys : store[k] = Absent /\ copy[k] = Absent
    BY DEF CheckpointInit, Init, EmptyTable
  <1> QED
    BY <1>1, <1>2, NumberFacts
       DEF CheckpointInit, IInv, CheckpointFaithful, ServedFaithful, Faithful, Judged, CopyJudged

LEMMA StepKeepsInvariant ==
  ASSUME DeltasRecorded, IInv, [ReaderNext]_checkpointVars
  PROVE  IInv'
  <1>1. CASE Operate
    BY <1>1, OperateKeepsInvariant
  <1>2. CASE \E n \in FirstN \ {6}, c \in Cutoffs : \E w \in Outcomes(n) : FullSave(n, c, w)
    BY <1>2, FullSaveKeepsInvariant DEF Outcomes
  <1>3. CASE \E n \in {3, 8} : \E w \in Outcomes(n) : DeltaSave(n, w)
    BY <1>3, DeltaSaveKeepsInvariant DEF Outcomes
  <1>4. CASE Restart
    BY <1>4, RestartKeepsInvariant
  <1>5. CASE reader = "restart" /\ Blacklist
    BY <1>5, BlacklistKeepsInvariant
  <1>6. CASE UNCHANGED checkpointVars
    BY <1>6 DEF checkpointVars, IInv, CheckpointFaithful, CheckpointTypeOK, TypeOK,
       ServedFaithful, Faithful, Same, Judged, CopyJudged
  <1> QED
    BY <1>1, <1>2, <1>3, <1>4, <1>5, <1>6 DEF ReaderNext, Save

LEMMA InvariantHolds ==
  ASSUME DeltasRecorded
  PROVE  ReaderSpec => []IInv
  <1>1. CheckpointInit => IInv
    BY InitHolds
  <1>2. IInv /\ [ReaderNext]_checkpointVars => IInv'
    BY StepKeepsInvariant
  <1> QED
    BY <1>1, <1>2, PTL DEF ReaderSpec

\* A training process that restores the full checkpoint and the deltas after
\* it has every key's value, blacklist mark and frequency but those marked for
\* the next delta or for a file that was never written, after any sequence of
\* updates, exports, failed saves and restarts.
THEOREM RestartLosesNothing ==
  ASSUME DeltasRecorded
  PROVE  ReaderSpec => []CheckpointFaithful
  <1>1. IInv => CheckpointFaithful
    BY DEF IInv
  <1>2. ReaderSpec => []IInv
    BY InvariantHolds
  <1> QED
    BY <1>1, <1>2, PTL

\* A serving process that loads the inference exports answers for a key in
\* neither delta list what the training process would, when training exports
\* hand their changes on (SUPPORT_PREDICTION_DELTA_EXPORT).
THEOREM ServedAsTrained ==
  ASSUME DeltasRecorded, SupportPrediction
  PROVE  ReaderSpec => []ServedFaithful
  <1>1. IInv => ServedFaithful
    BY DEF IInv
  <1>2. ReaderSpec => []IInv
    BY InvariantHolds
  <1> QED
    BY <1>1, <1>2, PTL
=============================================================================
