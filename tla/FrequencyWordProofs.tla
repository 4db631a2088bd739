------------------------- MODULE FrequencyWordProofs ------------------------
(***************************************************************************)
(* A word says what happened to its key, for halves of any width and any   *)
(* number of lookups, days, exports and imports.                           *)
(***************************************************************************)
EXTENDS FrequencyWord, TLAPS

Bounded(n) == IF n > MaxFrequency THEN MaxFrequency ELSE n

\* A word made of its two halves gives them back.
LEMMA Halves ==
  ASSUME NEW high \in Nat, NEW low \in 0 .. MaxFrequency
  PROVE  /\ MakeUint32FromUint16(high, low) \in Nat
         /\ FrequencyOf(MakeUint32FromUint16(high, low)) = low
         /\ DayOf(MakeUint32FromUint16(high, low)) = high
  BY WidthAssumption DEF FrequencyOf, DayOf, GetUint16FromUint32, MakeUint32FromUint16, MaxFrequency

LEMMA Bounds ==
  ASSUME NEW n \in Nat
  PROVE  /\ Bounded(n) \in 0 .. MaxFrequency
         /\ SaturateMaxFrequency(n) = Bounded(n)
  BY WidthAssumption DEF SaturateMaxFrequency, Bounded, MaxFrequency

\* Adding with saturation is adding without a bound, and then the bound.
LEMMA Adds ==
  ASSUME NEW m \in Nat, NEW n \in Nat
  PROVE  SaturateAddFrequency(Bounded(m), Bounded(n)) = Bounded(m + n)
  BY WidthAssumption DEF SaturateAddFrequency, Bounded, MaxFrequency

-----------------------------------------------------------------------------
(* The inductive invariant: a word is made of what it stands for.          *)

Truthful(r) ==
  r # NoKey =>
    /\ r.lookups \in Nat /\ r.seen \in Nat
    /\ r.word = MakeUint32FromUint16(r.seen, Bounded(r.lookups))

WordInv == today \in Nat /\ Truthful(key) /\ Truthful(saved)

LEMMA KnownIsTruthful ==
  ASSUME NEW n \in Nat, NEW day \in Nat
  PROVE  Truthful(Known(MakeUint32FromUint16(day, Bounded(n)), n, day))
  BY DEF Truthful, Known

\* The halves of a truthful word.
LEMMA TruthfulHalves ==
  ASSUME NEW r, r # NoKey, Truthful(r)
  PROVE  /\ r.lookups \in Nat /\ r.seen \in Nat
         /\ FrequencyOf(r.word) = Bounded(r.lookups) /\ DayOf(r.word) = r.seen
  BY Halves, Bounds DEF Truthful

\* One more lookup of a key.
LEMMA AddedIsTruthful ==
  ASSUME NEW r, r # NoKey, Truthful(r), NEW n \in Nat, NEW day \in Nat
  PROVE  Truthful(Known(AddFrequency(r.word, Bounded(n), day), r.lookups + n, day))
  <1>1. r.lookups \in Nat /\ FrequencyOf(r.word) = Bounded(r.lookups)
    BY TruthfulHalves
  <1>2. AddFrequency(r.word, Bounded(n), day) = MakeUint32FromUint16(day, Bounded(r.lookups + n))
    BY <1>1, Adds DEF AddFrequency
  <1> QED
    BY <1>1, <1>2, KnownIsTruthful

LEMMA WordInvInit == WordInit => WordInv
  BY DEF WordInit, WordInv, Truthful

LEMMA WordInvNext == WordInv /\ [WordNext]_wordvars => WordInv'
  <1> SUFFICES ASSUME WordInv, [WordNext]_wordvars
               PROVE  WordInv'
    OBVIOUS
  <1>1. /\ today \in Nat /\ Truthful(key) /\ Truthful(saved) /\ Truthful(NoKey)
        /\ MaxLookups \in Nat
    BY WidthAssumption DEF WordInv, Truthful
  <1>2. CASE UNCHANGED wordvars
    BY <1>1, <1>2 DEF wordvars, WordInv
  <1>3. CASE Tomorrow
    BY <1>1, <1>3 DEF Tomorrow, WordInv
  <1>4. ASSUME NEW n \in 0 .. MaxLookups, InsertKey(n)
        PROVE  WordInv'
    <2>1. key' = Known(MakeUint32FromUint16(today, Bounded(n)), n, today) /\ n \in Nat
      BY <1>1, <1>4, Bounds DEF InsertKey
    <2>2. Truthful(key')
      BY <1>1, <2>1, KnownIsTruthful
    <2> QED
      BY <1>1, <1>4, <2>2 DEF InsertKey, WordInv
  <1>5. ASSUME NEW n \in 0 .. MaxLookups, LookUpKey(n)
        PROVE  WordInv'
    <2>1. /\ key # NoKey /\ n \in Nat
          /\ key' = Known(AddFrequency(key.word, Bounded(n), today), key.lookups + n, today)
      BY <1>1, <1>5, Bounds DEF LookUpKey
    <2>2. Truthful(key')
      BY <1>1, <2>1, AddedIsTruthful
    <2> QED
      BY <1>1, <1>5, <2>2 DEF LookUpKey, WordInv
  <1>6. CASE TrainKey
    <2>1. Bounded(1) = 1
      BY WidthAssumption DEF Bounded, MaxFrequency
    <2>2. Truthful(key')
      BY <1>1, <1>6, <2>1, AddedIsTruthful DEF TrainKey
    <2> QED
      BY <1>1, <1>6, <2>2 DEF TrainKey, WordInv
  <1>7. ASSUME NEW threshold, DeleteOldKey(threshold)
        PROVE  WordInv'
    BY <1>1, <1>7 DEF DeleteOldKey, WordInv
  <1>8. ASSUME NEW freq_use_uint32 \in BOOLEAN, ExportKey(freq_use_uint32)
        PROVE  WordInv'
    <2>1. Truthful(Known(FrequencyOf(key.word), key.lookups, Unknown))
      <3>1. key # NoKey /\ key.lookups \in Nat /\ FrequencyOf(key.word) = Bounded(key.lookups)
        BY <1>1, <1>8, TruthfulHalves DEF ExportKey
      <3>2. FrequencyOf(key.word) = MakeUint32FromUint16(Unknown, Bounded(key.lookups))
        BY <3>1, Bounds, WidthAssumption DEF MakeUint32FromUint16, Unknown, MaxFrequency
      <3> QED
        BY <3>1, <3>2, KnownIsTruthful DEF Unknown
    <2>2. Truthful(saved')
      BY <1>1, <1>8, <2>1 DEF ExportKey
    <2> QED
      BY <1>1, <1>8, <2>2 DEF ExportKey, WordInv
  <1>9. ASSUME NEW withFrequency \in BOOLEAN, ImportKey(withFrequency)
        PROVE  WordInv'
    <2>1. Truthful(Known(Constructed, 1, Unknown))
      <3>1. Bounded(1) = 1
        BY WidthAssumption DEF Bounded, MaxFrequency
      <3> QED
        BY <3>1, KnownIsTruthful DEF Constructed, Unknown
    <2> QED
      BY <1>1, <1>9, <2>1 DEF ImportKey, WordInv
  <1> QED
    BY <1>2, <1>3, <1>4, <1>5, <1>6, <1>7, <1>8, <1>9 DEF WordNext

LEMMA WordInvHolds == WordSpec => []WordInv
  BY WordInvInit, WordInvNext, PTL DEF WordSpec

\* The low half of a key's word is the number of its lookups, up to the
\* greatest that fits, and the high half is the day of the last one, through
\* any lookups, optimizer steps, exports and imports.
THEOREM CountsAndDaysAreTrue == WordSpec => []WordsTellTheTruth
  <1>1. WordInv => WordsTellTheTruth
    BY TruthfulHalves DEF WordInv, WordsTellTheTruth, Bounded
  <1> QED
    BY <1>1, WordInvHolds, PTL

\* DeleteWithTimestamp deletes the keys whose last lookup is known and at least
\* threshold days ago, and no other, for any threshold of 16 bits.
THEOREM DeletedAreOld == WordSpec => []OnlyTheOldAreDeleted
  <1>1. ASSUME WordInv
        PROVE  OnlyTheOldAreDeleted
    <2> SUFFICES ASSUME key # NoKey, NEW threshold \in 0 .. MaxFrequency
                 PROVE  IsOld(key.word, today, threshold)
                          <=> key.seen # Unknown /\ key.seen + threshold <= today
      BY DEF OnlyTheOldAreDeleted
    <2>1. DayOf(key.word) = key.seen /\ key.seen \in Nat /\ today \in Nat
      BY <1>1, TruthfulHalves DEF WordInv
    <2>2. threshold % Width = threshold /\ threshold \in Nat
      BY WidthAssumption DEF MaxFrequency
    <2> QED
      BY <2>1, <2>2 DEF IsOld, Unknown
  <1> QED
    BY <1>1, WordInvHolds, PTL
=============================================================================
