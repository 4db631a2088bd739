---------------------------- MODULE FrequencyWord ---------------------------
(***************************************************************************)
(* freq_val_ of an entry: a count in its low half and in its high half the *)
(* day the key was last looked up, and what DeleteWithTimestamp makes of   *)
(* them.  One key is followed over its life: it is inserted by a lookup or *)
(* by an import of its value, looked up with a count or by an optimizer,   *)
(* deleted when it is old, and exported and imported again with words or,  *)
(* by the older ops, with counts.  KvTable has the same entry with the     *)
(* days left out.                                                          *)
(***************************************************************************)
EXTENDS Integers

CONSTANTS
  Width,      \* numbers a half has: 2^16
  MaxLookups  \* bound on the lookups of the key between two inserts

ASSUME WidthAssumption == Width \in Nat \ {0, 1} /\ MaxLookups \in Nat

VARIABLES
  key,    \* the word, and beside it what the word stands for
  saved,  \* the same of the last export
  today

wordvars == <<key, saved, today>>

MaxFrequency == Width - 1

MakeUint32FromUint16(high, low) == high * Width + low

GetUint16FromUint32(word, isLow16Bits) ==
  IF isLow16Bits THEN word % Width ELSE word \div Width

FrequencyOf(word) == GetUint16FromUint32(word, TRUE)

DayOf(word) == GetUint16FromUint32(word, FALSE)

\* Mutant: narrowed before it is bounded.
SaturateMaxTruncated(freq) == freq % Width

\* An int32 bounded from above, then narrowed.
SaturateMaxFrequency(freq) ==
  (IF freq > MaxFrequency THEN MaxFrequency ELSE freq) % Width

SaturateAddFrequency(val, delta) ==
  LET sum == (val + delta) % Width
  IN IF sum < val THEN MaxFrequency ELSE sum

AddFrequency(word, freq, day) ==
  MakeUint32FromUint16(day, SaturateAddFrequency(FrequencyOf(word), freq))

\* Mutant: a key that was never stamped is as old as the first day.
IsOldUnstamped(word, day, threshold) ==
  day - DayOf(word) >= threshold % Width

\* The test of DeleteWithTimestamp: 16-bit operands, compared as ints.
IsOld(word, day, threshold) ==
  DayOf(word) > 0 /\ day - DayOf(word) >= threshold % Width

-----------------------------------------------------------------------------
(* lookups and seen are history variables: the lookups of the key without  *)
(* a bound, the import of its value counting as one, and the day of the    *)
(* last one where it is known.                                             *)

Unknown == 0

Known(word, lookups, seen) == [word |-> word, lookups |-> lookups, seen |-> seen]

NoKey == Known(-1, 0, Unknown)

\* Days are counted from 1970.
WordInit == key = NoKey /\ saved = NoKey /\ today = 1

Tomorrow ==
  /\ today < MaxFrequency
  /\ today' = today + 1
  /\ UNCHANGED <<key, saved>>

\* A lookup of a batch in which the key is n times; lookups without counts
\* have the key once.
InsertKey(n) ==
  /\ key = NoKey
  /\ key' = Known(MakeUint32FromUint16(today, SaturateMaxFrequency(n)), n, today)
  /\ UNCHANGED <<saved, today>>

LookUpKey(n) ==
  /\ key # NoKey
  /\ key.lookups + n <= MaxLookups
  /\ key' = Known(AddFrequency(key.word, SaturateMaxFrequency(n), today),
                  key.lookups + n, today)
  /\ UNCHANGED <<saved, today>>

\* FindOrInsertUnsafe of a slot's row.
TrainKey ==
  /\ key # NoKey
  /\ key.lookups < MaxLookups
  /\ key' = Known(AddFrequency(key.word, 1, today), key.lookups + 1, today)
  /\ UNCHANGED <<saved, today>>

\* DeleteWithTimestamp.
DeleteOldKey(threshold) ==
  /\ key # NoKey
  /\ IsOld(key.word, today, threshold)
  /\ key' = NoKey
  /\ UNCHANGED <<saved, today>>

\* The frequencies are exported as words, or as counts.
ExportKey(freq_use_uint32) ==
  /\ key # NoKey
  /\ saved' = IF freq_use_uint32 THEN key
              ELSE Known(FrequencyOf(key.word), key.lookups, Unknown)
  /\ UNCHANGED <<key, today>>

\* The constructor of an entry.
Constructed == MakeUint32FromUint16(0, 1)

\* The table is cleared, and the exported row inserted; then its frequency is
\* set, if the payload has it.
ImportKey(withFrequency) ==
  /\ saved # NoKey
  /\ key' = IF withFrequency THEN saved ELSE Known(Constructed, 1, Unknown)
  /\ UNCHANGED <<saved, today>>

WordNext ==
  \/ Tomorrow
  \/ \E n \in 0 .. MaxLookups : InsertKey(n) \/ LookUpKey(n)
  \/ TrainKey
  \/ \E threshold \in 0 .. MaxFrequency : DeleteOldKey(threshold)
  \/ \E freq_use_uint32 \in BOOLEAN : ExportKey(freq_use_uint32)
  \/ \E withFrequency \in BOOLEAN : ImportKey(withFrequency)

WordSpec == WordInit /\ [][WordNext]_wordvars

-----------------------------------------------------------------------------
(* Properties.                                                             *)

\* The count of a key is the number of its lookups, up to the greatest that
\* fits, and a lookup is remembered with its day, whatever the two halves of
\* the word hold: neither spills into the other, and a key that comes back
\* from an export has what it had then, or no day where only counts were kept.
WordsTellTheTruth ==
  key # NoKey =>
    /\ FrequencyOf(key.word) = IF key.lookups > MaxFrequency THEN MaxFrequency ELSE key.lookups
    /\ DayOf(key.word) = key.seen

\* DeleteWithTimestamp deletes a key if its last lookup is known and was at
\* least threshold days ago, and no other: a key that was only imported, or
\* restored from counts, stays however long nobody looks it up.
OnlyTheOldAreDeleted ==
  key # NoKey =>
    \A threshold \in 0 .. MaxFrequency :
      IsOld(key.word, today, threshold)
        <=> key.seen # Unknown /\ key.seen + threshold <= today
=============================================================================
