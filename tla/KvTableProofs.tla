--------------------------- MODULE KvTableProofs ---------------------------
(***************************************************************************)
(* Type correctness and buffer safety of KvTable, for every set of keys,   *)
(* heap and payloads, and every workload that is ZeroSafeWorkload.         *)
(***************************************************************************)
EXTENDS KvTable, TLAPS

Memories == [Buffers -> Values \cup {Freed}]

\* What holds of key k's entry e in memory m.  Ownership and the place the
\* buffer comes from determine each other; a borrowed row is the key's own
\* row of the tensor in p_values_; only a scatter update leaves a
\* (blacklisted) entry pointing to the zero buffer, and only an assignment
\* gives a blacklisted entry a buffer of its own.
EntryOK(k, e, m) ==
  /\ e.owner <=> e.buf \in Heap
  /\ e.buf \in Rows => e.buf = <<pvalues, k>>
  /\ e.buf \in Heap \cup Rows => m[e.buf] \in Values
  /\ ~e.black => e.buf \in Heap \cup Rows
  /\ e.black => ~BlacklistFree
  /\ e.black /\ e.buf \in Heap \cup Rows => "insert" \in Ops
  /\ e.buf = ZeroBuf => "scatter" \in Ops

Unshared ==
  \A j, k \in Keys :
    j # k /\ Present(j) /\ Present(k) /\ ev[j].buf \in Heap => ev[j].buf # ev[k].buf

Reachable ==
  \A b \in Heap : mem[b] # Freed => \E k \in Keys : Present(k) /\ ev[k].buf = b

\* The inductive invariant.
IInv ==
  /\ TypeOK
  /\ mem[ZeroBuf] = 0
  /\ \A k \in Keys : Present(k) => EntryOK(k, ev[k], mem)
  /\ Unshared
  /\ Reachable

-----------------------------------------------------------------------------
(* Entries. *)

LEMMA CountFacts == 0 \in Values /\ 0 \in Counts /\ 1 \in Counts
  BY ConstantsAssumption DEF Values, Counts

LEMMA SaturateAddType ==
  ASSUME NEW x \in Counts, NEW c \in Counts
  PROVE  SaturateAdd(x, c) \in Counts
  BY ConstantsAssumption DEF SaturateAdd, Counts

LEMMA BufferFacts ==
  /\ ZeroBuf \in Buffers /\ Heap \subseteq Buffers /\ Rows \subseteq Buffers
  /\ ZeroBuf \notin Heap /\ ZeroBuf \notin Rows
  /\ \A b \in Heap : b \notin Rows
  /\ Null \notin Heap /\ Null \notin Rows /\ Null # ZeroBuf
  /\ \A v \in Values : v # Freed
  /\ 0 # Freed
  BY TableAssumption, CountFacts DEF Buffers

LEMMA NewEntryType ==
  ASSUME NEW b \in Heap, NEW v \in Values, NEW c \in Counts
  PROVE  NewEntry(b, v, c) \in EmbeddingValue
  <1>1. b \in Buffers \cup {Null}
    BY BufferFacts
  <1>2. (v < DefaultCutoff) \in BOOLEAN
    BY ConstantsAssumption DEF Values, DefaultCutoff
  <1> QED
    BY <1>1, <1>2 DEF NewEntry, EmbeddingValue

LEMMA RefreshFacts ==
  ASSUME NEW e \in EmbeddingValue, NEW v
  PROVE  /\ Refresh(e, v) \in EmbeddingValue
         /\ Refresh(e, v).buf = e.buf
         /\ Refresh(e, v).owner = e.owner
         /\ Refresh(e, v).black = e.black
  <1>1. UnderThreshold(e.black, v, DefaultCutoff) \in BOOLEAN
    BY Zenon DEF UnderThreshold
  <1> QED
    BY <1>1 DEF Refresh, EmbeddingValue

LEMMA BlacklistedFacts ==
  ASSUME NEW e \in EmbeddingValue \cup {Absent}
  PROVE  /\ Blacklisted(e) \in EmbeddingValue
         /\ Blacklisted(e).black
         /\ e # Absent /\ e.black => Blacklisted(e) = e
         /\ e = Absent \/ ~e.black =>
              Blacklisted(e).buf = Null /\ Blacklisted(e).owner = FALSE
  BY CountFacts, AbsentEntryAssumption DEF Blacklisted, EmbeddingValue, Buffers

-----------------------------------------------------------------------------
(* One key changes.  m is the memory after the step and e the entry.       *)

\* The buffers a step on key k may write, allocate or free.
Within(k, m) ==
  \A b \in Heap \cup Rows :
    m[b] # mem[b] => mem[b] = Freed \/ (Present(k) /\ b = ev[k].buf)

\* A heap buffer of the new entry is a new one or the one it had.
OwnOrNew(k, e) ==
  e.buf \in Heap => mem[e.buf] = Freed \/ (Present(k) /\ e.buf = ev[k].buf)

\* A heap buffer that is allocated afterwards is the new entry's or was, and
\* is, another's.
Accounted(k, e, m) ==
  \A b \in Heap : m[b] # Freed =>
    \/ e # Absent /\ e.buf = b
    \/ mem[b] # Freed /\ ~(Present(k) /\ ev[k].buf = b)

LEMMA ChangeTypes ==
  ASSUME TypeOK, NEW k \in Keys, NEW e \in EmbeddingValue \cup {Absent},
         NEW m \in Memories, Change(k, e, m)
  PROVE  /\ TypeOK'
         /\ ev'[k] = e
         /\ \A j \in Keys : j # k => ev'[j] = ev[j]
         /\ mem' = m
         /\ pvalues' = pvalues
  BY DEF TypeOK, Change, Marked, Memories

\* A step on key k leaves what the other entries point to as it was.
LEMMA OthersUntouched ==
  ASSUME IInv, NEW k \in Keys, NEW m, Within(k, m)
  PROVE  \A j \in Keys : j # k /\ Present(j) /\ ev[j].buf \in Heap \cup Rows =>
           /\ mem[ev[j].buf] \in Values
           /\ m[ev[j].buf] = mem[ev[j].buf]
           /\ ~(Present(k) /\ ev[j].buf = ev[k].buf)
  <1> SUFFICES ASSUME NEW j \in Keys, j # k, Present(j), ev[j].buf \in Heap \cup Rows
               PROVE  /\ mem[ev[j].buf] \in Values
                      /\ m[ev[j].buf] = mem[ev[j].buf]
                      /\ ~(Present(k) /\ ev[j].buf = ev[k].buf)
    OBVIOUS
  <1>1. mem[ev[j].buf] \in Values
    BY DEF IInv, EntryOK
  <1>2. ~(Present(k) /\ ev[j].buf = ev[k].buf)
    <2>1. CASE ev[j].buf \in Heap
      BY <2>1 DEF IInv, Unshared
    <2>2. CASE ev[j].buf \in Rows
      <3>1. ev[j].buf = <<pvalues, j>>
        BY <2>2 DEF IInv, EntryOK
      <3>2. Present(k) /\ ev[k].buf \in Rows => ev[k].buf = <<pvalues, k>>
        BY DEF IInv, EntryOK
      <3>3. Present(k) /\ ev[k].buf \in Rows => ev[k].buf # ev[j].buf
        BY <3>1, <3>2
      <3> QED
        BY <2>2, <3>3
    <2> QED
      BY <2>1, <2>2
  <1> QED
    BY <1>1, <1>2, BufferFacts DEF Within

LEMMA ChangeSafe ==
  ASSUME IInv, NEW k \in Keys, NEW e \in EmbeddingValue \cup {Absent},
         NEW m \in Memories, Change(k, e, m),
         m[ZeroBuf] = 0,
         e # Absent => EntryOK(k, e, m) /\ OwnOrNew(k, e),
         Within(k, m),
         Accounted(k, e, m)
  PROVE  IInv'
  <1>1. /\ TypeOK'
        /\ ev'[k] = e
        /\ \A j \in Keys : j # k => ev'[j] = ev[j]
        /\ mem' = m
        /\ pvalues' = pvalues
    BY ChangeTypes DEF IInv
  <1>2. \A j \in Keys : j # k /\ Present(j) /\ ev[j].buf \in Heap \cup Rows =>
          /\ mem[ev[j].buf] \in Values
          /\ m[ev[j].buf] = mem[ev[j].buf]
          /\ ~(Present(k) /\ ev[j].buf = ev[k].buf)
    BY OthersUntouched
  <1>3. \A j \in Keys : Present(j)' => EntryOK(j, ev[j], mem)'
    <2> SUFFICES ASSUME NEW j \in Keys, Present(j)'
                 PROVE  EntryOK(j, ev[j], mem)'
      OBVIOUS
    <2>1. CASE j = k
      BY <1>1, <2>1 DEF Present, EntryOK
    <2>2. CASE j # k
      <3>1. Present(j) /\ EntryOK(j, ev[j], mem)
        BY <1>1, <2>2 DEF Present, IInv
      <3> QED
        BY <1>1, <1>2, <2>2, <3>1 DEF EntryOK
    <2> QED
      BY <2>1, <2>2
  <1>4. Unshared'
    <2> SUFFICES ASSUME NEW i \in Keys, NEW j \in Keys, i # j,
                        Present(i)', Present(j)', ev'[i].buf \in Heap
                 PROVE  ev'[i].buf # ev'[j].buf
      BY DEF Unshared
    <2>1. CASE i # k /\ j # k
      BY <1>1, <2>1 DEF Present, IInv, Unshared
    <2>2. CASE i = k \/ j = k
      <3> DEFINE o == IF i = k THEN j ELSE i
      <3>1. o \in Keys /\ o # k /\ Present(o) /\ ev'[o] = ev[o] /\ e # Absent
        BY <1>1, <2>2 DEF Present
      <3>2. ASSUME ev'[i].buf = ev'[j].buf PROVE FALSE
        <4>1. ev[o].buf = e.buf /\ e.buf \in Heap
          BY <1>1, <2>2, <3>1, <3>2
        <4>2. mem[e.buf] \in Values /\ ~(Present(k) /\ e.buf = ev[k].buf)
          BY <1>2, <3>1, <4>1
        <4> QED
          BY <3>1, <4>1, <4>2, BufferFacts DEF OwnOrNew
      <3> QED
        BY <3>2
    <2> QED
      BY <2>1, <2>2
  <1>5. Reachable'
    <2> SUFFICES ASSUME NEW b \in Heap, m[b] # Freed
                 PROVE  \E j \in Keys : Present(j)' /\ ev'[j].buf = b
      BY <1>1 DEF Reachable
    <2>1. CASE e # Absent /\ e.buf = b
      BY <1>1, <2>1 DEF Present
    <2>2. CASE mem[b] # Freed /\ ~(Present(k) /\ ev[k].buf = b)
      <3>1. PICK j \in Keys : Present(j) /\ ev[j].buf = b
        BY <2>2 DEF IInv, Reachable
      <3> QED
        BY <1>1, <2>2, <3>1 DEF Present
    <2> QED
      BY <2>1, <2>2 DEF Accounted
  <1> QED
    BY <1>1, <1>3, <1>4, <1>5 DEF IInv

-----------------------------------------------------------------------------
(* Memory, and the three shapes a one-key step has. *)

LEMMA WrittenFacts ==
  ASSUME NEW m \in Memories, NEW b \in Buffers, NEW v \in Values
  PROVE  /\ Written(m, b, v) \in Memories
         /\ Written(m, b, v)[b] = v
         /\ \A x \in Buffers : x # b => Written(m, b, v)[x] = m[x]
  BY DEF Written, Memories

LEMMA ReleaseFacts ==
  ASSUME NEW m \in Memories, NEW S
  PROVE  /\ Release(m, S) \in Memories
         /\ \A x \in Buffers : Release(m, S)[x] = IF x \in S THEN Freed ELSE m[x]
  BY DEF Release, Memories

LEMMA OwnedFacts ==
  ASSUME IInv, NEW k \in Keys, Present(k)
  PROVE  /\ ev[k] \in EmbeddingValue
         /\ EntryOK(k, ev[k], mem)
         /\ Owned(ev[k]) = IF ev[k].buf \in Heap THEN {ev[k].buf} ELSE {}
  <1>1. ev[k] \in EmbeddingValue /\ EntryOK(k, ev[k], mem)
    BY DEF IInv, TypeOK, Present
  <1> QED
    BY <1>1, BufferFacts DEF EntryOK, Owned

\* The entry is given a buffer the allocator just handed out.
LEMMA NewBufferSafe ==
  ASSUME IInv, NEW k \in Keys, NEW b \in Available, NEW e \in EmbeddingValue,
         NEW m \in Memories, Change(k, e, m),
         e.buf = b, e.owner, e.black => ~BlacklistFree /\ "insert" \in Ops,
         m[b] \in Values,
         \A x \in Buffers \ {b} :
           m[x] = IF Present(k) /\ x \in Owned(ev[k]) THEN Freed ELSE mem[x]
  PROVE  IInv'
  <1>1. b \in Heap /\ mem[b] = Freed /\ e # Absent
    BY AbsentEntryAssumption DEF Available
  <1>2. \A x \in Buffers : Present(k) /\ x \in Owned(ev[k]) =>
          x \in Heap /\ x = ev[k].buf
    BY OwnedFacts
  <1>3. \A x \in Heap : Present(k) /\ x = ev[k].buf => x \in Owned(ev[k])
    BY OwnedFacts
  <1>4. m[ZeroBuf] = 0
    BY <1>1, <1>2, BufferFacts DEF IInv
  <1>5. EntryOK(k, e, m) /\ OwnOrNew(k, e)
    BY <1>1, BufferFacts DEF EntryOK, OwnOrNew
  <1>6. Within(k, m)
    BY <1>1, <1>2, BufferFacts DEF Within
  <1>7. Accounted(k, e, m)
    BY <1>1, <1>3, BufferFacts DEF Accounted
  <1> QED
    BY <1>4, <1>5, <1>6, <1>7, ChangeSafe

\* The entry keeps its buffer, and the step writes at most that buffer.
LEMMA SameBufferSafe ==
  ASSUME IInv, NEW k \in Keys, Present(k), NEW e \in EmbeddingValue,
         NEW m \in Memories, Change(k, e, m),
         e.buf = ev[k].buf, e.owner = ev[k].owner, e.black = ev[k].black,
         \A x \in Buffers :
           m[x] # mem[x] => x = e.buf /\ x # ZeroBuf /\ m[x] \in Values
  PROVE  IInv'
  <1>1. EntryOK(k, ev[k], mem) /\ e # Absent
    BY OwnedFacts, AbsentEntryAssumption
  <1>2. m[ZeroBuf] = 0
    BY BufferFacts DEF IInv
  <1>3. EntryOK(k, e, m) /\ OwnOrNew(k, e)
    BY <1>1, BufferFacts DEF EntryOK, OwnOrNew
  <1>4. Within(k, m)
    BY BufferFacts DEF Within
  <1>5. Accounted(k, e, m)
    BY <1>1, BufferFacts DEF Accounted
  <1> QED
    BY <1>2, <1>3, <1>4, <1>5, ChangeSafe

\* The entry goes, or loses its buffer to the blacklist; the buffer is freed.
LEMMA DroppedBufferSafe ==
  ASSUME IInv, NEW k \in Keys, NEW e \in EmbeddingValue \cup {Absent},
         NEW m \in Memories, Change(k, e, m),
         e # Absent => /\ e.black /\ e.owner = FALSE /\ ~BlacklistFree
                       /\ e.buf = Null \/ (e.buf = ZeroBuf /\ "scatter" \in Ops),
         \A x \in Buffers :
           m[x] = IF Present(k) /\ x \in Owned(ev[k]) THEN Freed ELSE mem[x]
  PROVE  IInv'
  <1>1. \A x \in Buffers : Present(k) /\ x \in Owned(ev[k]) =>
          x \in Heap /\ x = ev[k].buf
    BY OwnedFacts
  <1>2. \A x \in Heap : Present(k) /\ x = ev[k].buf => x \in Owned(ev[k])
    BY OwnedFacts
  <1>3. m[ZeroBuf] = 0
    BY <1>1, BufferFacts DEF IInv
  <1>4. e # Absent => EntryOK(k, e, m) /\ OwnOrNew(k, e)
    BY BufferFacts DEF EntryOK, OwnOrNew
  <1>5. Within(k, m)
    BY <1>1, BufferFacts DEF Within
  <1>6. Accounted(k, e, m)
    BY <1>2, BufferFacts DEF Accounted
  <1> QED
    BY <1>3, <1>4, <1>5, <1>6, ChangeSafe

-----------------------------------------------------------------------------
(* The operations on one key. *)

LEMMA MemoryFacts ==
  ASSUME IInv
  PROVE  mem \in Memories /\ \A b \in Available : b \in Heap /\ b \in Buffers
  BY BufferFacts DEF IInv, TypeOK, Memories, Available

LEMMA InsertSafe ==
  ASSUME IInv, NEW k \in Keys, NEW v \in Values, NEW c \in Counts, Insert(k, v, c)
  PROVE  IInv'
  <1>1. PICK b \in Available : Change(k, NewEntry(b, v, c), Written(mem, b, v))
    BY DEF Insert
  <1>2. NewEntry(b, v, c) \in EmbeddingValue
    BY MemoryFacts, NewEntryType
  <1>3. /\ NewEntry(b, v, c).buf = b
        /\ NewEntry(b, v, c).owner
        /\ ~NewEntry(b, v, c).black
    BY DEF NewEntry
  <1>4. /\ Written(mem, b, v) \in Memories
        /\ Written(mem, b, v)[b] = v
        /\ \A x \in Buffers : x # b => Written(mem, b, v)[x] = mem[x]
    BY MemoryFacts, WrittenFacts
  <1>5. ~Present(k)
    BY DEF Insert
  <1> QED
    BY <1>1, <1>2, <1>3, <1>4, <1>5, NewBufferSafe

\* A write through the pointer of an entry whose buffer is not the zero buffer.
LEMMA WriteSafe ==
  ASSUME IInv, NEW k \in Keys, Present(k), NEW v \in Values,
         NEW e \in EmbeddingValue,
         e.buf = ev[k].buf, e.owner = ev[k].owner, e.black = ev[k].black,
         ev[k].buf \in Heap \cup Rows,
         Change(k, e, Written(mem, e.buf, v))
  PROVE  IInv'
  <1>1. e.buf \in Buffers /\ e.buf # ZeroBuf
    BY BufferFacts
  <1>2. /\ Written(mem, e.buf, v) \in Memories
        /\ Written(mem, e.buf, v)[e.buf] = v
        /\ \A x \in Buffers : x # e.buf => Written(mem, e.buf, v)[x] = mem[x]
    BY <1>1, MemoryFacts, WrittenFacts
  <1> QED
    BY <1>1, <1>2, SameBufferSafe

LEMMA GatherSafe ==
  ASSUME IInv, NEW k \in Keys, NEW c \in Counts, NEW v \in Values, Gather(k, c, v)
  PROVE  IInv'
  <1>1. CASE Insert(k, v, c)
    BY <1>1, InsertSafe
  <1>2. CASE Present(k) /\ ~Insert(k, v, c)
    <2> DEFINE e == [ev[k] EXCEPT !.cnt = SaturateAdd(@, c)]
               r == Refresh(e, Content(e))
    <2>1. ev[k] \in EmbeddingValue
      BY <1>2, OwnedFacts
    <2>2. SaturateAdd(ev[k].cnt, c) \in Counts
      BY <2>1, SaturateAddType DEF EmbeddingValue
    <2>3. /\ e \in EmbeddingValue /\ e.buf = ev[k].buf
          /\ e.owner = ev[k].owner /\ e.black = ev[k].black
      BY <2>1, <2>2 DEF EmbeddingValue
    <2>4. /\ r \in EmbeddingValue /\ r.buf = ev[k].buf
          /\ r.owner = ev[k].owner /\ r.black = ev[k].black
      BY <2>3, RefreshFacts
    <2>5. Change(k, r, mem)
      BY <1>2 DEF Gather
    <2> HIDE DEF r
    <2> QED
      BY <1>2, <2>4, <2>5, MemoryFacts, SameBufferSafe
  <1> QED
    BY <1>1, <1>2 DEF Gather

LEMMA InsertOrUpdateSafe ==
  ASSUME IInv, ZeroSafeWorkload, "insert" \in Ops,
         NEW k \in Keys, NEW v \in Values, InsertOrUpdate(k, v)
  PROVE  IInv'
  <1>1. CASE Insert(k, v, 1)
    BY <1>1, CountFacts, InsertSafe
  <1>2. CASE /\ Present(k)
             /\ ev[k].buf = Null
             /\ \E b \in Available :
                  Change(k, Refresh([ev[k] EXCEPT !.buf = b, !.owner = TRUE], v),
                         Written(mem, b, v))
    <2>1. PICK b \in Available :
            Change(k, Refresh([ev[k] EXCEPT !.buf = b, !.owner = TRUE], v),
                   Written(mem, b, v))
      BY <1>2
    <2> DEFINE e == [ev[k] EXCEPT !.buf = b, !.owner = TRUE]
               r == Refresh(e, v)
    <2>2. /\ ev[k] \in EmbeddingValue /\ EntryOK(k, ev[k], mem)
          /\ Owned(ev[k]) = {}
      BY <1>2, OwnedFacts, BufferFacts
    <2>3. /\ e \in EmbeddingValue /\ e.buf = b
          /\ e.owner /\ e.black = ev[k].black
      BY <2>2, MemoryFacts DEF EmbeddingValue
    <2>4. /\ r \in EmbeddingValue /\ r.buf = b
          /\ r.owner /\ r.black = ev[k].black
      BY <2>3, RefreshFacts
    <2>5. /\ Written(mem, b, v) \in Memories
          /\ Written(mem, b, v)[b] = v
          /\ \A x \in Buffers : x # b => Written(mem, b, v)[x] = mem[x]
      BY MemoryFacts, WrittenFacts
    <2>6. r.black => ~BlacklistFree
      BY <2>2, <2>4 DEF EntryOK
    <2>7. Change(k, r, Written(mem, b, v))
      BY <2>1
    <2> HIDE DEF r
    <2> QED
      BY <2>2, <2>4, <2>5, <2>6, <2>7, NewBufferSafe
  <1>3. CASE /\ Present(k)
             /\ ev[k].buf # Null
             /\ Change(k, Refresh(ev[k], v), Written(mem, ev[k].buf, v))
    <2>1. /\ ev[k] \in EmbeddingValue /\ EntryOK(k, ev[k], mem)
      BY <1>3, OwnedFacts
    <2>2. ev[k].buf # ZeroBuf
      BY <2>1, BufferFacts DEF EntryOK, ZeroSafeWorkload
    <2>3. ev[k].buf \in Heap \cup Rows
      BY <1>3, <2>1, <2>2 DEF EmbeddingValue, Buffers
    <2> QED
      BY <1>3, <2>1, <2>3, RefreshFacts, WriteSafe
  <1> QED
    BY <1>1, <1>2, <1>3 DEF InsertOrUpdate

LEMMA FilteredUpdateSafe ==
  ASSUME IInv, NEW k \in Keys, FilteredUpdate(k)
  PROVE  IInv'
  <1>1. CASE Present(k)
    BY <1>1, OwnedFacts, MemoryFacts, SameBufferSafe DEF FilteredUpdate
  <1>2. CASE ~Present(k)
    BY <1>2, MemoryFacts, DroppedBufferSafe DEF FilteredUpdate, Present
  <1> QED
    BY <1>1, <1>2

\* Turning the entry into a blacklisted one.
LEMMA MarkBlacklistSafe ==
  ASSUME IInv, ~BlacklistFree, NEW k \in Keys, MarkBlacklist(k)
  PROVE  IInv'
  <1>0. ev[k] \in EmbeddingValue \cup {Absent}
    BY DEF IInv, TypeOK
  <1> DEFINE m == Release(mem, DroppedBy(ev[k]))
  <1>1. /\ m \in Memories
        /\ \A x \in Buffers : m[x] = IF x \in DroppedBy(ev[k]) THEN Freed ELSE mem[x]
    BY MemoryFacts, ReleaseFacts
  <1>2. Change(k, Blacklisted(ev[k]), m)
    BY DEF MarkBlacklist
  <1>3. CASE Present(k) /\ ev[k].black
    <2>1. Blacklisted(ev[k]) = ev[k] /\ DroppedBy(ev[k]) = {}
      BY <1>3 DEF Blacklisted, DroppedBy, Present
    <2> HIDE DEF m
    <2> QED
      BY <1>1, <1>2, <1>3, <2>1, OwnedFacts, SameBufferSafe
  <1>4. CASE ~Present(k) \/ ~ev[k].black
    <2>1. /\ Blacklisted(ev[k]) \in EmbeddingValue
          /\ Blacklisted(ev[k]).black
          /\ Blacklisted(ev[k]).owner = FALSE
          /\ Blacklisted(ev[k]).buf = Null
      BY <1>0, <1>4, BlacklistedFacts DEF Present
    <2>2. DroppedBy(ev[k]) = IF Present(k) THEN Owned(ev[k]) ELSE {}
      BY <1>4 DEF DroppedBy, Present
    <2> HIDE DEF m
    <2> QED
      BY <1>1, <1>2, <2>1, <2>2, DroppedBufferSafe
  <1> QED
    BY <1>3, <1>4

LEMMA ScatterUpdateSafe ==
  ASSUME IInv, ZeroSafeWorkload, "scatter" \in Ops,
         NEW k \in Keys, NEW v \in Values, ScatterUpdate(k, v)
  PROVE  IInv'
  <1>1. CASE Insert(k, v, 1)
    BY <1>1, CountFacts, InsertSafe
  <1>2. CASE /\ Present(k)
             /\ ~ev[k].black
             /\ Change(k, Refresh(ev[k], v), Written(mem, ev[k].buf, v))
    <2>1. ev[k] \in EmbeddingValue /\ ev[k].buf \in Heap \cup Rows
      BY <1>2, OwnedFacts DEF EntryOK
    <2> QED
      BY <1>2, <2>1, RefreshFacts, WriteSafe
  <1>3. CASE /\ Present(k)
             /\ ev[k].black
             /\ Change(k, [ev[k] EXCEPT !.buf = ZeroBuf],
                       Release(mem, Owned(ev[k]) \ {ZeroBuf}))
    <2>1. /\ ev[k] \in EmbeddingValue /\ EntryOK(k, ev[k], mem)
          /\ Owned(ev[k]) = IF ev[k].buf \in Heap THEN {ev[k].buf} ELSE {}
      BY <1>3, OwnedFacts
    <2>2. ~BlacklistFree /\ ev[k].buf \notin Heap /\ ev[k].owner = FALSE
      BY <1>3, <2>1 DEF EntryOK, ZeroSafeWorkload, EmbeddingValue
    <2> DEFINE e == [ev[k] EXCEPT !.buf = ZeroBuf]
               m == Release(mem, Owned(ev[k]) \ {ZeroBuf})
    <2>3. /\ e \in EmbeddingValue /\ e.buf = ZeroBuf
          /\ e.owner = FALSE /\ e.black
      BY <1>3, <2>1, <2>2, BufferFacts DEF EmbeddingValue
    <2>4. Owned(ev[k]) = {} /\ Owned(ev[k]) \ {ZeroBuf} = {}
      BY <2>1, <2>2
    <2>5. /\ m \in Memories
          /\ \A x \in Buffers : m[x] = mem[x]
      BY <2>4, MemoryFacts, ReleaseFacts
    <2>6. Change(k, e, m)
      BY <1>3
    <2> HIDE DEF e, m
    <2> QED
      BY <2>2, <2>3, <2>4, <2>5, <2>6, DroppedBufferSafe
  <1> QED
    BY <1>1, <1>2, <1>3 DEF ScatterUpdate

\* What FindOrInsertUnsafe hands an optimizer: the entry as it is, or one with
\* a buffer just allocated, the old one being freed.
LEMMA TrainFoundFacts ==
  ASSUME IInv, NEW k \in Keys, NEW i \in Values, NEW f \in TrainFound(k, i)
  PROVE  \/ /\ Present(k) /\ ~ev[k].black
            /\ f.e = ev[k] /\ f.m = mem
         \/ \E b \in Available :
              /\ f.e \in EmbeddingValue
              /\ f.e.buf = b /\ f.e.owner /\ ~f.e.black
              /\ f.m \in Memories
              /\ \A x \in Buffers \ {b} :
                   f.m[x] = IF Present(k) /\ x \in Owned(ev[k]) THEN Freed ELSE mem[x]
  <1>1. CASE ~Present(k)
    <2>1. PICK b \in Available : f = [e |-> NewEntry(b, i, 1), m |-> Written(mem, b, i)]
      BY <1>1 DEF TrainFound
    <2>2. NewEntry(b, i, 1) \in EmbeddingValue
      BY MemoryFacts, NewEntryType, CountFacts
    <2>3. f.e.buf = b /\ f.e.owner /\ ~f.e.black
      BY <2>1 DEF NewEntry
    <2>4. /\ f.m \in Memories
          /\ \A x \in Buffers : x # b => f.m[x] = mem[x]
      BY <2>1, MemoryFacts, WrittenFacts
    <2> QED
      BY <1>1, <2>1, <2>2, <2>3, <2>4
  <1>2. CASE Present(k) /\ ~ev[k].black
    BY <1>2 DEF TrainFound
  <1>3. CASE Present(k) /\ ev[k].black
    <2> DEFINE E(b) == [ev[k] EXCEPT !.buf = b, !.owner = TRUE, !.black = FALSE, !.under = TRUE]
               M(b) == Written(Release(mem, Owned(ev[k])), b, 0)
    <2>1. PICK b \in Available : f = [e |-> E(b), m |-> M(b)]
      BY <1>3 DEF TrainFound
    <2>2. ev[k] \in EmbeddingValue
      BY <1>3, OwnedFacts
    <2>3. E(b) \in EmbeddingValue /\ E(b).buf = b /\ E(b).owner /\ ~E(b).black
      BY <2>2, MemoryFacts DEF EmbeddingValue
    <2>4. /\ M(b) \in Memories
          /\ \A x \in Buffers \ {b} : M(b)[x] = IF x \in Owned(ev[k]) THEN Freed ELSE mem[x]
      BY MemoryFacts, ReleaseFacts, WrittenFacts, CountFacts
    <2> HIDE DEF E, M
    <2> QED
      BY <1>3, <2>1, <2>3, <2>4
  <1> QED
    BY <1>1, <1>2, <1>3

\* An optimizer that writes the row, with or without refreshing the flag.
LEMMA TrainWriteSafe ==
  ASSUME IInv, NEW k \in Keys, NEW i \in Values, NEW v \in Values,
         NEW f \in TrainFound(k, i), NEW e \in EmbeddingValue,
         e.buf = f.e.buf, e.owner = f.e.owner, e.black = f.e.black,
         Change(k, e, Written(f.m, f.e.buf, v))
  PROVE  IInv'
  <1>1. CASE Present(k) /\ ~ev[k].black /\ f.e = ev[k] /\ f.m = mem
    <2>1. ev[k].buf \in Heap \cup Rows
      BY <1>1, OwnedFacts DEF EntryOK
    <2> QED
      BY <1>1, <2>1, WriteSafe
  <1>2. CASE \E b \in Available :
               /\ f.e \in EmbeddingValue
               /\ f.e.buf = b /\ f.e.owner /\ ~f.e.black
               /\ f.m \in Memories
               /\ \A x \in Buffers \ {b} :
                    f.m[x] = IF Present(k) /\ x \in Owned(ev[k]) THEN Freed ELSE mem[x]
    <2>1. PICK b \in Available :
            /\ f.e.buf = b /\ f.e.owner /\ ~f.e.black
            /\ f.m \in Memories
            /\ \A x \in Buffers \ {b} :
                 f.m[x] = IF Present(k) /\ x \in Owned(ev[k]) THEN Freed ELSE mem[x]
      BY <1>2
    <2> DEFINE m == Written(f.m, b, v)
    <2>2. /\ m \in Memories /\ m[b] = v
          /\ \A x \in Buffers : x # b => m[x] = f.m[x]
      BY <2>1, MemoryFacts, WrittenFacts
    <2>3. Change(k, e, m)
      BY <2>1
    <2> HIDE DEF m
    <2> QED
      BY <2>1, <2>2, <2>3, NewBufferSafe, ZenonT(30)
  <1> QED
    BY <1>1, <1>2, TrainFoundFacts

LEMMA TrainFoundType ==
  ASSUME IInv, NEW k \in Keys, NEW i \in Values, NEW f \in TrainFound(k, i)
  PROVE  f.e \in EmbeddingValue
  BY TrainFoundFacts, OwnedFacts

LEMMA TrainCoverSafe ==
  ASSUME IInv, NEW k \in Keys, NEW i \in Values, NEW v \in Values, TrainCover(k, i, v)
  PROVE  IInv'
  <1>1. PICK f \in TrainFound(k, i) : Change(k, Refresh(f.e, v), Written(f.m, f.e.buf, v))
    BY DEF TrainCover
  <1> QED
    BY <1>1, TrainFoundType, RefreshFacts, TrainWriteSafe

LEMMA TrainPlainSafe ==
  ASSUME IInv, NEW k \in Keys, NEW i \in Values, NEW v \in Values, TrainPlain(k, i, v)
  PROVE  IInv'
  <1>1. PICK f \in TrainFound(k, i) : Change(k, f.e, Written(f.m, f.e.buf, v))
    BY DEF TrainPlain
  <1> QED
    BY <1>1, TrainFoundType, TrainWriteSafe

LEMMA TrainLassoSafe ==
  ASSUME IInv, ~BlacklistFree, NEW k \in Keys, NEW i \in Values, TrainLasso(k, i)
  PROVE  IInv'
  <1>1. PICK f \in TrainFound(k, i) : Change(k, Blacklisted(f.e), Release(f.m, Owned(f.e)))
    BY DEF TrainLasso
  <1>2. /\ f.e \in EmbeddingValue /\ ~f.e.black /\ f.e # Absent
        /\ f.m \in Memories
    <2>1. f.e \in EmbeddingValue /\ f.e # Absent
      BY TrainFoundType, AbsentEntryAssumption
    <2>2. ~f.e.black /\ f.m \in Memories
      BY TrainFoundFacts, MemoryFacts
    <2> QED
      BY <2>1, <2>2
  <1>3. /\ Blacklisted(f.e) \in EmbeddingValue
        /\ Blacklisted(f.e).black
        /\ Blacklisted(f.e).owner = FALSE
        /\ Blacklisted(f.e).buf = Null
    BY <1>2, BlacklistedFacts
  <1> DEFINE m == Release(f.m, Owned(f.e))
  <1>4. /\ m \in Memories
        /\ \A x \in Buffers : m[x] = IF x \in Owned(f.e) THEN Freed ELSE f.m[x]
    BY <1>2, ReleaseFacts
  <1>5. \A x \in Buffers : m[x] = IF Present(k) /\ x \in Owned(ev[k]) THEN Freed ELSE mem[x]
    <2>1. CASE Present(k) /\ f.e = ev[k] /\ f.m = mem
      BY <1>4, <2>1
    <2>2. CASE \E b \in Available :
                 /\ f.e.buf = b /\ f.e.owner
                 /\ \A x \in Buffers \ {b} :
                      f.m[x] = IF Present(k) /\ x \in Owned(ev[k]) THEN Freed ELSE mem[x]
      <3>1. PICK b \in Available :
              /\ f.e.buf = b /\ f.e.owner
              /\ \A x \in Buffers \ {b} :
                   f.m[x] = IF Present(k) /\ x \in Owned(ev[k]) THEN Freed ELSE mem[x]
        BY <2>2
      <3>2. Owned(f.e) = {b} /\ mem[b] = Freed
        BY <3>1, MemoryFacts, BufferFacts DEF Owned, Available
      <3> QED
        BY <1>4, <3>1, <3>2
    <2> QED
      BY <2>1, <2>2, TrainFoundFacts
  <1>6. Change(k, Blacklisted(f.e), m)
    BY <1>1
  <1> HIDE DEF m
  <1> QED
    BY <1>3, <1>4, <1>5, <1>6, DroppedBufferSafe

LEMMA SlotFoundFacts ==
  ASSUME IInv, NEW k \in Keys, NEW i \in Values, NEW f \in SlotFound(k, i)
  PROVE  \/ /\ Present(k)
            /\ f.e \in EmbeddingValue
            /\ f.e.buf = ev[k].buf /\ f.e.owner = ev[k].owner /\ f.e.black = ev[k].black
            /\ f.m = mem
         \/ /\ ~Present(k)
            /\ \E b \in Available : /\ f.e = NewEntry(b, i, 1)
                                    /\ f.m = Written(mem, b, i)
  <1>1. CASE ~Present(k)
    BY <1>1 DEF SlotFound
  <1>2. CASE Present(k)
    <2>1. f = [e |-> [ev[k] EXCEPT !.cnt = SaturateAdd(@, 1)], m |-> mem]
      BY <1>2 DEF SlotFound
    <2>2. ev[k] \in EmbeddingValue
      BY <1>2, OwnedFacts
    <2>3. SaturateAdd(ev[k].cnt, 1) \in Counts
      BY <2>2, CountFacts, SaturateAddType DEF EmbeddingValue
    <2> QED
      BY <1>2, <2>1, <2>2, <2>3 DEF EmbeddingValue
  <1> QED
    BY <1>1, <1>2

LEMMA SlotWriteSafe ==
  ASSUME IInv, ZeroSafeWorkload, "slot" \in Ops,
         NEW k \in Keys, NEW i \in Values, NEW v \in Values,
         NEW f \in SlotFound(k, i), NEW e \in EmbeddingValue,
         e.buf = f.e.buf, e.owner = f.e.owner, e.black = f.e.black,
         Change(k, e, Written(f.m, SlotTarget(f.e), v))
  PROVE  IInv'
  <1>1. BlacklistFree
    BY DEF ZeroSafeWorkload
  <1>2. CASE /\ Present(k)
             /\ f.e \in EmbeddingValue
             /\ f.e.buf = ev[k].buf /\ f.e.owner = ev[k].owner /\ f.e.black = ev[k].black
             /\ f.m = mem
    <2>1. ~ev[k].black /\ ev[k].buf \in Heap \cup Rows
      BY <1>1, <1>2, OwnedFacts DEF EntryOK
    <2>2. SlotTarget(f.e) = e.buf
      BY <1>2, <2>1 DEF SlotTarget
    <2> QED
      BY <1>2, <2>1, <2>2, WriteSafe
  <1>3. CASE /\ ~Present(k)
             /\ \E b \in Available : /\ f.e = NewEntry(b, i, 1)
                                     /\ f.m = Written(mem, b, i)
    <2>1. PICK b \in Available : f.e = NewEntry(b, i, 1) /\ f.m = Written(mem, b, i)
      BY <1>3
    <2>2. f.e \in EmbeddingValue
      BY <2>1, MemoryFacts, NewEntryType, CountFacts
    <2>3. f.e.buf = b /\ f.e.owner /\ ~f.e.black /\ SlotTarget(f.e) = b
      BY <2>1 DEF NewEntry, SlotTarget
    <2>4. /\ f.m \in Memories
          /\ \A x \in Buffers : x # b => f.m[x] = mem[x]
      BY <2>1, MemoryFacts, WrittenFacts
    <2> DEFINE m == Written(f.m, b, v)
    <2>5. /\ m \in Memories /\ m[b] = v
          /\ \A x \in Buffers : x # b => m[x] = mem[x]
      BY <2>4, MemoryFacts, WrittenFacts, SMTT(20)
    <2>6. Change(k, e, m)
      BY <2>3
    <2> HIDE DEF m
    <2> QED
      BY <1>3, <2>2, <2>3, <2>5, <2>6, NewBufferSafe
  <1> QED
    BY <1>2, <1>3, SlotFoundFacts

LEMMA SlotFoundType ==
  ASSUME IInv, NEW k \in Keys, NEW i \in Values, NEW f \in SlotFound(k, i)
  PROVE  f.e \in EmbeddingValue
  <1>1. \A b \in Available : NewEntry(b, i, 1) \in EmbeddingValue
    BY MemoryFacts, NewEntryType, CountFacts
  <1> QED
    BY <1>1, SlotFoundFacts

LEMMA SlotCoverSafe ==
  ASSUME IInv, ZeroSafeWorkload, "slot" \in Ops,
         NEW k \in Keys, NEW i \in Values, NEW v \in Values, SlotCover(k, i, v)
  PROVE  IInv'
  <1>1. PICK f \in SlotFound(k, i) :
          Change(k, Refresh(f.e, v), Written(f.m, SlotTarget(f.e), v))
    BY DEF SlotCover
  <1> QED
    BY <1>1, SlotFoundType, RefreshFacts, SlotWriteSafe

LEMMA SlotPlainSafe ==
  ASSUME IInv, ZeroSafeWorkload, "slot" \in Ops,
         NEW k \in Keys, NEW i \in Values, NEW v \in Values, SlotPlain(k, i, v)
  PROVE  IInv'
  <1>1. PICK f \in SlotFound(k, i) : Change(k, f.e, Written(f.m, SlotTarget(f.e), v))
    BY DEF SlotPlain
  <1> QED
    BY <1>1, SlotFoundType, SlotWriteSafe

LEMMA DeleteSafe ==
  ASSUME IInv, NEW k \in Keys, Delete(k)
  PROVE  IInv'
  <1> DEFINE m == Release(mem, OwnedBy({k}))
  <1>1. /\ m \in Memories
        /\ \A x \in Buffers : m[x] = IF x \in OwnedBy({k}) THEN Freed ELSE mem[x]
    BY MemoryFacts, ReleaseFacts
  <1>2. \A x : x \in OwnedBy({k}) <=> Present(k) /\ x \in Owned(ev[k])
    BY Zenon DEF OwnedBy
  <1>3. Change(k, Absent, m)
    BY DEF Delete
  <1> HIDE DEF m
  <1> QED
    BY <1>1, <1>2, <1>3, DroppedBufferSafe

-----------------------------------------------------------------------------
(* The operations on the whole table. *)

LEMMA OwnedByFacts ==
  ASSUME IInv, NEW S \in SUBSET Keys
  PROVE  \A x : x \in OwnedBy(S) <=>
                \E k \in S : Present(k) /\ x = ev[k].buf /\ x \in Heap
  <1>1. \A x : x \in OwnedBy(S) <=> \E k \in S : Present(k) /\ x \in Owned(ev[k])
    BY Zenon DEF OwnedBy
  <1>2. \A k \in S : \A x : Present(k) => (x \in Owned(ev[k]) <=> x = ev[k].buf /\ x \in Heap)
    BY OwnedFacts
  <1> QED
    BY <1>1, <1>2

\* IInv speaks of an entry's buffer, owner and blacklist flags, not of its
\* counts or its under_threshold_.
LEMMA SameEntriesSafe ==
  ASSUME IInv, TypeOK', UNCHANGED <<mem, pvalues>>,
         \A k \in Keys :
           /\ Present(k)' <=> Present(k)
           /\ Present(k) => /\ ev'[k].buf = ev[k].buf
                            /\ ev'[k].owner = ev[k].owner
                            /\ ev'[k].black = ev[k].black
  PROVE  IInv'
  <1>1. \A k \in Keys : Present(k)' => EntryOK(k, ev[k], mem)'
    BY DEF IInv, EntryOK
  <1>2. Unshared'
    BY DEF IInv, Unshared
  <1>3. Reachable'
    BY DEF IInv, Reachable
  <1> QED
    BY <1>1, <1>2, <1>3 DEF IInv

LEMMA ExportListsType ==
  ASSUME IInv, NEW n \in FirstN, ExportLists(n)
  PROVE  train' \in SUBSET Keys /\ pred' \in SUBSET Keys
  BY DEF IInv, TypeOK, ExportLists, TrainListAfterExport, PredictionListAfterExport

LEMMA DeltaExportSafe ==
  ASSUME IInv, NEW n \in FirstN, DeltaExport(n)
  PROVE  IInv'
  <1>1. TypeOK'
    BY ExportListsType DEF IInv, TypeOK, DeltaExport
  <1> QED
    BY <1>1, SameEntriesSafe DEF DeltaExport, Present

LEMMA ExportValuesSafe ==
  ASSUME IInv, NEW n \in FirstN, NEW c \in Cutoffs, ExportValues(n, c)
  PROVE  IInv'
  <1>1. \A k \in Keys :
          /\ RefreshedEntry(ev[k], c) \in EmbeddingValue \cup {Absent}
          /\ RefreshedEntry(ev[k], c) # Absent <=> Present(k)
          /\ Present(k) => /\ RefreshedEntry(ev[k], c).buf = ev[k].buf
                           /\ RefreshedEntry(ev[k], c).owner = ev[k].owner
                           /\ RefreshedEntry(ev[k], c).black = ev[k].black
    <2> SUFFICES ASSUME NEW k \in Keys
                 PROVE  /\ RefreshedEntry(ev[k], c) \in EmbeddingValue \cup {Absent}
                        /\ RefreshedEntry(ev[k], c) # Absent <=> Present(k)
                        /\ Present(k) =>
                             /\ RefreshedEntry(ev[k], c).buf = ev[k].buf
                             /\ RefreshedEntry(ev[k], c).owner = ev[k].owner
                             /\ RefreshedEntry(ev[k], c).black = ev[k].black
      OBVIOUS
    <2>1. CASE ~Present(k) \/ c = DefaultCutoff
      BY <2>1 DEF RefreshedEntry, Present, IInv, TypeOK
    <2>2. CASE Present(k) /\ c # DefaultCutoff
      <3> DEFINE u == ev[k].buf = Null \/ UnderThreshold(ev[k].black, mem[ev[k].buf], c)
      <3>1. RefreshedEntry(ev[k], c) = [ev[k] EXCEPT !.under = u]
        BY <2>2 DEF RefreshedEntry, Present
      <3>2. u \in BOOLEAN
        BY Zenon
      <3>3. ev[k] \in EmbeddingValue
        BY <2>2, OwnedFacts
      <3> HIDE DEF u
      <3>4. /\ RefreshedEntry(ev[k], c) \in EmbeddingValue
            /\ RefreshedEntry(ev[k], c).buf = ev[k].buf
            /\ RefreshedEntry(ev[k], c).owner = ev[k].owner
            /\ RefreshedEntry(ev[k], c).black = ev[k].black
        BY <3>1, <3>2, <3>3 DEF EmbeddingValue
      <3> QED
        BY <2>2, <3>4, AbsentEntryAssumption
    <2> QED
      BY <2>1, <2>2
  <1>2. TypeOK'
    BY <1>1, ExportListsType DEF IInv, TypeOK, ExportValues
  <1>3. \A k \in Keys : ev'[k] = RefreshedEntry(ev[k], c)
    BY DEF ExportValues
  <1> QED
    BY <1>1, <1>2, <1>3, SameEntriesSafe DEF ExportValues, Present

LEMMA DeleteWithTimestampSafe ==
  ASSUME IInv, NEW S \in SUBSET Keys, DeleteWithTimestamp(S)
  PROVE  IInv'
  <1>1. /\ mem' \in Memories
        /\ \A x \in Buffers : mem'[x] = IF x \in OwnedBy(S) THEN Freed ELSE mem[x]
    BY MemoryFacts, ReleaseFacts DEF DeleteWithTimestamp
  <1>2. /\ \A k \in Keys : Present(k)' <=> Present(k) /\ k \notin S
        /\ \A k \in Keys \ S : ev'[k] = ev[k]
        /\ pvalues' = pvalues
    BY DEF DeleteWithTimestamp, DeletedEntries, Present
  <1>3. TypeOK'
    BY <1>1 DEF IInv, TypeOK, DeleteWithTimestamp, DeletedEntries, Marked, Memories
  <1>4. \A k \in Keys : Present(k)' /\ ev[k].buf \in Heap \cup Rows =>
          mem'[ev[k].buf] = mem[ev[k].buf]
    <2> SUFFICES ASSUME NEW k \in Keys, Present(k)', ev[k].buf \in Heap \cup Rows
                 PROVE  ev[k].buf \notin OwnedBy(S)
      BY <1>1, BufferFacts
    <2>1. \A j \in S : Present(j) /\ ev[j].buf \in Heap => ev[j].buf # ev[k].buf
      BY <1>2 DEF IInv, Unshared
    <2> QED
      BY <2>1, OwnedByFacts
  <1>5. \A k \in Keys : Present(k)' => EntryOK(k, ev[k], mem)'
    BY <1>2, <1>4 DEF IInv, EntryOK
  <1>6. Unshared'
    BY <1>2 DEF IInv, Unshared
  <1>7. Reachable'
    <2> SUFFICES ASSUME NEW b \in Heap, mem'[b] # Freed
                 PROVE  \E k \in Keys : Present(k)' /\ ev'[k].buf = b
      BY DEF Reachable
    <2>1. mem[b] # Freed /\ b \notin OwnedBy(S)
      BY <1>1, BufferFacts
    <2>2. PICK k \in Keys : Present(k) /\ ev[k].buf = b
      BY <2>1 DEF IInv, Reachable
    <2>3. k \notin S
      BY <2>1, <2>2, OwnedByFacts
    <2> QED
      BY <1>2, <2>2, <2>3
  <1>8. mem'[ZeroBuf] = 0
    BY <1>1, BufferFacts, OwnedByFacts DEF IInv
  <1> QED
    BY <1>3, <1>5, <1>6, <1>7, <1>8 DEF IInv

LEMMA WithCountFacts ==
  ASSUME NEW e \in EmbeddingValue \cup {Absent}, NEW c \in Counts \cup {None}
  PROVE  /\ WithCount(e, c) \in EmbeddingValue \cup {Absent}
         /\ WithCount(e, c) # Absent <=> e # Absent
         /\ e # Absent => /\ WithCount(e, c).buf = e.buf
                          /\ WithCount(e, c).owner = e.owner
                          /\ WithCount(e, c).black = e.black
  <1>1. CASE e = Absent \/ c = None
    BY <1>1 DEF WithCount
  <1>2. CASE e # Absent /\ c # None
    <2>1. WithCount(e, c) = [e EXCEPT !.cnt = c]
      BY <1>2 DEF WithCount
    <2>2. WithCount(e, c) \in EmbeddingValue
      BY <1>2, <2>1 DEF EmbeddingValue
    <2>3. WithCount(e, c) # Absent
      BY <2>2, AbsentEntryAssumption
    <2> QED
      BY <1>2, <2>1, <2>2, <2>3 DEF EmbeddingValue
  <1> QED
    BY <1>1, <1>2

LEMMA BorrowedFacts ==
  ASSUME NEW t \in Tensors, NEW k \in Keys
  PROVE  /\ Borrowed(t, k) \in EmbeddingValue
         /\ Borrowed(t, k) # Absent
         /\ Borrowed(t, k).buf = <<t, k>> /\ <<t, k>> \in Rows
         /\ Borrowed(t, k).owner = FALSE /\ Borrowed(t, k).black = FALSE
  <1>1. <<t, k>> \in Rows /\ <<t, k>> \in Buffers
    BY BufferFacts DEF Rows
  <1>2. Borrowed(t, k) \in EmbeddingValue
    BY <1>1, CountFacts DEF Borrowed, EmbeddingValue
  <1>3. Borrowed(t, k) # Absent
    BY <1>2, AbsentEntryAssumption
  <1> QED
    BY <1>1, <1>2, <1>3 DEF Borrowed

LEMMA ImportValuesSafe ==
  ASSUME IInv, NEW t \in Tensors, NEW p \in Snapshots, ImportValues(t, p)
  PROVE  IInv'
  <1>1. /\ p.vals \in [Keys -> Values \cup {None}]
        /\ p.freq \in [Keys -> Counts \cup {None}]
        /\ p.black # {} => ~BlacklistFree
    BY TableAssumption DEF FullPayload, BlacklistFree
  <1> DEFINE base(k) == IF p.vals[k] = None THEN Absent ELSE Borrowed(t, k)
             listed(k) == IF k \in p.black THEN Blacklisted(base(k)) ELSE base(k)
  <1>2. \A k \in Keys : ev'[k] = WithCount(listed(k), p.freq[k])
    BY DEF ImportValues
  <1>3. \A k \in Keys :
          /\ ev'[k] \in EmbeddingValue \cup {Absent}
          /\ Present(k)' =>
               /\ ev'[k].owner = FALSE
               /\ \/ /\ ev'[k].black /\ ev'[k].buf = Null /\ ~BlacklistFree
                  \/ /\ ~ev'[k].black /\ ev'[k].buf = <<t, k>> /\ p.vals[k] # None
    <2> SUFFICES ASSUME NEW k \in Keys
                 PROVE  /\ ev'[k] \in EmbeddingValue \cup {Absent}
                        /\ Present(k)' =>
                             /\ ev'[k].owner = FALSE
                             /\ \/ /\ ev'[k].black /\ ev'[k].buf = Null /\ ~BlacklistFree
                                \/ /\ ~ev'[k].black /\ ev'[k].buf = <<t, k>>
                                   /\ p.vals[k] # None
      OBVIOUS
    <2>1. /\ base(k) \in EmbeddingValue \cup {Absent}
          /\ base(k) # Absent => /\ base(k).owner = FALSE /\ base(k).black = FALSE
                                 /\ base(k).buf = <<t, k>> /\ p.vals[k] # None
      BY BorrowedFacts
    <2>2. CASE k \in p.black
      <3>1. /\ Blacklisted(base(k)) \in EmbeddingValue /\ Blacklisted(base(k)).black
            /\ Blacklisted(base(k)).buf = Null /\ Blacklisted(base(k)).owner = FALSE
        BY <2>1, BlacklistedFacts
      <3>2. Blacklisted(base(k)) # Absent
        BY <3>1, AbsentEntryAssumption
      <3>3. listed(k) = Blacklisted(base(k))
        BY <2>2
      <3> HIDE DEF base, listed
      <3> QED
        BY <1>1, <1>2, <2>2, <3>1, <3>2, <3>3, WithCountFacts DEF Present
    <2>3. CASE k \notin p.black
      <3>1. listed(k) = base(k)
        BY <2>3
      <3>2. p.freq[k] \in Counts \cup {None}
        BY <1>1
      <3> HIDE DEF base, listed
      <3>3. /\ ev'[k] \in EmbeddingValue \cup {Absent}
            /\ ev'[k] # Absent <=> base(k) # Absent
            /\ base(k) # Absent => /\ ev'[k].buf = base(k).buf
                                   /\ ev'[k].owner = base(k).owner
                                   /\ ev'[k].black = base(k).black
        BY <1>2, <2>1, <3>1, <3>2, WithCountFacts
      <3> QED
        BY <2>1, <3>3 DEF Present
    <2> QED
      BY <2>2, <2>3
  <1>4. \A k \in Keys : /\ <<t, k>> \in RowsOf(t) /\ <<t, k>> \notin RowsOf(pvalues)
                        /\ <<t, k>> \in Rows
    BY DEF RowsOf, Rows, ImportValues
  <1>5. \A x : x \in OwnedBy(Keys) <=>
               \E k \in Keys : Present(k) /\ x = ev[k].buf /\ x \in Heap
    BY OwnedByFacts
  <1>6. \A b \in Buffers :
          mem'[b] = IF b \in OwnedBy(Keys) \cup RowsOf(pvalues) THEN Freed
                    ELSE IF b \in RowsOf(t) THEN RowValue(p, b[2]) ELSE mem[b]
    BY DEF ImportValues
  <1>7. \A k \in Keys : p.vals[k] # None => mem'[<<t, k>>] \in Values
    <2> SUFFICES ASSUME NEW k \in Keys, p.vals[k] # None
                 PROVE  mem'[<<t, k>>] \in Values
      OBVIOUS
    <2>1. <<t, k>> \in Buffers /\ <<t, k>> \notin OwnedBy(Keys)
      BY <1>4, <1>5, BufferFacts
    <2>2. mem'[<<t, k>>] = RowValue(p, k)
      BY <1>4, <1>6, <2>1
    <2> QED
      BY <1>1, <2>2 DEF RowValue
  <1>8. TypeOK'
    <2>1. \A b \in Buffers : b \in RowsOf(t) => RowValue(p, b[2]) \in Values \cup {Freed}
      BY <1>1 DEF RowsOf, Rows, RowValue
    <2>2. mem' \in [Buffers -> Values \cup {Freed}]
      BY <2>1 DEF ImportValues, IInv, TypeOK
    <2>3. ev' \in [Keys -> EmbeddingValue \cup {Absent}]
      BY <1>3 DEF ImportValues
    <2> QED
      BY <2>2, <2>3 DEF ImportValues, TypeOK
  <1>9. pvalues' = t
    BY DEF ImportValues
  <1>10. \A k \in Keys : Present(k)' => EntryOK(k, ev[k], mem)'
    <2> SUFFICES ASSUME NEW k \in Keys, Present(k)'
                 PROVE  EntryOK(k, ev[k], mem)'
      OBVIOUS
    <2>1. CASE ev'[k].black /\ ev'[k].buf = Null /\ ~BlacklistFree
      BY <1>3, <2>1, BufferFacts DEF EntryOK
    <2>2. CASE ~ev'[k].black /\ ev'[k].buf = <<t, k>> /\ p.vals[k] # None
      BY <1>3, <1>4, <1>7, <1>9, <2>2, BufferFacts DEF EntryOK
    <2> QED
      BY <1>3, <2>1, <2>2
  <1>11. Unshared'
    BY <1>3, <1>4, BufferFacts DEF Unshared
  <1>12. Reachable'
    <2> SUFFICES ASSUME NEW b \in Heap PROVE mem'[b] = Freed
      BY DEF Reachable
    <2>1. b \in Buffers /\ b \notin RowsOf(t) /\ b \notin RowsOf(pvalues)
      BY BufferFacts DEF RowsOf
    <2>2. mem[b] # Freed => b \in OwnedBy(Keys)
      BY <1>5 DEF IInv, Reachable
    <2> QED
      BY <1>6, <2>1, <2>2
  <1>13. mem'[ZeroBuf] = 0
    <2>1. ZeroBuf \notin OwnedBy(Keys) /\ ZeroBuf \notin RowsOf(t) /\ ZeroBuf \notin RowsOf(pvalues)
      BY <1>5, BufferFacts DEF RowsOf
    <2> QED
      BY <1>6, <2>1, BufferFacts DEF IInv
  <1> QED
    BY <1>8, <1>10, <1>11, <1>12, <1>13 DEF IInv

\* A delta import reuses or allocates a buffer for each key it has a value
\* for, and frees those of the keys it removes or newly blacklists.
Gone(d, n, k) ==
  \/ k \in Removed(d, n)
  \/ k \in d.black \ Removed(d, n) /\ Present(k) /\ ~ev[k].black

Dropped(d, n) ==
  OwnedBy(Removed(d, n)) \cup UNION {DroppedBy(ev[k]) : k \in d.black \ Removed(d, n)}

LEMMA DroppedFacts ==
  ASSUME IInv, NEW d \in Deltas, NEW n
  PROVE  \A x : x \in Dropped(d, n) <=>
                \E k \in Keys : Gone(d, n, k) /\ Present(k) /\ x = ev[k].buf /\ x \in Heap
  <1>1. d.black \subseteq Keys /\ d.del \subseteq Keys
    BY TableAssumption DEF DeltaPayload
  <1>2. Removed(d, n) \in SUBSET Keys
    BY <1>1 DEF Removed
  <1>3. \A x : x \in OwnedBy(Removed(d, n)) <=>
               \E k \in Removed(d, n) : Present(k) /\ x = ev[k].buf /\ x \in Heap
    BY <1>2, OwnedByFacts
  <1>4. \A k \in d.black \ Removed(d, n) : \A x :
          x \in DroppedBy(ev[k]) <=>
            Present(k) /\ ~ev[k].black /\ x = ev[k].buf /\ x \in Heap
    <2> SUFFICES ASSUME NEW k \in d.black \ Removed(d, n), NEW x
                 PROVE  x \in DroppedBy(ev[k]) <=>
                          Present(k) /\ ~ev[k].black /\ x = ev[k].buf /\ x \in Heap
      OBVIOUS
    <2>1. k \in Keys
      BY <1>1
    <2>2. CASE Present(k)
      BY <2>1, <2>2, OwnedFacts DEF DroppedBy, Present
    <2>3. CASE ~Present(k)
      BY <2>3 DEF DroppedBy, Present
    <2> QED
      BY <2>2, <2>3
  <1>5. \A x : x \in Dropped(d, n) <=>
               \/ x \in OwnedBy(Removed(d, n))
               \/ \E k \in d.black \ Removed(d, n) : x \in DroppedBy(ev[k])
    BY Zenon DEF Dropped
  <1> QED
    BY <1>1, <1>2, <1>3, <1>4, <1>5 DEF Gone

LEMMA DeltaImportSafe ==
  ASSUME IInv, ZeroSafeWorkload, "deltaimport" \in Ops,
         NEW d \in Deltas, NEW n \in FirstN, NEW f \in Allocations(d),
         DeltaImport(d, n, f)
  PROVE  IInv'
  <1> DEFINE R == Removed(d, n)
             L == d.black \ R
             W == {k \in Keys : d.vals[k] # None}
             T(k) == Target(d, f, k)
  <1>1. /\ d.vals \in [Keys -> Values \cup {None}]
        /\ d.freq \in [Keys -> Counts \cup {None}]
        /\ d.black \subseteq Keys /\ d.del \subseteq Keys
        /\ d.black # {} => ~BlacklistFree
        /\ \A k \in d.black \cup d.del : d.vals[k] = None
    BY TableAssumption DEF DeltaPayload, BlacklistFree
  <1>2. R \subseteq Keys /\ L \subseteq Keys /\ \A k \in W : k \notin R /\ k \notin L
    BY <1>1 DEF Removed
  <1>3. /\ \A k \in NeedsBuffer(d) : f[k] \in Heap /\ mem[f[k]] = Freed
        /\ \A j, k \in NeedsBuffer(d) : f[j] = f[k] => j = k
        /\ NeedsBuffer(d) \subseteq W
    BY DEF Allocations, Available, NeedsBuffer
  <1>4. \A k \in W : \/ k \in NeedsBuffer(d) /\ T(k) = f[k]
                     \/ /\ k \notin NeedsBuffer(d) /\ Present(k) /\ T(k) = ev[k].buf
                        /\ ev[k].buf \in Heap \cup Rows
    <2> SUFFICES ASSUME NEW k \in W, k \notin NeedsBuffer(d)
                 PROVE  Present(k) /\ ev[k].buf \in Heap \cup Rows
      BY DEF Target
    <2>1. k \in Keys /\ Present(k) /\ ev[k].buf # Null
      BY DEF NeedsBuffer
    <2>2. ev[k] \in EmbeddingValue /\ EntryOK(k, ev[k], mem)
      BY <2>1, OwnedFacts
    <2>3. ev[k].buf # ZeroBuf
      BY <2>2, BufferFacts DEF EntryOK, ZeroSafeWorkload
    <2> QED
      BY <2>1, <2>2, <2>3 DEF EmbeddingValue, Buffers
  <1>5. \A x : x \in Dropped(d, n) <=>
               \E k \in Keys : Gone(d, n, k) /\ Present(k) /\ x = ev[k].buf /\ x \in Heap
    BY DroppedFacts
  <1>6. \A b \in Buffers :
          mem'[b] = IF b \in Dropped(d, n) THEN Freed
                    ELSE IF \E k \in W : b = T(k)
                      THEN d.vals[CHOOSE k \in W : b = T(k)] ELSE mem[b]
    BY DEF DeltaImport, Dropped
  <1>7. \A k \in Keys :
          ev'[k] = IF k \in R THEN Absent
                   ELSE WithCount(IF k \in L THEN Blacklisted(ev[k]) ELSE Updated(d, f, k),
                                  d.freq[k])
    BY DEF DeltaImport
  <1>8. pvalues' = pvalues /\ train' = train /\ pred' = pred
    BY DEF DeltaImport
  <1>9. \A k \in Keys :
          /\ ev'[k] \in EmbeddingValue \cup {Absent}
          /\ k \in R => ~Present(k)'
          /\ k \in W => /\ Present(k)' /\ ev'[k].buf = T(k) /\ ev'[k].black = FALSE
                        /\ ev'[k].owner = (k \in NeedsBuffer(d) \/ ev[k].owner)
          /\ k \in L /\ (~Present(k) \/ ~ev[k].black) =>
               /\ Present(k)' /\ ev'[k].buf = Null
               /\ ev'[k].owner = FALSE /\ ev'[k].black
          /\ k \notin W /\ k \notin R /\ ~(k \in L /\ (~Present(k) \/ ~ev[k].black)) =>
               /\ Present(k)' <=> Present(k)
               /\ Present(k) => /\ ev'[k].buf = ev[k].buf
                                /\ ev'[k].owner = ev[k].owner
                                /\ ev'[k].black = ev[k].black
    <2> SUFFICES ASSUME NEW k \in Keys
                 PROVE
          /\ ev'[k] \in EmbeddingValue \cup {Absent}
          /\ k \in R => ~Present(k)'
          /\ k \in W => /\ Present(k)' /\ ev'[k].buf = T(k) /\ ev'[k].black = FALSE
                        /\ ev'[k].owner = (k \in NeedsBuffer(d) \/ ev[k].owner)
          /\ k \in L /\ (~Present(k) \/ ~ev[k].black) =>
               /\ Present(k)' /\ ev'[k].buf = Null
               /\ ev'[k].owner = FALSE /\ ev'[k].black
          /\ k \notin W /\ k \notin R /\ ~(k \in L /\ (~Present(k) \/ ~ev[k].black)) =>
               /\ Present(k)' <=> Present(k)
               /\ Present(k) => /\ ev'[k].buf = ev[k].buf
                                /\ ev'[k].owner = ev[k].owner
                                /\ ev'[k].black = ev[k].black
      OBVIOUS
    <2>1. d.freq[k] \in Counts \cup {None} /\ ev[k] \in EmbeddingValue \cup {Absent}
      BY <1>1 DEF IInv, TypeOK
    <2>2. CASE k \in R
      BY <1>2, <1>7, <2>2 DEF Present
    <2>3. CASE k \in L
      <3>1. /\ Blacklisted(ev[k]) \in EmbeddingValue /\ Blacklisted(ev[k]).black
            /\ Present(k) /\ ev[k].black => Blacklisted(ev[k]) = ev[k]
            /\ ~Present(k) \/ ~ev[k].black =>
                 Blacklisted(ev[k]).buf = Null /\ Blacklisted(ev[k]).owner = FALSE
        BY <2>1, BlacklistedFacts DEF Present
      <3>2. Blacklisted(ev[k]) # Absent
        BY <3>1, AbsentEntryAssumption
      <3>3. ev'[k] = WithCount(Blacklisted(ev[k]), d.freq[k])
        BY <1>7, <2>3
      <3> DEFINE q == Blacklisted(ev[k])
      <3>4. q \in EmbeddingValue \cup {Absent}
        BY <3>1
      <3>5. q # Absent /\ ev'[k] = WithCount(q, d.freq[k])
        BY <3>2, <3>3
      <3> HIDE DEF q
      <3>6. /\ ev'[k] \in EmbeddingValue \cup {Absent} /\ ev'[k] # Absent
            /\ ev'[k].buf = q.buf /\ ev'[k].owner = q.owner /\ ev'[k].black = q.black
        BY <2>1, <3>4, <3>5, WithCountFacts
      <3> QED
        BY <1>2, <2>3, <3>1, <3>6 DEF Present, q
    <2>4. CASE k \in W
      <3> DEFINE u == Updated(d, f, k)
      <3>1. u = [buf |-> T(k), owner |-> k \in NeedsBuffer(d) \/ ev[k].owner,
                 black |-> FALSE, under |-> d.vals[k] < DefaultCutoff,
                 cnt |-> IF Present(k) THEN ev[k].cnt ELSE 1]
        BY <2>4 DEF Updated
      <3>2. T(k) \in Buffers
        BY <1>3, <1>4, <2>4, BufferFacts
      <3>3. (k \in NeedsBuffer(d) \/ ev[k].owner) \in BOOLEAN
        BY Zenon
      <3>4. (d.vals[k] < DefaultCutoff) \in BOOLEAN
        BY <1>1, <2>4, ConstantsAssumption DEF Values, DefaultCutoff
      <3>5. (IF Present(k) THEN ev[k].cnt ELSE 1) \in Counts
        BY OwnedFacts, CountFacts DEF EmbeddingValue
      <3>6. u \in EmbeddingValue
        BY <3>1, <3>2, <3>3, <3>4, <3>5 DEF EmbeddingValue
      <3>7. u # Absent
        BY <3>6, AbsentEntryAssumption
      <3>8. ev'[k] = WithCount(u, d.freq[k])
        BY <1>2, <1>7, <2>4
      <3>9. /\ u.buf = T(k) /\ u.black = FALSE
            /\ u.owner = (k \in NeedsBuffer(d) \/ ev[k].owner)
        BY <3>1
      <3> HIDE DEF u
      <3>10. /\ ev'[k] \in EmbeddingValue \cup {Absent} /\ ev'[k] # Absent
             /\ ev'[k].buf = u.buf /\ ev'[k].owner = u.owner /\ ev'[k].black = u.black
        BY <2>1, <3>6, <3>7, <3>8, WithCountFacts
      <3> QED
        BY <1>2, <2>4, <3>9, <3>10 DEF Present
    <2>5. CASE k \notin W /\ k \notin R /\ k \notin L
      <3>1. ev'[k] = WithCount(ev[k], d.freq[k])
        BY <1>7, <2>5 DEF Updated
      <3>2. /\ ev'[k] \in EmbeddingValue \cup {Absent}
            /\ ev'[k] # Absent <=> ev[k] # Absent
            /\ ev[k] # Absent => /\ ev'[k].buf = ev[k].buf
                                 /\ ev'[k].owner = ev[k].owner
                                 /\ ev'[k].black = ev[k].black
        BY <2>1, <3>1, WithCountFacts
      <3> QED
        BY <2>5, <3>2 DEF Present
    <2> QED
      BY <2>2, <2>3, <2>4, <2>5
  <1> DEFINE New(k) == k \in L /\ (~Present(k) \/ ~ev[k].black)
             Kept(k) == k \notin W /\ k \notin R /\ ~New(k)
  <1>10. \A k \in Keys : /\ Gone(d, n, k) /\ Present(k) => k \notin W /\ ~Kept(k)
                         /\ Present(k) /\ k \notin W /\ ~Kept(k) => Gone(d, n, k)
    BY <1>2 DEF Gone
  <1> HIDE DEF R, L, W, T
  <1>11. \A k \in Keys : Present(k)' => \/ k \in W /\ ev'[k].buf = T(k)
                                        \/ New(k) /\ ev'[k].buf = Null
                                        \/ Kept(k) /\ Present(k) /\ ev'[k].buf = ev[k].buf
    <2> SUFFICES ASSUME NEW k \in Keys, Present(k)'
                 PROVE  \/ k \in W /\ ev'[k].buf = T(k)
                        \/ New(k) /\ ev'[k].buf = Null
                        \/ Kept(k) /\ Present(k) /\ ev'[k].buf = ev[k].buf
      OBVIOUS
    <2>1. CASE k \in W
      BY <1>9, <2>1
    <2>2. CASE New(k)
      BY <1>9, <2>2
    <2>3. CASE Kept(k)
      BY <1>9, <2>3
    <2>4. k \notin R
      BY <1>9
    <2> QED
      BY <2>1, <2>2, <2>3, <2>4
  <1>12. \A k \in Keys : Present(k) => EntryOK(k, ev[k], mem)
    BY DEF IInv
  <1> HIDE DEF New, Kept
  \* A heap buffer in use afterwards was just allocated for the key, or was
  \* the key's own and has not been dropped.
  <1>13. \A k \in Keys : Present(k)' /\ ev'[k].buf \in Heap =>
           \/ k \in NeedsBuffer(d) /\ ev'[k].buf = f[k]
           \/ /\ Present(k) /\ ev'[k].buf = ev[k].buf
              /\ ~Gone(d, n, k) /\ mem[ev[k].buf] \in Values
    BY <1>4, <1>10, <1>11, <1>12, BufferFacts DEF EntryOK
  <1>14. \A k \in Keys : Present(k)' /\ ev'[k].buf \in Heap \cup Rows =>
           ev'[k].buf \notin Dropped(d, n)
    <2> SUFFICES ASSUME NEW k \in Keys, Present(k)', ev'[k].buf \in Dropped(d, n)
                 PROVE  FALSE
      OBVIOUS
    <2>1. PICK j \in Keys : /\ Gone(d, n, j) /\ Present(j)
                            /\ ev'[k].buf = ev[j].buf /\ ev[j].buf \in Heap
      BY <1>5
    <2>2. mem[ev[j].buf] \in Values
      BY <1>12, <2>1 DEF EntryOK
    <2>3. CASE k \in NeedsBuffer(d) /\ ev'[k].buf = f[k]
      BY <1>3, <2>1, <2>2, <2>3, BufferFacts
    <2>4. CASE Present(k) /\ ev'[k].buf = ev[k].buf /\ ~Gone(d, n, k)
      BY <2>1, <2>4 DEF IInv, Unshared
    <2> QED
      BY <1>13, <2>1, <2>3, <2>4
  <1>15. \A k \in Keys : Present(k)' /\ ev'[k].buf \in Heap \cup Rows =>
           mem'[ev'[k].buf] \in Values
    <2> SUFFICES ASSUME NEW k \in Keys, Present(k)', ev'[k].buf \in Heap \cup Rows
                 PROVE  mem'[ev'[k].buf] \in Values
      OBVIOUS
    <2>1. ev'[k].buf \in Buffers /\ ev'[k].buf \notin Dropped(d, n)
      BY <1>14, BufferFacts
    <2>2. CASE \E j \in W : ev'[k].buf = T(j)
      <3> DEFINE c == CHOOSE j \in W : ev'[k].buf = T(j)
      <3>1. c \in W
        BY <2>2
      <3>2. mem'[ev'[k].buf] = d.vals[c]
        BY <1>6, <2>1, <2>2
      <3> HIDE DEF c
      <3> QED
        BY <1>1, <3>1, <3>2 DEF W
    <2>3. CASE ~ \E j \in W : ev'[k].buf = T(j)
      <3>1. Present(k) /\ ev'[k].buf = ev[k].buf
        BY <1>11, <2>3, BufferFacts
      <3> QED
        BY <1>6, <1>12, <2>1, <2>3, <3>1 DEF EntryOK
    <2> QED
      BY <2>2, <2>3
  <1>16. TypeOK'
    <2>1. \A b \in Buffers : mem'[b] \in Values \cup {Freed}
      <3> SUFFICES ASSUME NEW b \in Buffers PROVE mem'[b] \in Values \cup {Freed}
        OBVIOUS
      <3>1. CASE b \notin Dropped(d, n) /\ \E j \in W : b = T(j)
        <4> DEFINE c == CHOOSE j \in W : b = T(j)
        <4>1. c \in W
          BY <3>1
        <4>2. mem'[b] = d.vals[c]
          BY <1>6, <3>1
        <4> HIDE DEF c
        <4> QED
          BY <1>1, <4>1, <4>2 DEF W
      <3>2. CASE ~(b \notin Dropped(d, n) /\ \E j \in W : b = T(j))
        BY <1>6, <3>2 DEF IInv, TypeOK
      <3> QED
        BY <3>1, <3>2
    <2>2. mem' \in [Buffers -> Values \cup {Freed}]
      BY <2>1 DEF DeltaImport
    <2>3. ev' \in [Keys -> EmbeddingValue \cup {Absent}]
      BY <1>9 DEF DeltaImport
    <2> QED
      BY <1>8, <2>2, <2>3 DEF TypeOK, IInv
  <1>17. \A k \in Keys : Present(k)' => EntryOK(k, ev[k], mem)'
    <2> SUFFICES ASSUME NEW k \in Keys, Present(k)'
                 PROVE  EntryOK(k, ev[k], mem)'
      OBVIOUS
    <2>1. CASE k \in W
      <3>1. ev'[k].buf = T(k) /\ ~ev'[k].black
        BY <1>9, <2>1
      <3>2. ev'[k].owner <=> ev'[k].buf \in Heap
        BY <1>3, <1>4, <1>9, <1>12, <2>1, <3>1 DEF EntryOK
      <3>3. /\ ev'[k].buf \in Heap \cup Rows
            /\ ev'[k].buf \in Rows => ev'[k].buf = <<pvalues, k>>
        BY <1>3, <1>4, <1>12, <2>1, <3>1, BufferFacts DEF EntryOK
      <3> QED
        BY <1>8, <1>15, <3>1, <3>2, <3>3, BufferFacts DEF EntryOK
    <2>2. CASE New(k)
      <3>1. /\ ev'[k].buf = Null /\ ev'[k].owner = FALSE /\ ev'[k].black
        BY <1>9, <2>2 DEF New
      <3>2. ~BlacklistFree
        BY <1>1, <2>2 DEF New, L
      <3> QED
        BY <3>1, <3>2, BufferFacts DEF EntryOK
    <2>3. CASE Kept(k) /\ Present(k)
      <3>1. /\ ev'[k].buf = ev[k].buf
            /\ ev'[k].owner = ev[k].owner
            /\ ev'[k].black = ev[k].black
        BY <1>9, <2>3 DEF Kept, New
      <3> QED
        BY <1>8, <1>12, <1>15, <2>3, <3>1 DEF EntryOK
    <2> QED
      BY <1>11, <2>1, <2>2, <2>3
  <1>18. Unshared'
    <2> SUFFICES ASSUME NEW i \in Keys, NEW j \in Keys, i # j,
                        Present(i)', Present(j)', ev'[i].buf \in Heap,
                        ev'[i].buf = ev'[j].buf
                 PROVE  FALSE
      BY DEF Unshared
    <2>1. CASE i \in NeedsBuffer(d) /\ ev'[i].buf = f[i]
      BY <1>3, <1>13, <2>1, BufferFacts
    <2>2. CASE /\ Present(i) /\ ev'[i].buf = ev[i].buf
               /\ mem[ev[i].buf] \in Values
      <3>1. mem[ev'[j].buf] # Freed
        BY <2>2, BufferFacts
      <3>2. ~(j \in NeedsBuffer(d) /\ ev'[j].buf = f[j])
        BY <1>3, <3>1
      <3>3. Present(j) /\ ev'[j].buf = ev[j].buf
        BY <1>13, <3>2
      <3> QED
        BY <2>2, <3>3 DEF IInv, Unshared
    <2> QED
      BY <1>13, <2>1, <2>2
  <1>19. Reachable'
    <2> SUFFICES ASSUME NEW b \in Heap, mem'[b] # Freed
                 PROVE  \E k \in Keys : Present(k)' /\ ev'[k].buf = b
      BY DEF Reachable
    <2>1. b \in Buffers /\ b \notin Dropped(d, n)
      BY <1>6, BufferFacts
    <2>2. CASE \E k \in W : b = T(k)
      BY <1>9, <2>2 DEF W
    <2>3. CASE ~ \E k \in W : b = T(k)
      <3>1. mem[b] # Freed
        BY <1>6, <2>1, <2>3
      <3>2. PICK k \in Keys : Present(k) /\ ev[k].buf = b
        BY <3>1 DEF IInv, Reachable
      <3>3. k \notin W
        BY <1>3, <1>4, <2>3, <3>2, BufferFacts DEF NeedsBuffer
      <3>4. Kept(k)
        BY <1>5, <1>10, <2>1, <3>2, <3>3
      <3> QED
        BY <1>9, <3>2, <3>4 DEF Kept, New
    <2> QED
      BY <2>2, <2>3
  <1>20. mem'[ZeroBuf] = 0
    <2>1. ZeroBuf \notin Dropped(d, n)
      BY <1>5, BufferFacts
    <2>2. \A k \in W : T(k) # ZeroBuf
      BY <1>3, <1>4, BufferFacts
    <2> QED
      BY <1>6, <2>1, <2>2, BufferFacts DEF IInv
  <1> QED
    BY <1>16, <1>17, <1>18, <1>19, <1>20 DEF IInv

-----------------------------------------------------------------------------
(* The specification. *)

LEMMA InitSafe == Init => IInv
  <1> SUFFICES ASSUME Init PROVE IInv
    OBVIOUS
  <1>1. TypeOK
    BY CountFacts DEF Init, TypeOK
  <1>2. mem[ZeroBuf] = 0 /\ \A b \in Heap : mem[b] = Freed
    BY BufferFacts DEF Init
  <1>3. \A k \in Keys : ~Present(k)
    BY DEF Init, Present
  <1> QED
    BY <1>1, <1>2, <1>3 DEF IInv, Unshared, Reachable

LEMMA KeyStepSafe ==
  ASSUME IInv, ZeroSafeWorkload, NEW k \in Keys, KeyStep(k)
  PROVE  IInv'
  <1>1. CASE "gather" \in Ops /\ \E c \in Counts, v \in Values : Gather(k, c, v)
    BY <1>1, GatherSafe
  <1>2. CASE "insert" \in Ops /\ \E v \in Values : InsertOrUpdate(k, v)
    BY <1>2, InsertOrUpdateSafe
  <1>3. CASE "insert" \in Ops /\ FilteredUpdate(k)
    BY <1>3, FilteredUpdateSafe
  <1>4. CASE "blacklist" \in Ops /\ MarkBlacklist(k)
    BY <1>4, MarkBlacklistSafe DEF BlacklistFree
  <1>5. CASE "scatter" \in Ops /\ \E v \in Values : ScatterUpdate(k, v)
    BY <1>5, ScatterUpdateSafe
  <1>6. CASE "train" \in Ops /\ \E i, v \in Values : TrainCover(k, i, v)
    BY <1>6, TrainCoverSafe
  <1>7. CASE "train" \in Ops /\ \E i, v \in Values : TrainPlain(k, i, v)
    BY <1>7, TrainPlainSafe
  <1>8. CASE "lasso" \in Ops /\ \E i \in Values : TrainLasso(k, i)
    BY <1>8, TrainLassoSafe DEF BlacklistFree
  <1>9. CASE "slot" \in Ops /\ \E i, v \in Values : SlotCover(k, i, v)
    BY <1>9, SlotCoverSafe
  <1>10. CASE "slot" \in Ops /\ \E i, v \in Values : SlotPlain(k, i, v)
    BY <1>10, SlotPlainSafe
  <1>11. CASE "delete" \in Ops /\ Delete(k)
    BY <1>11, DeleteSafe
  <1> QED
    BY <1>1, <1>2, <1>3, <1>4, <1>5, <1>6, <1>7, <1>8, <1>9, <1>10, <1>11
    DEF KeyStep

LEMMA TableStepSafe ==
  ASSUME IInv, ZeroSafeWorkload, TableStep
  PROVE  IInv'
  <1>1. CASE "delete" \in Ops /\ \E S \in SUBSET Keys : DeleteWithTimestamp(S)
    BY <1>1, DeleteWithTimestampSafe
  <1>2. CASE "import" \in Ops /\ \E t \in Tensors, p \in Snapshots : ImportValues(t, p)
    BY <1>2, ImportValuesSafe
  <1>3. CASE /\ "deltaimport" \in Ops
             /\ \E d \in Deltas, n \in {3, 8} :
                  \E f \in Allocations(d) : DeltaImport(d, n, f)
    <2>1. {3, 8} \subseteq FirstN
      BY DEF FirstN
    <2> QED
      BY <1>3, <2>1, DeltaImportSafe
  <1>4. CASE "export" \in Ops /\ \E n \in FirstN, c \in Cutoffs : ExportValues(n, c)
    BY <1>4, ExportValuesSafe
  <1>5. CASE "export" \in Ops /\ \E n \in {3, 8} : DeltaExport(n)
    <2>1. {3, 8} \subseteq FirstN
      BY DEF FirstN
    <2> QED
      BY <1>5, <2>1, DeltaExportSafe
  <1> QED
    BY <1>1, <1>2, <1>3, <1>4, <1>5 DEF TableStep

LEMMA StepSafe ==
  ASSUME ZeroSafeWorkload
  PROVE  IInv /\ [Next]_vars => IInv'
  <1> SUFFICES ASSUME IInv, [Next]_vars PROVE IInv'
    OBVIOUS
  <1>1. CASE \E k \in Keys : KeyStep(k)
    BY <1>1, KeyStepSafe
  <1>2. CASE TableStep
    BY <1>2, TableStepSafe
  <1>3. CASE UNCHANGED vars
    <2>1. TypeOK'
      BY <1>3 DEF vars, IInv, TypeOK
    <2> QED
      BY <1>3, <2>1, SameEntriesSafe DEF vars, Present
  <1> QED
    BY <1>1, <1>2, <1>3 DEF Next

\* The invariant says all five things about the buffers.
LEMMA InvariantImpliesSafety == IInv => BufferSafety
  <1> SUFFICES ASSUME IInv PROVE BufferSafety
    OBVIOUS
  <1>1. \A k \in Keys : Present(k) =>
          ev[k] \in EmbeddingValue /\ EntryOK(k, ev[k], mem)
    BY OwnedFacts
  <1>2. ZeroIntact
    BY DEF IInv, ZeroIntact
  <1>3. NoDangling
    <2> SUFFICES ASSUME NEW k \in Keys, Present(k), ev[k].buf # Null
                 PROVE  mem[ev[k].buf] # Freed
      BY DEF NoDangling
    <2>1. CASE ev[k].buf \in Heap \cup Rows
      BY <1>1, <2>1, BufferFacts DEF EntryOK
    <2>2. CASE ev[k].buf = ZeroBuf
      BY <2>2, BufferFacts DEF IInv
    <2> QED
      BY <1>1, <2>1, <2>2 DEF EmbeddingValue, Buffers
  <1>4. SingleOwner
    <2> SUFFICES ASSUME NEW k \in Keys, Present(k), ev[k].owner
                 PROVE  /\ ev[k].buf \in Heap
                        /\ \A j \in Keys \ {k} : Present(j) => ev[j].buf # ev[k].buf
      BY DEF SingleOwner
    <2>1. ev[k].buf \in Heap
      BY <1>1 DEF EntryOK
    <2> QED
      BY <2>1 DEF IInv, Unshared
  <1>5. NoLeak
    <2> SUFFICES ASSUME NEW b \in Heap, mem[b] # Freed
                 PROVE  \E k \in Keys : Present(k) /\ ev[k].owner /\ ev[k].buf = b
      BY DEF NoLeak
    <2>1. PICK k \in Keys : Present(k) /\ ev[k].buf = b
      BY DEF IInv, Reachable
    <2> QED
      BY <1>1, <2>1 DEF EntryOK
  <1>6. LiveHasBuffer
    BY <1>1 DEF LiveHasBuffer, EntryOK
  <1> QED
    BY <1>2, <1>3, <1>4, <1>5, <1>6 DEF BufferSafety

LEMMA InvariantHolds ==
  ASSUME ZeroSafeWorkload
  PROVE  Spec => []IInv
  <1>1. Init => IInv
    BY InitSafe
  <1>2. IInv /\ [Next]_vars => IInv'
    BY StepSafe
  <1> QED
    BY <1>1, <1>2, PTL DEF Spec

\* Every entry, buffer and delta list keeps its type under every operation
\* of a ZeroSafeWorkload.
THEOREM TypeCorrect ==
  ASSUME ZeroSafeWorkload
  PROVE  Spec => []TypeOK
  <1>1. IInv => TypeOK
    BY DEF IInv
  <1> QED
    BY <1>1, InvariantHolds, PTL

\* However the operations of a ZeroSafeWorkload follow one another, the zero
\* vector stays intact, and no entry dangles, shares its buffer, leaks one or
\* is without one: the ownership flag is right at every free.
THEOREM BuffersSafe ==
  ASSUME ZeroSafeWorkload
  PROVE  Spec => []BufferSafety
  <1>1. IInv => BufferSafety
    BY InvariantImpliesSafety
  <1> QED
    BY <1>1, InvariantHolds, PTL
\* The five parts of BufferSafety, one by one.  Nothing writes or frees the
\* zero vector (MarkBlacklistUnsafe, UpdateWithFn, FetchAndUpdateWithFn).
THEOREM ZeroVectorIntact ==
  ASSUME ZeroSafeWorkload
  PROVE  Spec => []ZeroIntact
  <1>1. IInv => ZeroIntact
    BY InvariantImpliesSafety DEF BufferSafety
  <1> QED
    BY <1>1, InvariantHolds, PTL

\* No free (DeleteKey, Evict, clear(), the old p_values_) leaves a pointer to
\* the freed buffer in any entry.
THEOREM NothingDangles ==
  ASSUME ZeroSafeWorkload
  PROVE  Spec => []NoDangling
  <1>1. IInv => NoDangling
    BY InvariantImpliesSafety DEF BufferSafety
  <1> QED
    BY <1>1, InvariantHolds, PTL

\* buf_owner_ is set only on an entry that alone points to a buffer of the
\* allocator, never on a borrowed row of p_values_.
THEOREM OwnersAreSingle ==
  ASSUME ZeroSafeWorkload
  PROVE  Spec => []SingleOwner
  <1>1. IInv => SingleOwner
    BY InvariantImpliesSafety DEF BufferSafety
  <1> QED
    BY <1>1, InvariantHolds, PTL

\* Every buffer the allocator handed out is freed by the deletion of some
\* entry: Evict and UpdateEmbedding drop no buffer unfreed.
THEOREM NothingLeaks ==
  ASSUME ZeroSafeWorkload
  PROVE  Spec => []NoLeak
  <1>1. IInv => NoLeak
    BY InvariantImpliesSafety DEF BufferSafety
  <1> QED
    BY <1>1, InvariantHolds, PTL

\* RemoveBlacklistUnsafe and UpdateWithFn never leave an entry outside the
\* blacklist with no buffer or with the zero vector.
THEOREM LiveKeysHaveBuffers ==
  ASSUME ZeroSafeWorkload
  PROVE  Spec => []LiveHasBuffer
  <1>1. IInv => LiveHasBuffer
    BY InvariantImpliesSafety DEF BufferSafety
  <1> QED
    BY <1>1, InvariantHolds, PTL

-----------------------------------------------------------------------------
(***************************************************************************)
(* KvTable implements KvStore, for every set of keys, heap and payloads,   *)
(* in every workload that is ZeroSafeWorkload: what an operation does to   *)
(* entries and buffers is, to a caller, what KvStore says of it.           *)
(***************************************************************************)

-----------------------------------------------------------------------------
(* What is seen of one key. *)

\* The entry of KvStore that an entry and its memory stand for, the zero
\* vector being intact.
Seen(e, m) ==
  [val |-> IF e.black THEN 0 ELSE m[e.buf], black |-> e.black,
   under |-> e.under, cnt |-> e.cnt]

SeenOrAbsent(e, m) == IF e = Absent THEN Absent ELSE Seen(e, m)

LEMMA SeenAt ==
  ASSUME IInv, NEW k \in Keys
  PROVE  Visible[k] = SeenOrAbsent(ev[k], mem)
  BY DEF Visible, Seen, SeenOrAbsent, Content, Present, IInv

LEMMA SeenAfter ==
  ASSUME IInv', NEW k \in Keys
  PROVE  Visible'[k] = SeenOrAbsent(ev'[k], mem')
  BY DEF Visible, Seen, SeenOrAbsent, Content, Present, IInv

LEMMA SeenType ==
  ASSUME NEW k, NEW e \in EmbeddingValue, NEW m, EntryOK(k, e, m)
  PROVE  Seen(e, m) \in Entry /\ Seen(e, m) # Absent
  <1>1. (IF e.black THEN 0 ELSE m[e.buf]) \in Values
    BY CountFacts DEF EntryOK
  <1>2. Seen(e, m) \in Entry
    BY <1>1 DEF Seen, Entry, EmbeddingValue
  <1> QED
    BY <1>2, AbsentAssumption

LEMMA SeenPresent ==
  ASSUME IInv, NEW k \in Keys
  PROVE  /\ Abstract!Present(k) <=> Present(k)
         /\ Present(k) => Visible[k] = Seen(ev[k], mem)
         /\ ~Present(k) => Visible[k] = Absent
  <1>1. Present(k) => Seen(ev[k], mem) # Absent
    BY OwnedFacts, SeenType
  <1> QED
    BY <1>1, SeenAt DEF SeenOrAbsent, Present, Abstract!Present

\* t has the four fields of an entry and no other.
IsEntry(t) == t = [val |-> t.val, black |-> t.black, under |-> t.under, cnt |-> t.cnt]

LEMMA SeenFields ==
  ASSUME IInv, NEW k \in Keys, Present(k)
  PROVE  /\ Visible[k].val = Content(ev[k])
         /\ Visible[k].black = ev[k].black
         /\ Visible[k].under = ev[k].under
         /\ Visible[k].cnt = ev[k].cnt
         /\ ev[k].black => Visible[k].val = 0
         /\ IsEntry(Visible[k])
  BY DEF Visible, IsEntry, Content, IInv

\* A step on key k is seen at key k only.
LEMMA ChangeSeen ==
  ASSUME IInv, IInv', NEW k \in Keys, NEW e \in EmbeddingValue \cup {Absent}, NEW m,
         Change(k, e, m), Within(k, m)
  PROVE  Abstract!Become(k, SeenOrAbsent(e, m))
  <1>1. /\ ev'[k] = e
        /\ \A j \in Keys : j # k => ev'[j] = ev[j]
        /\ mem' = m
        /\ train' = Marked(train, {k})
        /\ pred' = pred
    BY DEF Change, IInv, TypeOK
  <1>2. Visible'[k] = SeenOrAbsent(e, m)
    BY <1>1, SeenAfter
  <1>3. \A j \in Keys : j # k => Visible'[j] = Visible[j]
    <2> SUFFICES ASSUME NEW j \in Keys, j # k
                 PROVE  SeenOrAbsent(ev[j], m) = SeenOrAbsent(ev[j], mem)
      BY <1>1, SeenAt, SeenAfter
    <2>1. CASE ~Present(j)
      BY <2>1 DEF Present, SeenOrAbsent
    <2>2. CASE Present(j) /\ ev[j].black
      BY <2>2 DEF Seen, SeenOrAbsent
    <2>3. CASE Present(j) /\ ~ev[j].black
      <3>1. ev[j].buf \in Heap \cup Rows
        BY <2>3 DEF IInv, EntryOK
      <3>2. m[ev[j].buf] = mem[ev[j].buf]
        BY <2>3, <3>1, OthersUntouched
      <3> QED
        BY <3>2 DEF Seen, SeenOrAbsent
    <2> QED
      BY <2>1, <2>2, <2>3
  <1>4. Visible' = [Visible EXCEPT ![k] = SeenOrAbsent(e, m)]
    BY <1>2, <1>3 DEF Visible
  <1> QED
    BY <1>1, <1>4 DEF Abstract!Become, Abstract!Marked, Marked

LEMMA SameHelpers ==
  /\ Abstract!Values = Values /\ Abstract!Counts = Counts
  /\ Abstract!DefaultCutoff = DefaultCutoff
  /\ Abstract!FirstN = FirstN
  /\ Abstract!None = None
  /\ \A x, c : Abstract!SaturateAdd(x, c) = SaturateAdd(x, c)
  /\ \A b, v, c : Abstract!UnderThreshold(b, v, c) = UnderThreshold(b, v, c)
  /\ \A v, c : Abstract!NewEntry(v, c) =
       [val |-> v, black |-> FALSE, under |-> v < DefaultCutoff, cnt |-> c]
  BY Zenon DEF Abstract!Values, Values, Abstract!Counts, Counts,
     Abstract!DefaultCutoff, DefaultCutoff, Abstract!FirstN, FirstN,
     Abstract!None, None, Abstract!SaturateAdd, SaturateAdd,
     Abstract!UnderThreshold, UnderThreshold, Abstract!NewEntry

-----------------------------------------------------------------------------
(* What a step on key k may do to the memory. *)

LEMMA WithinSame ==
  ASSUME NEW k
  PROVE  Within(k, mem)
  BY DEF Within

LEMMA WithinWritten ==
  ASSUME IInv, NEW k \in Keys, NEW m \in Memories, Within(k, m),
         NEW b \in Buffers, NEW v,
         b \in Available \/ b = ZeroBuf \/ (Present(k) /\ b = ev[k].buf)
  PROVE  Within(k, Written(m, b, v)) /\ Written(m, b, v)[b] = v
  BY BufferFacts DEF Within, Written, Available, Memories

LEMMA WithinReleased ==
  ASSUME IInv, NEW k \in Keys, NEW m \in Memories, Within(k, m), NEW S,
         \A x \in Heap \cup Rows : x \in S => mem[x] = Freed \/ (Present(k) /\ x = ev[k].buf)
  PROVE  Within(k, Release(m, S))
  BY BufferFacts, ReleaseFacts DEF Within

-----------------------------------------------------------------------------
(* Entries of KvStore with some fields changed. *)

LEMMA ChangedEntry ==
  ASSUME NEW t, IsEntry(t), NEW x, NEW y
  PROVE  /\ [t EXCEPT !.cnt = x] =
              [val |-> t.val, black |-> t.black, under |-> t.under, cnt |-> x]
         /\ [t EXCEPT !.val = x] =
              [val |-> x, black |-> t.black, under |-> t.under, cnt |-> t.cnt]
         /\ [t EXCEPT !.under = x] =
              [val |-> t.val, black |-> t.black, under |-> x, cnt |-> t.cnt]
         /\ [t EXCEPT !.val = x, !.under = y] =
              [val |-> x, black |-> t.black, under |-> y, cnt |-> t.cnt]
         /\ [t EXCEPT !.black = FALSE, !.under = TRUE] =
              [val |-> t.val, black |-> FALSE, under |-> TRUE, cnt |-> t.cnt]
         /\ [t EXCEPT !.val = 0, !.black = TRUE, !.under = TRUE] =
              [val |-> 0, black |-> TRUE, under |-> TRUE, cnt |-> t.cnt]
  <1> DEFINE v == t.val
             b == t.black
             u == t.under
             c == t.cnt
  <1>0. t = [val |-> v, black |-> b, under |-> u, cnt |-> c]
    BY DEF IsEntry
  <1> HIDE DEF v, b, u, c
  <1>1. [t EXCEPT !.cnt = x] = [val |-> v, black |-> b, under |-> u, cnt |-> x]
    <2> SUFFICES ASSUME NEW r, r = [[val |-> v, black |-> b, under |-> u, cnt |-> c]
                                      EXCEPT !.cnt = x]
                 PROVE  r = [val |-> v, black |-> b, under |-> u, cnt |-> x]
      BY <1>0
    <2> QED
      OBVIOUS
  <1>2. [t EXCEPT !.val = x] = [val |-> x, black |-> b, under |-> u, cnt |-> c]
    <2> SUFFICES ASSUME NEW r, r = [[val |-> v, black |-> b, under |-> u, cnt |-> c]
                                      EXCEPT !.val = x]
                 PROVE  r = [val |-> x, black |-> b, under |-> u, cnt |-> c]
      BY <1>0
    <2> QED
      OBVIOUS
  <1>3. [t EXCEPT !.under = x] = [val |-> v, black |-> b, under |-> x, cnt |-> c]
    <2> SUFFICES ASSUME NEW r, r = [[val |-> v, black |-> b, under |-> u, cnt |-> c]
                                      EXCEPT !.under = x]
                 PROVE  r = [val |-> v, black |-> b, under |-> x, cnt |-> c]
      BY <1>0
    <2> QED
      OBVIOUS
  <1>5. [t EXCEPT !.val = x, !.under = y] = [val |-> x, black |-> b, under |-> y, cnt |-> c]
    <2> SUFFICES ASSUME NEW r, r = [[val |-> v, black |-> b, under |-> u, cnt |-> c]
                                      EXCEPT !.val = x, !.under = y]
                 PROVE  r = [val |-> x, black |-> b, under |-> y, cnt |-> c]
      BY <1>0
    <2> QED
      OBVIOUS
  <1>6. [t EXCEPT !.black = FALSE, !.under = TRUE] =
          [val |-> v, black |-> FALSE, under |-> TRUE, cnt |-> c]
    <2> SUFFICES ASSUME NEW r, r = [[val |-> v, black |-> b, under |-> u, cnt |-> c]
                                      EXCEPT !.black = FALSE, !.under = TRUE]
                 PROVE  r = [val |-> v, black |-> FALSE, under |-> TRUE, cnt |-> c]
      BY <1>0
    <2> QED
      OBVIOUS
  <1>7. [t EXCEPT !.val = 0, !.black = TRUE, !.under = TRUE] =
          [val |-> 0, black |-> TRUE, under |-> TRUE, cnt |-> c]
    <2> SUFFICES ASSUME NEW r, r = [[val |-> v, black |-> b, under |-> u, cnt |-> c]
                                      EXCEPT !.val = 0, !.black = TRUE, !.under = TRUE]
                 PROVE  r = [val |-> 0, black |-> TRUE, under |-> TRUE, cnt |-> c]
      BY <1>0
    <2> QED
      OBVIOUS
  <1> QED
    BY <1>1, <1>2, <1>3, <1>5, <1>6, <1>7 DEF v, b, u, c

LEMMA CountedEntry ==
  ASSUME NEW t, IsEntry(t), NEW x, NEW y
  PROVE  [t EXCEPT !.cnt = x, !.under = y] =
           [val |-> t.val, black |-> t.black, under |-> y, cnt |-> x]
  <1> DEFINE v == t.val
             b == t.black
             u == t.under
             c == t.cnt
  <1>1. t = [val |-> v, black |-> b, under |-> u, cnt |-> c]
    BY DEF IsEntry
  <1> HIDE DEF v, b, u, c
  <1>2. [t EXCEPT !.cnt = x, !.under = y] = [val |-> v, black |-> b, under |-> y, cnt |-> x]
    <2> SUFFICES ASSUME NEW r, r = [[val |-> v, black |-> b, under |-> u, cnt |-> c]
                                      EXCEPT !.cnt = x, !.under = y]
                 PROVE  r = [val |-> v, black |-> b, under |-> y, cnt |-> x]
      BY <1>1
    <2> QED
      OBVIOUS
  <1> QED
    BY <1>2 DEF v, b

-----------------------------------------------------------------------------
(* The operations on one key. *)

LEMMA NewSeen ==
  ASSUME NEW b \in Heap, NEW v \in Values, NEW c \in Counts, NEW m, m[b] = v
  PROVE  SeenOrAbsent(NewEntry(b, v, c), m) = Abstract!NewEntry(v, c)
  <1>1. NewEntry(b, v, c) \in EmbeddingValue
    BY NewEntryType
  <1>2. NewEntry(b, v, c) # Absent
    BY <1>1, AbsentEntryAssumption
  <1> QED
    BY <1>2, SameHelpers DEF SeenOrAbsent, Seen, NewEntry

LEMMA InsertSeen ==
  ASSUME IInv, IInv', NEW k \in Keys, NEW v \in Values, NEW c \in Counts, Insert(k, v, c)
  PROVE  ~Abstract!Present(k) /\ Abstract!Become(k, Abstract!NewEntry(v, c))
  <1>1. PICK b \in Available : Change(k, NewEntry(b, v, c), Written(mem, b, v))
    BY DEF Insert
  <1>2. b \in Heap /\ b \in Buffers
    BY MemoryFacts
  <1>3. Within(k, Written(mem, b, v)) /\ Written(mem, b, v)[b] = v
    BY <1>2, MemoryFacts, WithinSame, WithinWritten
  <1>4. NewEntry(b, v, c) \in EmbeddingValue
    BY <1>2, NewEntryType
  <1>5. SeenOrAbsent(NewEntry(b, v, c), Written(mem, b, v)) = Abstract!NewEntry(v, c)
    BY <1>2, <1>3, NewSeen
  <1>6. ~Present(k)
    BY DEF Insert
  <1> HIDE DEF NewEntry, Written
  <1> QED
    BY <1>1, <1>3, <1>4, <1>5, <1>6, ChangeSeen, SeenPresent

\* A step that judges the row again: what is seen is the value now in the
\* buffer, with that judgement.
LEMMA RefreshSeen ==
  ASSUME IInv, IInv', NEW k \in Keys, NEW e \in EmbeddingValue, NEW v, NEW m,
         Change(k, Refresh(e, v), m), Within(k, m),
         ~e.black => m[e.buf] = v
  PROVE  Abstract!Become(k, [val |-> IF e.black THEN 0 ELSE v, black |-> e.black,
                             under |-> UnderThreshold(e.black, v, DefaultCutoff),
                             cnt |-> e.cnt])
  <1>1. /\ Refresh(e, v) \in EmbeddingValue
        /\ Refresh(e, v).buf = e.buf /\ Refresh(e, v).black = e.black
    BY RefreshFacts
  <1>2. /\ Refresh(e, v).under = UnderThreshold(e.black, v, DefaultCutoff)
        /\ Refresh(e, v).cnt = e.cnt
    BY DEF Refresh, EmbeddingValue
  <1>3. Refresh(e, v) # Absent
    BY <1>1, AbsentEntryAssumption
  <1>4. SeenOrAbsent(Refresh(e, v), m) =
          [val |-> IF e.black THEN 0 ELSE v, black |-> e.black,
           under |-> UnderThreshold(e.black, v, DefaultCutoff), cnt |-> e.cnt]
    BY <1>1, <1>2, <1>3 DEF SeenOrAbsent, Seen
  <1>5. Abstract!Become(k, SeenOrAbsent(Refresh(e, v), m))
    BY <1>1, ChangeSeen
  <1> QED
    BY <1>4, <1>5

LEMMA GatherSeen ==
  ASSUME IInv, IInv', NEW k \in Keys, NEW c \in Counts, NEW v \in Values, Gather(k, c, v)
  PROVE  Abstract!Gather(k, c, v)
  <1>1. CASE Insert(k, v, c)
    BY <1>1, InsertSeen DEF Abstract!Gather
  <1>2. CASE Present(k) /\ ~Insert(k, v, c)
    <2> DEFINE e == [ev[k] EXCEPT !.cnt = SaturateAdd(@, c)]
    <2>1. ev[k] \in EmbeddingValue /\ EntryOK(k, ev[k], mem)
      BY <1>2, OwnedFacts
    <2>2. SaturateAdd(ev[k].cnt, c) \in Counts
      BY <2>1, SaturateAddType DEF EmbeddingValue
    <2>3. /\ e \in EmbeddingValue /\ e.buf = ev[k].buf /\ e.black = ev[k].black
          /\ e.cnt = SaturateAdd(ev[k].cnt, c)
      BY <2>1, <2>2 DEF EmbeddingValue
    <2>4. Change(k, Refresh(e, Content(e)), mem)
      BY <1>2 DEF Gather
    <2> HIDE DEF e
    <2>5. Content(e) = Visible[k].val
      BY <1>2, <2>3, SeenFields DEF Content
    <2>6. ~e.black => mem[e.buf] = Content(e)
      BY DEF Content
    <2>7. Abstract!Become(k, [val |-> IF e.black THEN 0 ELSE Content(e), black |-> e.black,
                              under |-> UnderThreshold(e.black, Content(e), DefaultCutoff),
                              cnt |-> e.cnt])
      BY <1>2, <2>3, <2>4, <2>6, WithinSame, RefreshSeen
    <2> DEFINE r == [Visible[k] EXCEPT
                       !.cnt = Abstract!SaturateAdd(@, c),
                       !.under = Abstract!UnderThreshold(Visible[k].black, Visible[k].val,
                                                         Abstract!DefaultCutoff)]
    <2>8. r = [Visible[k] EXCEPT
                 !.cnt = e.cnt,
                 !.under = UnderThreshold(e.black, Content(e), DefaultCutoff)]
      BY <1>2, <2>3, <2>5, SeenFields, SameHelpers
    <2>9. r = [val |-> IF e.black THEN 0 ELSE Content(e), black |-> e.black,
               under |-> UnderThreshold(e.black, Content(e), DefaultCutoff), cnt |-> e.cnt]
      <3>1. /\ Visible[k].val = IF e.black THEN 0 ELSE Content(e)
            /\ Visible[k].black = e.black
        BY <1>2, <2>3, <2>5, SeenFields
      <3>2. IsEntry(Visible[k])
        BY <1>2, SeenFields
      <3> DEFINE u == UnderThreshold(e.black, Content(e), DefaultCutoff)
                 x == e.cnt
      <3>3. r = [Visible[k] EXCEPT !.cnt = x, !.under = u]
        BY <2>8
      <3> HIDE DEF r, u, x
      <3>4. [Visible[k] EXCEPT !.cnt = x, !.under = u] =
              [val |-> Visible[k].val, black |-> Visible[k].black, under |-> u, cnt |-> x]
        BY <3>2, CountedEntry
      <3> QED
        BY <3>1, <3>3, <3>4 DEF u, x
    <2> QED
      BY <1>2, <2>7, <2>9, SeenPresent DEF Abstract!Gather
  <1> QED
    BY <1>1, <1>2 DEF Gather

LEMMA WriteOf ==
  ASSUME NEW t, IsEntry(t), NEW v
  PROVE  Abstract!Write(t, v) =
           [val |-> IF t.black THEN 0 ELSE v, black |-> t.black,
            under |-> UnderThreshold(t.black, v, DefaultCutoff), cnt |-> t.cnt]
  <1> DEFINE x == IF t.black THEN 0 ELSE v
             y == UnderThreshold(t.black, v, DefaultCutoff)
  <1>1. Abstract!Write(t, v) = [t EXCEPT !.val = x, !.under = y]
    BY SameHelpers DEF Abstract!Write
  <1> HIDE DEF x, y
  <1>2. Abstract!Write(t, v) = [val |-> x, black |-> t.black, under |-> y, cnt |-> t.cnt]
    BY <1>1, ChangedEntry
  <1> QED
    BY <1>2 DEF x, y

\* A step that writes v into the buffer of e, e judged again.
LEMMA WrittenSeen ==
  ASSUME IInv, IInv', NEW k \in Keys, NEW e \in EmbeddingValue, NEW v, NEW m,
         Change(k, Refresh(e, v), m), Within(k, m),
         ~e.black => m[e.buf] = v,
         NEW t, IsEntry(t), t.black = e.black, t.cnt = e.cnt
  PROVE  Abstract!Become(k, Abstract!Write(t, v))
  <1>1. Abstract!Write(t, v) =
          [val |-> IF e.black THEN 0 ELSE v, black |-> e.black,
           under |-> UnderThreshold(e.black, v, DefaultCutoff), cnt |-> e.cnt]
    BY WriteOf
  <1> QED
    BY <1>1, RefreshSeen

LEMMA InsertOrUpdateSeen ==
  ASSUME IInv, IInv', NEW k \in Keys, NEW v \in Values, InsertOrUpdate(k, v)
  PROVE  Abstract!InsertOrUpdate(k, v)
  <1>1. CASE Insert(k, v, 1)
    BY <1>1, CountFacts, InsertSeen DEF Abstract!InsertOrUpdate
  <1>2. CASE /\ Present(k)
             /\ ev[k].buf = Null
             /\ \E b \in Available :
                  Change(k, Refresh([ev[k] EXCEPT !.buf = b, !.owner = TRUE], v),
                         Written(mem, b, v))
    <2>1. PICK b \in Available :
            Change(k, Refresh([ev[k] EXCEPT !.buf = b, !.owner = TRUE], v),
                   Written(mem, b, v))
      BY <1>2
    <2> DEFINE e == [ev[k] EXCEPT !.buf = b, !.owner = TRUE]
    <2>2. ev[k] \in EmbeddingValue
      BY <1>2, OwnedFacts
    <2>3. /\ e \in EmbeddingValue /\ e.buf = b
          /\ e.black = ev[k].black /\ e.cnt = ev[k].cnt
      BY <2>2, MemoryFacts DEF EmbeddingValue
    <2>4. Within(k, Written(mem, b, v)) /\ Written(mem, b, v)[b] = v
      BY MemoryFacts, WithinSame, WithinWritten
    <2>5. Change(k, Refresh(e, v), Written(mem, b, v))
      BY <2>1
    <2> HIDE DEF e
    <2>6. Abstract!Become(k, Abstract!Write(Visible[k], v))
      BY <1>2, <2>3, <2>4, <2>5, SeenFields, WrittenSeen
    <2> QED
      BY <1>2, <2>6, SeenPresent DEF Abstract!InsertOrUpdate
  <1>3. CASE /\ Present(k)
             /\ ev[k].buf # Null
             /\ Change(k, Refresh(ev[k], v), Written(mem, ev[k].buf, v))
    <2>1. ev[k] \in EmbeddingValue /\ ev[k].buf \in Buffers
      BY <1>3, OwnedFacts DEF EmbeddingValue
    <2>2. Within(k, Written(mem, ev[k].buf, v)) /\ Written(mem, ev[k].buf, v)[ev[k].buf] = v
      BY <1>3, <2>1, MemoryFacts, WithinSame, WithinWritten
    <2>3. Abstract!Become(k, Abstract!Write(Visible[k], v))
      BY <1>3, <2>1, <2>2, SeenFields, WrittenSeen
    <2> QED
      BY <1>3, <2>3, SeenPresent DEF Abstract!InsertOrUpdate
  <1> QED
    BY <1>1, <1>2, <1>3 DEF InsertOrUpdate

LEMMA FilteredUpdateSeen ==
  ASSUME IInv, IInv', NEW k \in Keys, FilteredUpdate(k)
  PROVE  Abstract!FilteredUpdate(k)
  <1>1. Change(k, ev[k], mem) /\ ev[k] \in EmbeddingValue \cup {Absent}
    BY DEF FilteredUpdate, IInv, TypeOK
  <1> QED
    BY <1>1, WithinSame, ChangeSeen, SeenAt DEF Abstract!FilteredUpdate

\* A blacklisted entry reads as zero, whatever it read as before.
LEMMA BlacklistedSeen ==
  ASSUME NEW e \in EmbeddingValue \cup {Absent}, NEW t, NEW m,
         e = Absent => t = Absent,
         e # Absent => /\ t # Absent /\ IsEntry(t)
                       /\ t.black = e.black /\ t.cnt = e.cnt
                       /\ e.black => t.val = 0 /\ t.under = e.under
  PROVE  SeenOrAbsent(Blacklisted(e), m) = Abstract!BlackEntry(t)
  <1>1. Blacklisted(e) # Absent
    BY BlacklistedFacts, AbsentEntryAssumption
  <1>2. CASE e = Absent
    BY <1>1, <1>2 DEF SeenOrAbsent, Seen, Blacklisted, Abstract!BlackEntry
  <1>3. CASE e # Absent /\ e.black
    BY <1>1, <1>3 DEF SeenOrAbsent, Seen, Blacklisted, Abstract!BlackEntry, IsEntry
  <1>4. CASE e # Absent /\ ~e.black
    <2>1. /\ Blacklisted(e).black /\ Blacklisted(e).under = TRUE
          /\ Blacklisted(e).black = TRUE /\ Blacklisted(e).cnt = e.cnt
      BY <1>4 DEF Blacklisted, EmbeddingValue
    <2>2. Abstract!BlackEntry(t) = [t EXCEPT !.val = 0, !.black = TRUE, !.under = TRUE]
      BY <1>4 DEF Abstract!BlackEntry
    <2>3. IsEntry(t) /\ t.cnt = e.cnt
      BY <1>4
    <2>4. [t EXCEPT !.val = 0, !.black = TRUE, !.under = TRUE] =
            [val |-> 0, black |-> TRUE, under |-> TRUE, cnt |-> t.cnt]
      BY <2>3, ChangedEntry, Zenon
    <2> QED
      BY <1>1, <2>1, <2>2, <2>3, <2>4 DEF SeenOrAbsent, Seen
  <1> QED
    BY <1>2, <1>3, <1>4

LEMMA MarkBlacklistSeen ==
  ASSUME IInv, IInv', NEW k \in Keys, MarkBlacklist(k)
  PROVE  Abstract!MarkBlacklist(k)
  <1> DEFINE m == Release(mem, DroppedBy(ev[k]))
  <1>1. ev[k] \in EmbeddingValue \cup {Absent}
    BY DEF IInv, TypeOK
  <1>2. Change(k, Blacklisted(ev[k]), m) /\ Blacklisted(ev[k]) \in EmbeddingValue
    BY <1>1, BlacklistedFacts DEF MarkBlacklist
  <1>3. Within(k, m)
    <2>1. \A x : x \in DroppedBy(ev[k]) => Present(k) /\ x = ev[k].buf
      BY OwnedFacts DEF DroppedBy, Present
    <2> QED
      BY <2>1, MemoryFacts, WithinSame, WithinReleased
  <1>4. SeenOrAbsent(Blacklisted(ev[k]), m) = Abstract!BlackEntry(Visible[k])
    <2>1. ev[k] = Absent => Visible[k] = Absent
      BY SeenPresent DEF Present
    <2>2. ev[k] # Absent => Visible[k] # Absent /\ IsEntry(Visible[k])
      BY SeenPresent, SeenFields DEF Present, Abstract!Present
    <2>3. ev[k] # Absent => /\ Visible[k].black = ev[k].black /\ Visible[k].cnt = ev[k].cnt
                            /\ ev[k].black => Visible[k].val = 0 /\ Visible[k].under = ev[k].under
      BY SeenFields DEF Present
    <2> QED
      BY <1>1, <2>1, <2>2, <2>3, BlacklistedSeen
  <1> HIDE DEF m
  <1> QED
    BY <1>2, <1>3, <1>4, ChangeSeen DEF Abstract!MarkBlacklist

LEMMA ScatterUpdateSeen ==
  ASSUME IInv, IInv', NEW k \in Keys, NEW v \in Values, ScatterUpdate(k, v)
  PROVE  Abstract!ScatterUpdate(k, v)
  <1>1. CASE Insert(k, v, 1)
    BY <1>1, CountFacts, InsertSeen DEF Abstract!ScatterUpdate
  <1>2. CASE /\ Present(k)
             /\ ~ev[k].black
             /\ Change(k, Refresh(ev[k], v), Written(mem, ev[k].buf, v))
    <2>1. ev[k] \in EmbeddingValue /\ ev[k].buf \in Buffers
      BY <1>2, OwnedFacts, BufferFacts DEF EntryOK
    <2>2. Within(k, Written(mem, ev[k].buf, v)) /\ Written(mem, ev[k].buf, v)[ev[k].buf] = v
      BY <1>2, <2>1, MemoryFacts, WithinSame, WithinWritten
    <2>3. Abstract!Become(k, Abstract!Write(Visible[k], v))
      BY <1>2, <2>1, <2>2, SeenFields, WrittenSeen
    <2>4. Abstract!Present(k) /\ ~Visible[k].black
      BY <1>2, SeenPresent, SeenFields
    <2> QED
      BY <2>3, <2>4 DEF Abstract!ScatterUpdate
  <1>3. CASE /\ Present(k)
             /\ ev[k].black
             /\ Change(k, [ev[k] EXCEPT !.buf = ZeroBuf],
                       Release(mem, Owned(ev[k]) \ {ZeroBuf}))
    <2> DEFINE e == [ev[k] EXCEPT !.buf = ZeroBuf]
               m == Release(mem, Owned(ev[k]) \ {ZeroBuf})
    <2>1. ev[k] \in EmbeddingValue
      BY <1>3, OwnedFacts
    <2>2. /\ e \in EmbeddingValue
          /\ e.black = ev[k].black /\ e.under = ev[k].under /\ e.cnt = ev[k].cnt
      BY <2>1, BufferFacts DEF EmbeddingValue
    <2>3. Within(k, m)
      <3>1. \A x : x \in Owned(ev[k]) \ {ZeroBuf} => Present(k) /\ x = ev[k].buf
        BY <1>3 DEF Owned
      <3> QED
        BY <3>1, MemoryFacts, WithinSame, WithinReleased
    <2>4. Change(k, e, m)
      BY <1>3
    <2> HIDE DEF e, m
    <2>5. e # Absent
      BY <2>2, AbsentEntryAssumption
    <2>6. SeenOrAbsent(e, m) = Visible[k]
      BY <1>3, <2>2, <2>5, SeenPresent DEF SeenOrAbsent, Seen
    <2>7. Abstract!Become(k, Visible[k])
      BY <2>2, <2>3, <2>4, <2>6, ChangeSeen
    <2>8. Abstract!Present(k) /\ Visible[k].black
      BY <1>3, SeenPresent, SeenFields
    <2> QED
      BY <2>7, <2>8 DEF Abstract!ScatterUpdate
  <1> QED
    BY <1>1, <1>2, <1>3 DEF ScatterUpdate

\* The entry and memory f that a lookup hands an optimizer are seen as t, but
\* for the value, which the kernel then writes.
Stands(k, f, t) ==
  /\ f.e \in EmbeddingValue /\ f.e.black = FALSE /\ f.e # Absent
  /\ f.m \in Memories /\ Within(k, f.m)
  /\ f.e.buf \in Buffers
  /\ f.e.buf \in Available \/ (Present(k) /\ f.e.buf = ev[k].buf)
  /\ IsEntry(t) /\ t # Absent
  /\ t.black = FALSE /\ t.under = f.e.under /\ t.cnt = f.e.cnt

LEMMA StandsWritten ==
  ASSUME IInv, NEW k \in Keys, NEW f, NEW t, Stands(k, f, t), NEW v
  PROVE  Within(k, Written(f.m, f.e.buf, v)) /\ Written(f.m, f.e.buf, v)[f.e.buf] = v
  <1> DEFINE b == f.e.buf
  <1>1. /\ f.m \in Memories /\ Within(k, f.m) /\ b \in Buffers
        /\ b \in Available \/ (Present(k) /\ b = ev[k].buf)
    BY DEF Stands
  <1> HIDE DEF b
  <1>2. Within(k, Written(f.m, b, v)) /\ Written(f.m, b, v)[b] = v
    BY <1>1, WithinWritten
  <1> QED
    BY <1>2 DEF b

LEMMA CoverSeen ==
  ASSUME IInv, IInv', NEW k \in Keys, NEW f, NEW t, Stands(k, f, t), NEW v,
         Change(k, Refresh(f.e, v), Written(f.m, f.e.buf, v))
  PROVE  Abstract!Become(k, Abstract!Write(t, v))
  <1>1. Within(k, Written(f.m, f.e.buf, v)) /\ Written(f.m, f.e.buf, v)[f.e.buf] = v
    BY StandsWritten
  <1>2. /\ f.e \in EmbeddingValue
        /\ IsEntry(t) /\ t.black = f.e.black /\ t.cnt = f.e.cnt
    BY DEF Stands
  <1> QED
    BY <1>1, <1>2, WrittenSeen

LEMMA PlainSeen ==
  ASSUME IInv, IInv', NEW k \in Keys, NEW f, NEW t, Stands(k, f, t), NEW v,
         Change(k, f.e, Written(f.m, f.e.buf, v))
  PROVE  Abstract!Become(k, [t EXCEPT !.val = v])
  <1> DEFINE m == Written(f.m, f.e.buf, v)
  <1>1. Within(k, m) /\ m[f.e.buf] = v
    BY StandsWritten
  <1>2. /\ f.e \in EmbeddingValue /\ f.e.black = FALSE /\ f.e # Absent
        /\ IsEntry(t) /\ t.black = FALSE /\ t.under = f.e.under /\ t.cnt = f.e.cnt
    BY DEF Stands
  <1>3. Change(k, f.e, m)
    OBVIOUS
  <1> HIDE DEF m
  <1>4. [t EXCEPT !.val = v] = [val |-> v, black |-> t.black, under |-> t.under, cnt |-> t.cnt]
    BY <1>2, ChangedEntry, Zenon
  <1>5. SeenOrAbsent(f.e, m) = [t EXCEPT !.val = v]
    BY <1>1, <1>2, <1>4 DEF SeenOrAbsent, Seen
  <1> QED
    BY <1>1, <1>2, <1>3, <1>5, ChangeSeen

\* What FindOrInsertUnsafe hands an optimizer is seen as TrainBase, but for
\* the value, which the kernel then writes.
LEMMA TrainFoundSeen ==
  ASSUME IInv, NEW k \in Keys, NEW i \in Values, NEW f \in TrainFound(k, i)
  PROVE  ~Abstract!Filtered(k) /\ Stands(k, f, Abstract!TrainBase(k, i))
  <1> DEFINE t == Abstract!TrainBase(k, i)
  <1>0. f.e # Absent
    BY TrainFoundType, AbsentEntryAssumption
  <1>1. CASE ~Present(k)
    <2>1. PICK b \in Available : f = [e |-> NewEntry(b, i, 1), m |-> Written(mem, b, i)]
      BY <1>1 DEF TrainFound
    <2>2. NewEntry(b, i, 1) \in EmbeddingValue
      BY MemoryFacts, NewEntryType, CountFacts
    <2>3. /\ f.e.buf = b /\ f.e.black = FALSE
          /\ f.e.under = (i < DefaultCutoff) /\ f.e.cnt = 1
      BY <2>1 DEF NewEntry
    <2>4. f.m \in Memories /\ Within(k, f.m)
      BY <2>1, MemoryFacts, WrittenFacts, WithinSame, WithinWritten
    <2>5. ~Abstract!Present(k)
      BY <1>1, SeenPresent
    <2>6. t = [val |-> i, black |-> FALSE, under |-> i < DefaultCutoff, cnt |-> 1]
      BY <2>5, SameHelpers DEF Abstract!TrainBase
    <2>7. t \in Entry
      BY <2>6, CountFacts DEF Entry
    <2> HIDE DEF t
    <2>8. IsEntry(t) /\ t # Absent
      BY <2>6, <2>7, AbsentAssumption DEF IsEntry
    <2> QED
      BY <1>0, <2>1, <2>2, <2>3, <2>4, <2>5, <2>6, <2>8, MemoryFacts DEF t, Abstract!Filtered, Stands
  <1>2. CASE Present(k)
    <2>1. /\ Abstract!Present(k) /\ Visible[k].cnt = ev[k].cnt
          /\ Visible[k].black = ev[k].black /\ Visible[k].under = ev[k].under
          /\ IsEntry(Visible[k]) /\ Visible[k] # Absent
      BY <1>2, SeenPresent, SeenFields DEF Abstract!Present
    <2>2. ~LowFrequency(ev[k])
      BY <1>2 DEF TrainFound
    <2>3. ~Abstract!Filtered(k)
      BY <2>1, <2>2 DEF Abstract!Filtered, Abstract!LowFrequency, LowFrequency
    <2>4. t = Abstract!Revive(Visible[k])
      BY <2>1 DEF Abstract!TrainBase
    <2>5. CASE ~ev[k].black
      <3>1. f.e = ev[k] /\ f.m = mem
        BY <1>2, <2>2, <2>5 DEF TrainFound
      <3>2. t = Visible[k]
        BY <2>1, <2>4, <2>5 DEF Abstract!Revive
      <3>3. ev[k] \in EmbeddingValue /\ ev[k].buf \in Buffers
        BY <1>2, <2>5, OwnedFacts, BufferFacts DEF EntryOK
      <3> HIDE DEF t
      <3> QED
        BY <1>0, <1>2, <2>1, <2>3, <2>5, <3>1, <3>2, <3>3, MemoryFacts, WithinSame
           DEF t, EmbeddingValue, Stands
    <2>6. CASE ev[k].black
      <3> DEFINE E(b) == [ev[k] EXCEPT !.buf = b, !.owner = TRUE, !.black = FALSE, !.under = TRUE]
                 M(b) == Written(Release(mem, Owned(ev[k])), b, 0)
      <3>1. PICK b \in Available : f = [e |-> E(b), m |-> M(b)]
        BY <1>2, <2>2, <2>6 DEF TrainFound
      <3>2. ev[k] \in EmbeddingValue
        BY <1>2, OwnedFacts
      <3>3. /\ E(b) \in EmbeddingValue /\ E(b).buf = b /\ E(b).black = FALSE
            /\ E(b).under = TRUE /\ E(b).cnt = ev[k].cnt
        BY <3>2, MemoryFacts DEF EmbeddingValue
      <3>4. Within(k, Release(mem, Owned(ev[k]))) /\ Release(mem, Owned(ev[k])) \in Memories
        <4>1. \A x : x \in Owned(ev[k]) => Present(k) /\ x = ev[k].buf
          BY <1>2 DEF Owned
        <4> QED
          BY <4>1, MemoryFacts, ReleaseFacts, WithinSame, WithinReleased
      <3>5. M(b) \in Memories /\ Within(k, M(b))
        BY <3>4, MemoryFacts, WrittenFacts, WithinWritten, CountFacts
      <3> HIDE DEF E, M
      <3>6. [Visible[k] EXCEPT !.black = FALSE, !.under = TRUE] =
              [val |-> Visible[k].val, black |-> FALSE, under |-> TRUE, cnt |-> Visible[k].cnt]
        BY <2>1, ChangedEntry, Zenon
      <3>7. t = [val |-> Visible[k].val, black |-> FALSE, under |-> TRUE, cnt |-> ev[k].cnt]
        BY <2>1, <2>4, <2>6, <3>6 DEF Abstract!Revive
      <3>8. t \in Entry
        <4>1. Visible[k] \in Entry
          BY <1>2, SeenPresent, SeenType, OwnedFacts
        <4> QED
          BY <3>2, <3>7, <4>1 DEF Entry, EmbeddingValue
      <3> HIDE DEF t
      <3>9. IsEntry(t) /\ t # Absent
        BY <3>7, <3>8, AbsentAssumption DEF IsEntry
      <3>10. t.black = FALSE /\ t.under = TRUE /\ t.cnt = ev[k].cnt
        BY <3>7
      <3>11. f.e = E(b) /\ f.m = M(b) /\ b \in Buffers
        BY <3>1, MemoryFacts
      <3> QED
        BY <1>0, <2>3, <3>3, <3>5, <3>9, <3>10, <3>11 DEF t, Stands
    <2> QED
      BY <2>5, <2>6
  <1> QED
    BY <1>1, <1>2

LEMMA TrainCoverSeen ==
  ASSUME IInv, IInv', NEW k \in Keys, NEW i \in Values, NEW v \in Values,
         TrainCover(k, i, v)
  PROVE  Abstract!TrainCover(k, i, v)
  <1>1. PICK f \in TrainFound(k, i) : Change(k, Refresh(f.e, v), Written(f.m, f.e.buf, v))
    BY DEF TrainCover
  <1> QED
    BY <1>1, TrainFoundSeen, CoverSeen DEF Abstract!TrainCover

LEMMA TrainPlainSeen ==
  ASSUME IInv, IInv', NEW k \in Keys, NEW i \in Values, NEW v \in Values,
         TrainPlain(k, i, v)
  PROVE  Abstract!TrainPlain(k, i, v)
  <1>1. PICK f \in TrainFound(k, i) : Change(k, f.e, Written(f.m, f.e.buf, v))
    BY DEF TrainPlain
  <1> DEFINE t == Abstract!TrainBase(k, i)
  <1>2. ~Abstract!Filtered(k) /\ Stands(k, f, t)
    BY <1>1, TrainFoundSeen
  <1> HIDE DEF t
  <1>3. Abstract!Become(k, [t EXCEPT !.val = v])
    BY <1>1, <1>2, PlainSeen
  <1> QED
    BY <1>2, <1>3 DEF t, Abstract!TrainPlain

LEMMA TrainLassoSeen ==
  ASSUME IInv, IInv', NEW k \in Keys, NEW i \in Values, TrainLasso(k, i)
  PROVE  Abstract!TrainLasso(k, i)
  <1>1. PICK f \in TrainFound(k, i) : Change(k, Blacklisted(f.e), Release(f.m, Owned(f.e)))
    BY DEF TrainLasso
  <1> DEFINE t == Abstract!TrainBase(k, i)
             m == Release(f.m, Owned(f.e))
  <1>2. Within(k, m)
    <2>1. \A x : x \in Owned(f.e) => x = f.e.buf
      BY DEF Owned
    <2> QED
      BY <2>1, TrainFoundSeen, WithinReleased, ZenonT(30) DEF Available, Stands
  <1>3. /\ f.e \in EmbeddingValue /\ f.e.black = FALSE /\ f.e # Absent
        /\ IsEntry(t) /\ t # Absent /\ t.under = f.e.under /\ t.cnt = f.e.cnt /\ t.black = FALSE
    BY TrainFoundSeen DEF Stands
  <1>4. t.black = f.e.black
    BY <1>3
  <1>5. Change(k, Blacklisted(f.e), m) /\ Blacklisted(f.e) \in EmbeddingValue
    BY <1>1, <1>3, BlacklistedFacts
  <1> HIDE DEF t, m
  <1>6. SeenOrAbsent(Blacklisted(f.e), m) = Abstract!BlackEntry(t)
    BY <1>3, <1>4, BlacklistedSeen
  <1>7. Abstract!Become(k, SeenOrAbsent(Blacklisted(f.e), m))
    BY <1>2, <1>5, ChangeSeen
  <1> QED
    BY <1>6, <1>7, TrainFoundSeen DEF t, Abstract!TrainLasso

\* A slot is never blacklisted in these workloads, so what the lookup hands
\* the optimizer is the slot's own row.
LEMMA SlotFoundSeen ==
  ASSUME IInv, ZeroSafeWorkload, "slot" \in Ops,
         NEW k \in Keys, NEW i \in Values, NEW f \in SlotFound(k, i)
  PROVE  Stands(k, f, Abstract!SlotBase(k, i)) /\ SlotTarget(f.e) = f.e.buf
  <1> DEFINE t == Abstract!SlotBase(k, i)
  <1>0. f.e \in EmbeddingValue /\ f.e # Absent
    BY SlotFoundType, AbsentEntryAssumption
  <1>1. CASE ~Present(k)
    <2>1. PICK b \in Available : f = [e |-> NewEntry(b, i, 1), m |-> Written(mem, b, i)]
      BY <1>1 DEF SlotFound
    <2>2. /\ f.e.buf = b /\ f.e.black = FALSE
          /\ f.e.under = (i < DefaultCutoff) /\ f.e.cnt = 1
      BY <2>1 DEF NewEntry
    <2>3. f.m \in Memories /\ Within(k, f.m)
      BY <2>1, MemoryFacts, WrittenFacts, WithinSame, WithinWritten
    <2>4. ~Abstract!Present(k)
      BY <1>1, SeenPresent
    <2>5. t = [val |-> i, black |-> FALSE, under |-> i < DefaultCutoff, cnt |-> 1]
      BY <2>4, SameHelpers DEF Abstract!SlotBase
    <2>6. t \in Entry
      BY <2>5, CountFacts DEF Entry
    <2> HIDE DEF t
    <2>7. IsEntry(t) /\ t # Absent
      BY <2>5, <2>6, AbsentAssumption DEF IsEntry
    <2> QED
      BY <1>0, <2>1, <2>2, <2>3, <2>5, <2>7, MemoryFacts DEF t, Stands, SlotTarget
  <1>2. CASE Present(k)
    <2> DEFINE c == SaturateAdd(ev[k].cnt, 1)
    <2>1. ev[k] \in EmbeddingValue /\ ev[k].buf \in Buffers /\ ev[k].black = FALSE
      BY <1>2, OwnedFacts, BufferFacts DEF EntryOK, ZeroSafeWorkload, EmbeddingValue
    <2>2. f.e = [ev[k] EXCEPT !.cnt = c] /\ f.m = mem
      BY <1>2 DEF SlotFound
    <2>3. c \in Counts
      BY <2>1, SaturateAddType, CountFacts DEF EmbeddingValue
    <2> HIDE DEF c
    <2>4. /\ f.e.buf = ev[k].buf /\ f.e.black = FALSE
          /\ f.e.under = ev[k].under /\ f.e.cnt = c
      BY <2>1, <2>2, <2>3 DEF EmbeddingValue
    <2>5. /\ Abstract!Present(k) /\ IsEntry(Visible[k]) /\ Visible[k] \in Entry
          /\ Visible[k].black = ev[k].black /\ Visible[k].under = ev[k].under
          /\ Visible[k].cnt = ev[k].cnt
      <3>1. Visible[k] \in Entry
        BY <1>2, SeenPresent, SeenType, OwnedFacts
      <3>2. IsEntry(Visible[k]) /\ Abstract!Present(k)
        BY <1>2, SeenPresent, SeenFields
      <3> QED
        BY <1>2, <3>1, <3>2, SeenFields
    <2>6. t = [Visible[k] EXCEPT !.cnt = c]
      BY <2>5, SameHelpers DEF Abstract!SlotBase, c
    <2>7. t = [val |-> Visible[k].val, black |-> Visible[k].black,
               under |-> Visible[k].under, cnt |-> c]
      BY <2>5, <2>6, ChangedEntry, Zenon
    <2>8. t \in Entry
      BY <2>3, <2>5, <2>7 DEF Entry
    <2>9. t.black = FALSE /\ t.under = f.e.under /\ t.cnt = c
      BY <2>1, <2>4, <2>5, <2>7
    <2> HIDE DEF t
    <2>10. IsEntry(t) /\ t # Absent
      BY <2>7, <2>8, AbsentAssumption DEF IsEntry
    <2> QED
      BY <1>0, <1>2, <2>1, <2>2, <2>4, <2>9, <2>10, MemoryFacts, WithinSame
      DEF t, Stands, SlotTarget
  <1> QED
    BY <1>1, <1>2

LEMMA SlotCoverSeen ==
  ASSUME IInv, IInv', ZeroSafeWorkload, "slot" \in Ops,
         NEW k \in Keys, NEW i \in Values, NEW v \in Values, SlotCover(k, i, v)
  PROVE  Abstract!SlotCover(k, i, v)
  <1>1. PICK f \in SlotFound(k, i) :
          Change(k, Refresh(f.e, v), Written(f.m, SlotTarget(f.e), v))
    BY DEF SlotCover
  <1>2. Stands(k, f, Abstract!SlotBase(k, i)) /\ SlotTarget(f.e) = f.e.buf
    BY SlotFoundSeen
  <1> QED
    BY <1>1, <1>2, CoverSeen DEF Abstract!SlotCover

LEMMA SlotPlainSeen ==
  ASSUME IInv, IInv', ZeroSafeWorkload, "slot" \in Ops,
         NEW k \in Keys, NEW i \in Values, NEW v \in Values, SlotPlain(k, i, v)
  PROVE  Abstract!SlotPlain(k, i, v)
  <1>1. PICK f \in SlotFound(k, i) : Change(k, f.e, Written(f.m, SlotTarget(f.e), v))
    BY DEF SlotPlain
  <1> DEFINE t == Abstract!SlotBase(k, i)
  <1>2. Stands(k, f, t) /\ SlotTarget(f.e) = f.e.buf
    BY SlotFoundSeen
  <1>3. t.black = FALSE
    BY <1>2 DEF Stands
  <1> HIDE DEF t
  <1>4. Abstract!Become(k, [t EXCEPT !.val = v])
    BY <1>1, <1>2, PlainSeen
  <1>5. (IF t.black THEN 0 ELSE v) = v
    BY <1>3
  <1> QED
    BY <1>4, <1>5 DEF t, Abstract!SlotPlain

LEMMA DeleteSeen ==
  ASSUME IInv, IInv', NEW k \in Keys, Delete(k)
  PROVE  Abstract!Delete(k)
  <1>1. Change(k, Absent, Release(mem, OwnedBy({k})))
    BY DEF Delete
  <1>2. \A x \in Heap \cup Rows : x \in OwnedBy({k}) => Present(k) /\ x = ev[k].buf
    BY OwnedByFacts
  <1>3. Within(k, Release(mem, OwnedBy({k})))
    BY <1>2, MemoryFacts, WithinSame, WithinReleased
  <1>4. SeenOrAbsent(Absent, Release(mem, OwnedBy({k}))) = Absent
    BY DEF SeenOrAbsent
  <1> QED
    BY <1>1, <1>3, <1>4, ChangeSeen DEF Abstract!Delete

-----------------------------------------------------------------------------
(* The operations on the whole table. *)

LEMMA ListsSeen ==
  ASSUME NEW n, ExportLists(n)
  PROVE  Abstract!ExportLists(n)
  BY DEF ExportLists, Abstract!ExportLists, TrainListAfterExport,
     Abstract!TrainListAfterExport, PredictionListAfterExport,
     Abstract!PredictionListAfterExport, Training, Abstract!Training

LEMMA DeltaExportSeen ==
  ASSUME IInv, IInv', NEW n \in FirstN, DeltaExport(n)
  PROVE  Abstract!DeltaExport(n)
  <1>1. Visible' = Visible
    BY DEF DeltaExport, Visible, Present, Content
  <1> QED
    BY <1>1, ListsSeen DEF DeltaExport, Abstract!DeltaExport

LEMMA ExportValuesSeen ==
  ASSUME IInv, IInv', NEW n \in FirstN, NEW c \in Cutoffs, ExportValues(n, c)
  PROVE  Abstract!ExportValues(n, c)
  <1> DEFINE R(k) == IF Visible[k] = Absent \/ c = DefaultCutoff THEN Visible[k]
                     ELSE [Visible[k] EXCEPT
                             !.under = UnderThreshold(Visible[k].black, Visible[k].val, c)]
  <1>1. \A k \in Keys : Visible'[k] = R(k)
    <2> SUFFICES ASSUME NEW k \in Keys PROVE Visible'[k] = R(k)
      OBVIOUS
    <2>1. Visible'[k] = SeenOrAbsent(RefreshedEntry(ev[k], c), mem)
      BY SeenAfter DEF ExportValues
    <2>2. CASE ~Present(k) \/ c = DefaultCutoff
      <3>1. RefreshedEntry(ev[k], c) = ev[k]
        BY <2>2 DEF RefreshedEntry, Present
      <3>2. Visible'[k] = Visible[k]
        BY <2>1, <3>1, SeenAt
      <3> QED
        BY <2>2, <3>2, SeenPresent
    <2>3. CASE Present(k) /\ c # DefaultCutoff
      <3> DEFINE u == ev[k].buf = Null \/ UnderThreshold(ev[k].black, mem[ev[k].buf], c)
                 w == UnderThreshold(Visible[k].black, Visible[k].val, c)
      <3>1. ev[k] \in EmbeddingValue /\ EntryOK(k, ev[k], mem)
        BY <2>3, OwnedFacts
      <3>2. /\ IsEntry(Visible[k]) /\ Visible[k] # Absent
            /\ Visible[k].val = Content(ev[k]) /\ Visible[k].black = ev[k].black
            /\ Visible[k].cnt = ev[k].cnt
        BY <2>3, SeenFields, SeenPresent DEF Abstract!Present
      <3>3. Visible[k].val = IF ev[k].black THEN 0 ELSE mem[ev[k].buf]
        BY <3>2 DEF Content, IInv
      <3>4. u = w
        <4>1. CASE ev[k].black
          BY <3>2, <4>1 DEF UnderThreshold
        <4>2. CASE ~ev[k].black
          BY <3>1, <3>2, <3>3, <4>2, BufferFacts DEF UnderThreshold, EntryOK
        <4> QED
          BY <4>1, <4>2
      <3>5. RefreshedEntry(ev[k], c) = [ev[k] EXCEPT !.under = u]
        BY <2>3 DEF RefreshedEntry, Present
      <3>6. u \in BOOLEAN
        BY Zenon
      <3>7. R(k) = [Visible[k] EXCEPT !.under = w]
        BY <2>3, <3>2
      <3> HIDE DEF u, w, R
      <3>8. /\ RefreshedEntry(ev[k], c) \in EmbeddingValue
            /\ RefreshedEntry(ev[k], c).buf = ev[k].buf
            /\ RefreshedEntry(ev[k], c).black = ev[k].black
            /\ RefreshedEntry(ev[k], c).under = u
            /\ RefreshedEntry(ev[k], c).cnt = ev[k].cnt
        BY <3>1, <3>5, <3>6 DEF EmbeddingValue
      <3>9. RefreshedEntry(ev[k], c) # Absent
        BY <3>8, AbsentEntryAssumption
      <3>10. [Visible[k] EXCEPT !.under = w] =
               [val |-> Visible[k].val, black |-> Visible[k].black, under |-> w,
                cnt |-> Visible[k].cnt]
        BY <3>2, ChangedEntry, Zenon
      <3> QED
        BY <2>1, <3>2, <3>3, <3>4, <3>7, <3>8, <3>9, <3>10 DEF SeenOrAbsent, Seen
    <2> QED
      BY <2>2, <2>3
  <1>2. Visible' = [k \in Keys |-> R(k)]
    BY <1>1 DEF Visible
  <1>3. Abstract!ExportLists(n)
    BY ListsSeen DEF ExportValues
  <1> QED
    BY <1>2, <1>3, SameHelpers DEF Abstract!ExportValues, Abstract!Refreshed

LEMMA DeleteWithTimestampSeen ==
  ASSUME IInv, IInv', NEW S \in SUBSET Keys, DeleteWithTimestamp(S)
  PROVE  Abstract!DeleteWithTimestamp(S)
  <1>1. S \subseteq {k \in Keys : Abstract!Present(k)}
    BY SeenPresent DEF DeleteWithTimestamp
  <1>2. \A k \in Keys : Visible'[k] = IF k \in S THEN Absent ELSE Visible[k]
    <2> SUFFICES ASSUME NEW k \in Keys
                 PROVE  Visible'[k] = IF k \in S THEN Absent ELSE Visible[k]
      OBVIOUS
    <2>1. ev'[k] = IF k \in S THEN Absent ELSE ev[k]
      BY DEF DeleteWithTimestamp, DeletedEntries
    <2>2. CASE k \in S \/ ~Present(k)
      BY <2>1, <2>2, SeenAt, SeenAfter DEF SeenOrAbsent, Present
    <2>3. CASE k \notin S /\ Present(k) /\ ev[k].black
      BY <2>1, <2>3, SeenAt, SeenAfter DEF SeenOrAbsent, Seen
    <2>4. CASE k \notin S /\ Present(k) /\ ~ev[k].black
      <3>1. ev[k].buf \in Heap \cup Rows /\ ev[k].buf \in Buffers
        BY <2>4, OwnedFacts, BufferFacts DEF EntryOK
      <3>2. ev[k].buf \notin OwnedBy(S)
        <4>1. \A j \in S : Present(j) /\ ev[j].buf \in Heap => ev[j].buf # ev[k].buf
          BY <2>4 DEF IInv, Unshared
        <4> QED
          BY <4>1, OwnedByFacts
      <3>3. mem'[ev[k].buf] = mem[ev[k].buf]
        BY <3>1, <3>2, MemoryFacts, ReleaseFacts DEF DeleteWithTimestamp
      <3>4. SeenOrAbsent(ev[k], mem') = SeenOrAbsent(ev[k], mem)
        BY <3>3 DEF SeenOrAbsent, Seen
      <3>5. ev'[k] = ev[k]
        BY <2>1, <2>4
      <3> QED
        BY <2>4, <3>4, <3>5, SeenAt, SeenAfter
    <2> QED
      BY <2>2, <2>3, <2>4
  <1>3. Visible' = [k \in Keys |-> IF k \in S THEN Absent ELSE Visible[k]]
    BY <1>2 DEF Visible
  <1> QED
    BY <1>1, <1>3 DEF DeleteWithTimestamp, Abstract!DeleteWithTimestamp,
       Marked, Abstract!Marked

\* The frequency section of a payload.
LEMMA WithCountSeen ==
  ASSUME NEW e \in EmbeddingValue \cup {Absent}, NEW c \in Counts \cup {None}, NEW m,
         e # Absent => Seen(e, m) # Absent
  PROVE  SeenOrAbsent(WithCount(e, c), m) = Abstract!WithCount(SeenOrAbsent(e, m), c)
  <1>1. CASE e = Absent \/ c = None
    BY <1>1, SameHelpers DEF WithCount, Abstract!WithCount, SeenOrAbsent
  <1>2. CASE e # Absent /\ c # None
    <2> DEFINE t == Seen(e, m)
    <2>1. WithCount(e, c) = [e EXCEPT !.cnt = c]
      BY <1>2 DEF WithCount
    <2>2. /\ WithCount(e, c).buf = e.buf /\ WithCount(e, c).black = e.black
          /\ WithCount(e, c).under = e.under /\ WithCount(e, c).cnt = c
      BY <1>2, <2>1 DEF EmbeddingValue
    <2>3. WithCount(e, c) # Absent
      BY <1>2, WithCountFacts
    <2>4. Abstract!WithCount(t, c) = [t EXCEPT !.cnt = c]
      BY <1>2, SameHelpers DEF Abstract!WithCount
    <2>5. IsEntry(t)
      BY DEF IsEntry, Seen
    <2>6. /\ t.val = (IF e.black THEN 0 ELSE m[e.buf]) /\ t.black = e.black
          /\ t.under = e.under
      BY DEF Seen
    <2> HIDE DEF t
    <2>7. [t EXCEPT !.cnt = c] =
            [val |-> t.val, black |-> t.black, under |-> t.under, cnt |-> c]
      BY <2>5, ChangedEntry, Zenon
    <2>8. Seen(WithCount(e, c), m) = Abstract!WithCount(t, c)
      BY <2>2, <2>4, <2>6, <2>7 DEF Seen
    <2> QED
      BY <1>2, <2>3, <2>8 DEF t, SeenOrAbsent
  <1> QED
    BY <1>1, <1>2

LEMMA SeenTyped ==
  ASSUME NEW e \in EmbeddingValue, NEW m, ~e.black => m[e.buf] \in Values
  PROVE  Seen(e, m) \in Entry /\ Seen(e, m) # Absent
  <1>1. (IF e.black THEN 0 ELSE m[e.buf]) \in Values
    BY CountFacts
  <1>2. Seen(e, m) \in Entry
    BY <1>1 DEF Seen, Entry, EmbeddingValue
  <1> QED
    BY <1>2, AbsentAssumption

\* A list of blacklisted keys and one of frequencies applied to an entry.
LEMMA ListedSeen ==
  ASSUME NEW e \in EmbeddingValue \cup {Absent}, NEW c \in Counts \cup {None}, NEW m,
         e # Absent /\ ~e.black => m[e.buf] \in Values,
         NEW listed \in BOOLEAN
  PROVE  SeenOrAbsent(WithCount(IF listed THEN Blacklisted(e) ELSE e, c), m) =
         Abstract!WithCount(IF listed THEN Abstract!BlackEntry(SeenOrAbsent(e, m))
                            ELSE SeenOrAbsent(e, m), c)
  <1>1. e # Absent => Seen(e, m) # Absent
    BY SeenTyped
  <1>2. CASE ~listed
    BY <1>1, <1>2, WithCountSeen
  <1>3. CASE listed
    <2> DEFINE q == Blacklisted(e)
               t == SeenOrAbsent(e, m)
    <2>1. q \in EmbeddingValue /\ q.black
      BY BlacklistedFacts
    <2>2. q \in EmbeddingValue \cup {Absent} /\ Seen(q, m) # Absent
      BY <2>1, SeenTyped
    <2>3. SeenOrAbsent(q, m) = Abstract!BlackEntry(t)
      <3>1. e = Absent => t = Absent
        BY DEF SeenOrAbsent
      <3>2. e # Absent => t # Absent /\ IsEntry(t)
        BY <1>1 DEF SeenOrAbsent, Seen, IsEntry
      <3>3. e # Absent => /\ t.black = e.black /\ t.cnt = e.cnt
                          /\ e.black => t.val = 0 /\ t.under = e.under
        BY DEF SeenOrAbsent, Seen
      <3> HIDE DEF t
      <3> QED
        BY <3>1, <3>2, <3>3, BlacklistedSeen
    <2> HIDE DEF q
    <2>4. SeenOrAbsent(WithCount(q, c), m) = Abstract!WithCount(SeenOrAbsent(q, m), c)
      BY <2>2, WithCountSeen
    <2> QED
      BY <1>3, <2>3, <2>4 DEF q
  <1> QED
    BY <1>2, <1>3

LEMMA ImportValuesSeen ==
  ASSUME IInv, IInv', NEW t \in Tensors, NEW p \in Snapshots, ImportValues(t, p)
  PROVE  Abstract!ImportValues(p)
  <1>1. /\ p.vals \in [Keys -> Values \cup {None}]
        /\ p.freq \in [Keys -> Counts \cup {None}]
    BY TableAssumption DEF FullPayload
  <1> DEFINE base(k) == IF p.vals[k] = None THEN Absent ELSE Borrowed(t, k)
             seen(k) == IF p.vals[k] = None THEN Absent
                        ELSE [val |-> p.vals[k], black |-> FALSE, under |-> FALSE, cnt |-> 1]
             result(k) == Abstract!WithCount(IF k \in p.black
                                             THEN Abstract!BlackEntry(seen(k))
                                             ELSE seen(k), p.freq[k])
  <1>2. \A k \in Keys : p.vals[k] # None => mem'[<<t, k>>] = p.vals[k]
    <2> SUFFICES ASSUME NEW k \in Keys, p.vals[k] # None
                 PROVE  mem'[<<t, k>>] = p.vals[k]
      OBVIOUS
    <2>1. <<t, k>> \in RowsOf(t) /\ <<t, k>> \notin RowsOf(pvalues) /\ <<t, k>> \in Rows
      BY DEF RowsOf, Rows, ImportValues
    <2>2. <<t, k>> \notin OwnedBy(Keys) /\ <<t, k>> \in Buffers
      BY <2>1, OwnedByFacts, BufferFacts
    <2> QED
      BY <2>1, <2>2 DEF ImportValues, RowValue
  <1>3. \A k \in Keys : Visible'[k] = result(k)
    <2> SUFFICES ASSUME NEW k \in Keys PROVE Visible'[k] = result(k)
      OBVIOUS
    <2>1. ev'[k] = WithCount(IF k \in p.black THEN Blacklisted(base(k)) ELSE base(k), p.freq[k])
      BY DEF ImportValues
    <2>2. /\ base(k) \in EmbeddingValue \cup {Absent}
          /\ base(k) # Absent => base(k) = Borrowed(t, k) /\ p.vals[k] # None
          /\ p.vals[k] # None => base(k) = Borrowed(t, k)
      BY BorrowedFacts
    <2>3. base(k) # Absent => mem'[base(k).buf] = p.vals[k] /\ p.vals[k] \in Values
      BY <1>1, <1>2, <2>2, BorrowedFacts
    <2>4. SeenOrAbsent(base(k), mem') = seen(k)
      <3>1. CASE p.vals[k] = None
        BY <3>1 DEF SeenOrAbsent
      <3>2. CASE p.vals[k] # None
        <4>1. /\ base(k) = Borrowed(t, k) /\ base(k) # Absent
              /\ mem'[Borrowed(t, k).buf] = p.vals[k]
          BY <2>2, <2>3, <3>2, BorrowedFacts
        <4>2. Seen(Borrowed(t, k), mem') = seen(k)
          BY <3>2, <4>1 DEF Seen, Borrowed
        <4> QED
          BY <4>1, <4>2 DEF SeenOrAbsent
      <3> QED
        BY <3>1, <3>2
    <2> DEFINE e == base(k)
               c == p.freq[k]
               listed == k \in p.black
    <2>5. /\ e \in EmbeddingValue \cup {Absent} /\ c \in Counts \cup {None}
          /\ e # Absent /\ ~e.black => mem'[e.buf] \in Values
          /\ listed \in BOOLEAN
      BY <1>1, <2>2, <2>3
    <2>6. SeenOrAbsent(ev'[k], mem') = result(k)
      <3>1. ev'[k] = WithCount(IF listed THEN Blacklisted(e) ELSE e, c)
        BY <2>1
      <3>2. result(k) = Abstract!WithCount(IF listed
                                           THEN Abstract!BlackEntry(SeenOrAbsent(e, mem'))
                                           ELSE SeenOrAbsent(e, mem'), c)
        BY <2>4
      <3> HIDE DEF e, c, listed, result
      <3> QED
        BY <2>5, <3>1, <3>2, ListedSeen
    <2> QED
      BY <2>6, SeenAfter
  <1>4. Visible' = [k \in Keys |-> result(k)]
    <2> HIDE DEF result
    <2> QED
      BY <1>3 DEF Visible
  <1>5. Abstract!Imported(p) = [k \in Keys |-> result(k)]
    BY Zenon, SameHelpers DEF Abstract!Imported
  <1> QED
    BY <1>4, <1>5 DEF ImportValues, Abstract!ImportValues

\* A delta import writes each value into a buffer of its key's own, and leaves
\* the value of every key it does not name.
LEMMA DeltaMemory ==
  ASSUME IInv, ZeroSafeWorkload, "deltaimport" \in Ops,
         NEW d \in Deltas, NEW n \in FirstN, NEW f \in Allocations(d),
         DeltaImport(d, n, f), NEW k \in Keys
  PROVE  /\ d.vals[k] # None => /\ Target(d, f, k) \in Buffers
                                /\ mem'[Target(d, f, k)] = d.vals[k]
         /\ /\ Present(k) /\ ~ev[k].black /\ d.vals[k] = None
            /\ k \notin Removed(d, n) /\ k \notin d.black
            => mem'[ev[k].buf] = mem[ev[k].buf]
  <1> DEFINE W == {j \in Keys : d.vals[j] # None}
             T(j) == Target(d, f, j)
  <1>1. /\ d.vals \in [Keys -> Values \cup {None}]
        /\ d.black \subseteq Keys /\ d.del \subseteq Keys
        /\ \A j \in d.black \cup d.del : d.vals[j] = None
    BY TableAssumption DEF DeltaPayload
  <1>2. \A j \in W : j \notin Removed(d, n) /\ j \notin d.black
    BY <1>1 DEF Removed
  <1>3. /\ \A j \in NeedsBuffer(d) : f[j] \in Heap /\ mem[f[j]] = Freed
        /\ \A i, j \in NeedsBuffer(d) : f[i] = f[j] => i = j
        /\ NeedsBuffer(d) \subseteq W
    BY DEF Allocations, Available, NeedsBuffer
  <1>4. \A j \in W : \/ j \in NeedsBuffer(d) /\ T(j) = f[j]
                     \/ /\ Present(j) /\ T(j) = ev[j].buf
                        /\ ev[j].buf \in Heap \cup Rows
    <2> SUFFICES ASSUME NEW j \in W, j \notin NeedsBuffer(d)
                 PROVE  Present(j) /\ ev[j].buf \in Heap \cup Rows
      BY DEF Target
    <2>1. j \in Keys /\ Present(j) /\ ev[j].buf # Null
      BY DEF NeedsBuffer
    <2>2. ev[j] \in EmbeddingValue /\ EntryOK(j, ev[j], mem)
      BY <2>1, OwnedFacts
    <2>3. ev[j].buf # ZeroBuf
      BY <2>2, BufferFacts DEF EntryOK, ZeroSafeWorkload
    <2> QED
      BY <2>1, <2>2, <2>3 DEF EmbeddingValue, Buffers
  <1>5. \A x : x \in Dropped(d, n) <=>
               \E j \in Keys : Gone(d, n, j) /\ Present(j) /\ x = ev[j].buf /\ x \in Heap
    BY DroppedFacts
  <1>6. \A b \in Buffers :
          mem'[b] = IF b \in Dropped(d, n) THEN Freed
                    ELSE IF \E j \in W : b = T(j)
                      THEN d.vals[CHOOSE j \in W : b = T(j)] ELSE mem[b]
    BY DEF DeltaImport, Dropped
  \* An entry's buffer is another's only if both are null or the zero buffer.
  <1>7. \A i, j \in Keys : /\ Present(i) /\ Present(j) /\ i # j
                           /\ ev[i].buf \in Heap \cup Rows
                           => ev[i].buf # ev[j].buf
    BY BufferFacts DEF IInv, Unshared, EntryOK
  <1>8. \A j \in Keys : Present(j) /\ ev[j].buf \in Heap => mem[ev[j].buf] # Freed
    BY OwnedFacts, BufferFacts DEF EntryOK
  <1>9. \A j \in Keys : Gone(d, n, j) => j \in Removed(d, n) \/ j \in d.black
    BY DEF Gone
  <1> HIDE DEF W, T
  <1>10. ASSUME NEW i \in W, NEW j \in W, i # j PROVE T(i) # T(j)
    <2>1. i \in Keys /\ j \in Keys
      BY DEF W
    <2>2. CASE i \in NeedsBuffer(d) /\ T(i) = f[i] /\ j \in NeedsBuffer(d) /\ T(j) = f[j]
      BY <1>3, <1>10, <2>2
    <2>3. CASE /\ i \in NeedsBuffer(d) /\ T(i) = f[i]
               /\ Present(j) /\ T(j) = ev[j].buf
      BY <1>3, <1>8, <2>1, <2>3
    <2>4. CASE /\ j \in NeedsBuffer(d) /\ T(j) = f[j]
               /\ Present(i) /\ T(i) = ev[i].buf
      BY <1>3, <1>8, <2>1, <2>4
    <2>5. CASE /\ Present(i) /\ T(i) = ev[i].buf /\ ev[i].buf \in Heap \cup Rows
               /\ Present(j) /\ T(j) = ev[j].buf
      BY <1>7, <1>10, <2>1, <2>5
    <2> QED
      BY <1>4, <2>2, <2>3, <2>4, <2>5
  <1>11. ASSUME d.vals[k] # None
         PROVE  T(k) \in Buffers /\ mem'[T(k)] = d.vals[k]
    <2>1. k \in W
      BY <1>11 DEF W
    <2>2. T(k) \in Buffers
      BY <1>3, <1>4, <2>1, BufferFacts
    <2>3. T(k) \notin Dropped(d, n)
      <3> SUFFICES ASSUME NEW j \in Keys, Gone(d, n, j), Present(j),
                          T(k) = ev[j].buf, ev[j].buf \in Heap
                   PROVE  FALSE
        BY <1>5
      <3>1. j # k
        BY <1>2, <1>9, <2>1
      <3>2. CASE k \in NeedsBuffer(d) /\ T(k) = f[k]
        BY <1>3, <1>8, <3>2
      <3>3. CASE Present(k) /\ T(k) = ev[k].buf
        BY <1>7, <3>1, <3>3
      <3> QED
        BY <1>4, <2>1, <3>2, <3>3
    <2> DEFINE c == CHOOSE j \in W : T(k) = T(j)
    <2>4. c \in W /\ T(k) = T(c)
      BY <2>1
    <2>5. mem'[T(k)] = d.vals[c]
      BY <1>6, <2>1, <2>2, <2>3
    <2> HIDE DEF c
    <2>6. c = k
      BY <1>10, <2>1, <2>4
    <2> QED
      BY <2>2, <2>5, <2>6
  <1>12. ASSUME Present(k), ~ev[k].black, d.vals[k] = None,
                k \notin Removed(d, n), k \notin d.black
         PROVE  mem'[ev[k].buf] = mem[ev[k].buf]
    <2>1. ev[k].buf \in Heap \cup Rows /\ ev[k].buf \in Buffers
      BY <1>12, OwnedFacts, BufferFacts DEF EntryOK
    <2>2. k \notin W
      BY <1>12 DEF W
    <2>3. ev[k].buf \notin Dropped(d, n)
      BY <1>5, <1>7, <1>9, <1>12, <2>1
    <2>4. ~ \E j \in W : ev[k].buf = T(j)
      <3> SUFFICES ASSUME NEW j \in W, ev[k].buf = T(j) PROVE FALSE
        OBVIOUS
      <3>1. j \in Keys /\ j # k
        BY <2>2 DEF W
      <3>2. CASE j \in NeedsBuffer(d) /\ T(j) = f[j]
        BY <1>3, <1>8, <1>12, <3>2
      <3>3. CASE Present(j) /\ T(j) = ev[j].buf
        BY <1>7, <1>12, <2>1, <3>1, <3>3
      <3> QED
        BY <1>4, <3>2, <3>3
    <2> QED
      BY <1>6, <2>1, <2>3, <2>4
  <1> QED
    BY <1>11, <1>12 DEF T

LEMMA DeltaImportSeen ==
  ASSUME IInv, IInv', ZeroSafeWorkload, "deltaimport" \in Ops,
         NEW d \in Deltas, NEW n \in FirstN, NEW f \in Allocations(d),
         DeltaImport(d, n, f)
  PROVE  Abstract!DeltaImport(d, n)
  <1> DEFINE updated(k) == IF d.vals[k] = None THEN Visible[k]
                           ELSE [val |-> d.vals[k], black |-> FALSE,
                                 under |-> d.vals[k] < DefaultCutoff,
                                 cnt |-> IF Visible[k] = Absent THEN 1 ELSE Visible[k].cnt]
             listed(k) == IF k \notin d.black THEN updated(k)
                          ELSE IF Training(n) THEN Abstract!BlackEntry(updated(k))
                          ELSE Absent
             result(k) == IF k \in d.del THEN Absent
                          ELSE Abstract!WithCount(listed(k), d.freq[k])
  <1>1. /\ d.vals \in [Keys -> Values \cup {None}]
        /\ d.freq \in [Keys -> Counts \cup {None}]
        /\ \A k \in d.black \cup d.del : d.vals[k] = None
    BY TableAssumption DEF DeltaPayload
  <1>2. ASSUME NEW k \in Keys
        PROVE  Visible'[k] = result(k)
    <2> DEFINE L == d.black \ Removed(d, n)
               c == d.freq[k]
    <2>1. ev'[k] = IF k \in Removed(d, n) THEN Absent
                   ELSE WithCount(IF k \in L THEN Blacklisted(ev[k]) ELSE Updated(d, f, k), c)
      BY DEF DeltaImport
    <2>2. ev[k] \in EmbeddingValue \cup {Absent} /\ c \in Counts \cup {None}
      BY <1>1 DEF IInv, TypeOK
    <2>3. Visible'[k] = SeenOrAbsent(ev'[k], mem')
      BY SeenAfter
    <2>4. CASE k \in Removed(d, n)
      <3>1. Visible'[k] = Absent
        BY <2>1, <2>3, <2>4 DEF SeenOrAbsent
      <3>2. k \in d.del \/ listed(k) = Absent
        BY <2>4 DEF Removed
      <3> HIDE DEF listed
      <3> QED
        BY <3>1, <3>2 DEF Abstract!WithCount
    <2>5. CASE k \in L
      <3> DEFINE q == WithCount(Blacklisted(ev[k]), c)
      <3>1. k \notin d.del /\ k \in d.black /\ Training(n) /\ d.vals[k] = None
        BY <1>1, <2>5 DEF Removed
      <3>2. result(k) = Abstract!WithCount(Abstract!BlackEntry(Visible[k]), c)
        BY <3>1
      <3>3. Blacklisted(ev[k]) \in EmbeddingValue /\ Blacklisted(ev[k]).black
        BY <2>2, BlacklistedFacts
      <3>4. Blacklisted(ev[k]) # Absent
        BY <3>3, AbsentEntryAssumption
      <3>5. q # Absent /\ q.black
        BY <2>2, <3>3, <3>4, WithCountFacts
      <3>6. ev'[k] = q
        BY <2>1, <2>5
      <3> HIDE DEF q, result
      <3>7. SeenOrAbsent(q, mem') = SeenOrAbsent(q, mem)
        BY <3>5 DEF SeenOrAbsent, Seen
      <3>8. ev[k] # Absent /\ ~ev[k].black => mem[ev[k].buf] \in Values
        BY OwnedFacts DEF EntryOK, Present
      <3>9. SeenOrAbsent(WithCount(IF TRUE THEN Blacklisted(ev[k]) ELSE ev[k], c), mem) =
              Abstract!WithCount(IF TRUE THEN Abstract!BlackEntry(SeenOrAbsent(ev[k], mem))
                                 ELSE SeenOrAbsent(ev[k], mem), c)
        <4> DEFINE e == ev[k]
                   yes == TRUE
        <4>1. /\ e \in EmbeddingValue \cup {Absent} /\ yes \in BOOLEAN
              /\ e # Absent /\ ~e.black => mem[e.buf] \in Values
          BY <2>2, <3>8
        <4> HIDE DEF e, yes, c
        <4>2. SeenOrAbsent(WithCount(IF yes THEN Blacklisted(e) ELSE e, c), mem) =
                Abstract!WithCount(IF yes THEN Abstract!BlackEntry(SeenOrAbsent(e, mem))
                                   ELSE SeenOrAbsent(e, mem), c)
          BY <2>2, <4>1, ListedSeen
        <4> QED
          BY <4>2 DEF e, yes
      <3>10. SeenOrAbsent(ev[k], mem) = Visible[k]
        BY SeenAt
      <3> QED
        BY <2>3, <3>2, <3>6, <3>7, <3>9, <3>10 DEF q
    <2>6. CASE k \notin Removed(d, n) /\ k \notin L
      <3> DEFINE u == Updated(d, f, k)
      <3>1. k \notin d.del /\ k \notin d.black
        BY <2>6 DEF Removed
      <3>2. result(k) = Abstract!WithCount(updated(k), c)
        BY <3>1
      <3>3. ev'[k] = WithCount(u, c)
        BY <2>1, <2>6
      <3>4. /\ u \in EmbeddingValue \cup {Absent}
            /\ u # Absent => Seen(u, mem') # Absent
            /\ SeenOrAbsent(u, mem') = updated(k)
        <4>1. CASE d.vals[k] = None
          <5>1. u = ev[k] /\ updated(k) = Visible[k]
            BY <4>1 DEF Updated
          <5>2. Present(k) /\ ~ev[k].black => /\ mem'[ev[k].buf] = mem[ev[k].buf]
                                              /\ mem[ev[k].buf] \in Values
            BY <2>6, <3>1, <4>1, DeltaMemory, OwnedFacts, ZenonT(30) DEF EntryOK
          <5>3. SeenOrAbsent(ev[k], mem') = SeenOrAbsent(ev[k], mem)
            BY <5>2 DEF SeenOrAbsent, Seen, Present
          <5>4. ev[k] # Absent => Seen(ev[k], mem') # Absent
            BY <2>2, <5>2, SeenTyped DEF Present
          <5> HIDE DEF u, updated
          <5> QED
            BY <2>2, <5>1, <5>3, <5>4, SeenAt
        <4>2. CASE d.vals[k] # None
          <5> DEFINE v == d.vals[k]
                     b == Target(d, f, k)
                     o == k \in NeedsBuffer(d) \/ ev[k].owner
                     w == v < DefaultCutoff
                     x == IF Present(k) THEN ev[k].cnt ELSE 1
          <5>1. u = [buf |-> b, owner |-> o, black |-> FALSE, under |-> w, cnt |-> x]
            BY <4>2 DEF Updated
          <5>2. v \in Values /\ b \in Buffers /\ mem'[b] = v
            BY <1>1, <4>2, DeltaMemory
          <5>3. o \in BOOLEAN
            BY Zenon
          <5>4. w \in BOOLEAN
            BY <5>2, ConstantsAssumption DEF Values, DefaultCutoff
          <5>5. x \in Counts
            BY OwnedFacts, CountFacts DEF EmbeddingValue
          <5>6. x = IF Visible[k] = Absent THEN 1 ELSE Visible[k].cnt
            BY SeenFields, SeenPresent DEF Abstract!Present
          <5>7. updated(k) = [val |-> v, black |-> FALSE, under |-> w, cnt |-> x]
            BY <4>2, <5>6
          <5> HIDE DEF u, updated, v, b, o, w, x
          <5>8. u \in EmbeddingValue
            BY <5>1, <5>2, <5>3, <5>4, <5>5 DEF EmbeddingValue
          <5>9. u # Absent
            BY <5>8, AbsentEntryAssumption
          <5>10. /\ u.buf = b /\ u.black = FALSE /\ u.under = w /\ u.cnt = x
            BY <5>1
          <5>11. Seen(u, mem') = updated(k)
            BY <5>2, <5>7, <5>10 DEF Seen
          <5>12. Seen(u, mem') # Absent
            BY <5>2, <5>8, <5>10, SeenTyped
          <5> QED
            BY <5>8, <5>9, <5>11, <5>12 DEF SeenOrAbsent
        <4> QED
          BY <4>1, <4>2
      <3> HIDE DEF u, updated, result, c
      <3>5. SeenOrAbsent(WithCount(u, c), mem') = Abstract!WithCount(SeenOrAbsent(u, mem'), c)
        BY <2>2, <3>4, WithCountSeen
      <3> QED
        BY <2>3, <3>2, <3>3, <3>4, <3>5
    <2> QED
      BY <2>4, <2>5, <2>6
  <1>3. Visible' = [k \in Keys |-> result(k)]
    <2> HIDE DEF result
    <2> QED
      BY <1>2 DEF Visible
  <1>4. Abstract!DeltaApplied(Visible, d, n) = [k \in Keys |-> result(k)]
    BY Zenon, SameHelpers DEF Abstract!DeltaApplied, Abstract!Training, Training
  <1> QED
    BY <1>3, <1>4 DEF DeltaImport, Abstract!DeltaImport

-----------------------------------------------------------------------------
(* The specification. *)

LEMMA InitSeen == Init => Abstract!Init
  <1> SUFFICES ASSUME Init PROVE Abstract!Init
    OBVIOUS
  <1>1. \A k \in Keys : ~Present(k)
    BY DEF Init, Present
  <1>2. Visible = [k \in Keys |-> Absent]
    BY <1>1 DEF Visible
  <1> QED
    BY <1>2 DEF Init, Abstract!Init, Abstract!EmptyTable

LEMMA KeyStepSeen ==
  ASSUME IInv, IInv', ZeroSafeWorkload, NEW k \in Keys, KeyStep(k)
  PROVE  Abstract!KeyStep(k)
  <1> USE SameHelpers DEF Abstract!KeyStep, Abstract!CoverStep, Abstract!PlainStep
  <1>1. CASE "gather" \in Ops /\ \E c \in Counts, v \in Values : Gather(k, c, v)
    BY <1>1, GatherSeen
  <1>2. CASE "insert" \in Ops /\ \E v \in Values : InsertOrUpdate(k, v)
    BY <1>2, InsertOrUpdateSeen
  <1>3. CASE "insert" \in Ops /\ FilteredUpdate(k)
    BY <1>3, FilteredUpdateSeen
  <1>4. CASE "blacklist" \in Ops /\ MarkBlacklist(k)
    BY <1>4, MarkBlacklistSeen
  <1>5. CASE "scatter" \in Ops /\ \E v \in Values : ScatterUpdate(k, v)
    BY <1>5, ScatterUpdateSeen
  <1>6. CASE "train" \in Ops /\ \E i, v \in Values : TrainCover(k, i, v)
    BY <1>6, TrainCoverSeen
  <1>7. CASE "train" \in Ops /\ \E i, v \in Values : TrainPlain(k, i, v)
    BY <1>7, TrainPlainSeen
  <1>8. CASE "lasso" \in Ops /\ \E i \in Values : TrainLasso(k, i)
    BY <1>8, TrainLassoSeen
  <1>9. CASE "slot" \in Ops /\ \E i, v \in Values : SlotCover(k, i, v)
    BY <1>9, SlotCoverSeen
  <1>10. CASE "slot" \in Ops /\ \E i, v \in Values : SlotPlain(k, i, v)
    BY <1>10, SlotPlainSeen
  <1>11. CASE "delete" \in Ops /\ Delete(k)
    BY <1>11, DeleteSeen
  <1> QED
    BY <1>1, <1>2, <1>3, <1>4, <1>5, <1>6, <1>7, <1>8, <1>9, <1>10, <1>11
    DEF KeyStep

LEMMA TableStepSeen ==
  ASSUME IInv, IInv', ZeroSafeWorkload, TableStep
  PROVE  Abstract!TableStep
  <1> USE SameHelpers DEF Abstract!TableStep
  <1>1. {3, 8} \subseteq FirstN
    BY DEF FirstN
  <1>2. CASE "delete" \in Ops /\ \E S \in SUBSET Keys : DeleteWithTimestamp(S)
    BY <1>2, DeleteWithTimestampSeen
  <1>3. CASE "import" \in Ops /\ \E t \in Tensors, p \in Snapshots : ImportValues(t, p)
    BY <1>3, ImportValuesSeen
  <1>4. CASE /\ "deltaimport" \in Ops
             /\ \E d \in Deltas, n \in {3, 8} : \E f \in Allocations(d) : DeltaImport(d, n, f)
    BY <1>1, <1>4, DeltaImportSeen
  <1>5. CASE "export" \in Ops /\ \E n \in FirstN, c \in Cutoffs : ExportValues(n, c)
    BY <1>5, ExportValuesSeen
  <1>6. CASE "export" \in Ops /\ \E n \in {3, 8} : DeltaExport(n)
    BY <1>1, <1>6, DeltaExportSeen
  <1> QED
    BY <1>2, <1>3, <1>4, <1>5, <1>6 DEF TableStep

LEMMA StepSeen ==
  ASSUME IInv, IInv', ZeroSafeWorkload, [Next]_vars
  PROVE  [Abstract!Next]_(Abstract!vars)
  <1>1. CASE \E k \in Keys : KeyStep(k)
    BY <1>1, KeyStepSeen DEF Abstract!Next
  <1>2. CASE TableStep
    BY <1>2, TableStepSeen DEF Abstract!Next
  <1>3. CASE UNCHANGED vars
    BY <1>3 DEF vars, Abstract!vars, Visible, Present, Content
  <1> QED
    BY <1>1, <1>2, <1>3 DEF Next

\* Seen through Visible, every behaviour of the table in a workload the zero
\* vector is safe under is one of KvStore: whatever buffers an operation
\* allocates, frees, borrows or writes, the value, flags and count of each key
\* change as KvStore says, and no other key's do.
THEOREM StoreImplemented ==
  ASSUME ZeroSafeWorkload
  PROVE  Spec => ImplementsStore
  <1>1. Init => Abstract!Init
    BY InitSeen
  <1>2. IInv /\ IInv' /\ [Next]_vars => [Abstract!Next]_(Abstract!vars)
    BY StepSeen
  <1>3. Spec => []IInv
    BY InvariantHolds
  <1> QED
    BY <1>1, <1>2, <1>3, PTL DEF Spec, ImplementsStore, Abstract!Spec
=============================================================================
