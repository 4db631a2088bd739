----------------------- MODULE CheckpointFilesProofs -----------------------
(***************************************************************************)
(* For any checkpoints, sizes, faults and crashes: files, objects and jobs *)
(* (FilesInv, with AckedInv and ReaderInv for what was recorded and what   *)
(* is read); the list as a view of what was recorded (ListsInv); the order *)
(* of the names and where the list in memory comes from (NamesInv); and    *)
(* that what is listed is there, whole (GoodInv, QueueInv).                *)
(***************************************************************************)
EXTENDS CheckpointFiles, SequenceTheorems, FiniteSetTheorems,
        WellFoundedInduction, TLAPS

Less == {p \in Nat \X Nat : p[1] < p[2]}

\* Every nonempty set of naturals has a least element.
LEMMA LeastOf ==
  ASSUME NEW T, T \subseteq Nat, T # {}
  PROVE  \E m \in T : \A k \in T : m <= k
  <1>1. IsWellFoundedOn(Less, Nat)
    BY NatLessThanWellFounded DEF OpToRel, Less
  <1>2. PICK x \in T : \A y \in T : ~(<<y, x>> \in Less)
    BY <1>1, WFMin
  <1>3. ASSUME NEW k \in T, k < x PROVE FALSE
    <2>1. <<k, x>> \in Less
      BY <1>3 DEF Less
    <2> QED
      BY <1>2, <2>1
  <1> QED
    BY <1>2, <1>3

LEMMA Induct ==
  ASSUME NEW T, 0 \in T, \A n \in T \cap Nat : n + 1 \in T
  PROVE  Nat \subseteq T
  <1> SUFFICES ASSUME Nat \ T # {} PROVE FALSE
    OBVIOUS
  <1>1. PICK m \in Nat \ T : \A k \in Nat \ T : m <= k
    BY LeastOf
  <1> QED
    BY <1>1

LEMMA MinOfTwo ==
  ASSUME NEW a \in Int, NEW b \in Int
  PROVE  Min({a, b}) = IF a <= b THEN a ELSE b
  BY DEF Min

-----------------------------------------------------------------------------
(* Parts.                                                                  *)

\* Where the i-th part ends.
Ends(i) == i * PartSize

\* The i-th part of data, and its first i parts.
Part(data, i) == SubSeq(data, Ends(i - 1) + 1, Min({Ends(i), Len(data)}))

Upto(data, i) == SubSeq(data, 1, Min({Ends(i), Len(data)}))

\* What an upload makes of data.
Whole(data) == Upto(data, MaxListed)

LEMMA SizesAre == PartSize \in Nat \ {0} /\ MaxListed \in Nat \ {0}
  BY FilesAssumption

LEMMA EndsAre ==
  ASSUME NEW i \in Nat
  PROVE  Ends(i) \in Nat
  BY SizesAre DEF Ends

LEMMA EndsNext ==
  ASSUME NEW i \in Nat, NEW j \in Nat, j = i + 1
  PROVE  Ends(j) = Ends(i) + PartSize
  BY SizesAre DEF Ends

LEMMA EndsFirst == Ends(0) = 0 /\ Ends(1) = PartSize
  BY SizesAre DEF Ends

LEMMA EndsGrow ==
  ASSUME NEW i \in Nat, NEW j \in Nat, i <= j
  PROVE  Ends(i) <= Ends(j)
  <1>1. (j - i) * PartSize >= 0
    BY SizesAre
  <1>2. (j - i) * PartSize = j * PartSize - i * PartSize
    BY SizesAre
  <1>3. i * PartSize \in Int /\ j * PartSize \in Int
    BY SizesAre
  <1> QED
    BY <1>1, <1>2, <1>3 DEF Ends

LEMMA ListedEnds == Ends(MaxListed) \in Nat /\ Ends(MaxListed) >= PartSize
  <1>1. 1 <= MaxListed
    BY SizesAre
  <1> QED
    BY <1>1, SizesAre, EndsAre, EndsFirst, EndsGrow

LEMMA LenIs ==
  ASSUME NEW S, NEW data \in Seq(S)
  PROVE  Len(data) \in Nat
  OBVIOUS

LEMMA UptoIs ==
  ASSUME NEW S, NEW data \in Seq(S), NEW i \in Nat
  PROVE  /\ Upto(data, i) \in Seq(S)
         /\ Len(Upto(data, i)) = Min({Ends(i), Len(data)})
         /\ Ends(i) >= Len(data) => Upto(data, i) = data
         /\ \A k \in 1 .. Min({Ends(i), Len(data)}) : Upto(data, i)[k] = data[k]
  <1> DEFINE m == Min({Ends(i), Len(data)})
  <1>1. m \in Nat /\ m <= Len(data) /\ (Ends(i) >= Len(data) => m = Len(data))
    <2>1. Ends(i) \in Nat /\ Len(data) \in Nat
      BY EndsAre, LenIs
    <2>2. m = IF Ends(i) <= Len(data) THEN Ends(i) ELSE Len(data)
      BY <2>1, MinOfTwo
    <2> HIDE DEF m
    <2> QED
      BY <2>1, <2>2
  <1>2. \A k \in 1 .. m : data[k] \in S
    BY <1>1, ElementOfSeq
  <1> HIDE DEF m
  <1>3. /\ SubSeq(data, 1, m) \in Seq(S)
        /\ Len(SubSeq(data, 1, m)) = m
        /\ \A k \in 1 .. m : SubSeq(data, 1, m)[k] = data[k]
    BY <1>1, <1>2, SubSeqProperties
  <1>4. Upto(data, i) = SubSeq(data, 1, m)
    BY DEF Upto, m
  <1>5. Ends(i) >= Len(data) => Upto(data, i) = data
    BY <1>1, <1>4, SubSeqFull
  <1> QED
    BY <1>3, <1>4, <1>5 DEF m

LEMMA PartAdds ==
  ASSUME NEW S, NEW data \in Seq(S), NEW j \in Nat, NEW i \in Nat, i = j + 1
  PROVE  /\ Part(data, i) \in Seq(S)
         /\ Upto(data, i) = Upto(data, j) \o Part(data, i)
  <1> DEFINE e == Ends(j)
             d == Ends(i)
             L == Len(data)
             md == Min({d, L})
             me == Min({e, L})
  <1>1. /\ e \in Nat /\ d \in Nat /\ L \in Nat /\ d = e + PartSize
        /\ PartSize \in Nat \ {0} /\ (j = 0 => e = 0)
    <2>1. e \in Nat /\ d \in Nat
      BY EndsAre
    <2>2. d = e + PartSize
      BY EndsNext
    <2>3. j = 0 => e = 0
      BY EndsFirst
    <2> QED
      BY <2>1, <2>2, <2>3, SizesAre, LenIs
  <1>2. md = IF d <= L THEN d ELSE L
    BY <1>1, MinOfTwo
  <1>3. me = IF e <= L THEN e ELSE L
    BY <1>1, MinOfTwo
  <1>4. Part(data, i) = SubSeq(data, e + 1, md)
    <2>1. i - 1 = j
      OBVIOUS
    <2> QED
      BY <2>1 DEF Part
  <1>5. Upto(data, i) = SubSeq(data, 1, md)
    BY DEF Upto
  <1>6. Upto(data, j) = SubSeq(data, 1, me)
    BY DEF Upto
  <1>7. \A k \in e + 1 .. md : data[k] \in S
    BY <1>1, <1>2, ElementOfSeq
  <1> HIDE DEF e, d, md, me
  <1>8. md \in Nat /\ me \in Nat
    BY <1>1, <1>2, <1>3
  <1>9. Part(data, i) \in Seq(S)
    <2>1. e + 1 \in Int /\ md \in Int
      BY <1>1, <1>8
    <2> QED
      BY <2>1, <1>4, <1>7, SubSeqProperties
  <1>11. Upto(data, i) = Upto(data, j) \o Part(data, i)
    <2>1. CASE e <= L
      <3>1. 1 \in 1 .. L + 1 /\ e \in 1 - 1 .. L /\ md \in e .. L
        BY <1>1, <1>2, <2>1
      <3>2. SubSeq(data, 1, e) \o SubSeq(data, e + 1, md) = SubSeq(data, 1, md)
        <4> HIDE DEF L
        <4>1. SubSeq(data, 1, e) \o SubSeq(data, e + 1, md) = SubSeq(data, 1, md)
          BY <3>1, ConcatAdjacentSubSeq, Zenon DEF L
        <4> QED
          BY <4>1
      <3> QED
        BY <3>2, <1>3, <1>4, <1>5, <1>6, <2>1
    <2>2. CASE e > L
      <3>1. Part(data, i) = <<>>
        <4>1. md \in Int /\ md < e + 1 /\ e + 1 \in Int
          BY <1>1, <1>2, <2>2
        <4> QED
          BY <4>1, <1>4, SubSeqEmpty
      <3>2. Upto(data, i) = data /\ Upto(data, j) = data
        <4>1. md = L /\ me = L
          BY <1>1, <1>2, <1>3, <2>2
        <4> QED
          BY <4>1, <1>5, <1>6, SubSeqFull, Zenon
      <3> QED
        BY <3>1, <3>2, ConcatEmptySeq
    <2> QED
      BY <1>1, <2>1, <2>2
  <1> QED
    BY <1>9, <1>11

LEMMA FirstPart ==
  ASSUME NEW data
  PROVE  Part(data, 1) = Upto(data, 1)
  <1>1. 1 - 1 = 0 /\ Ends(0) + 1 = 1
    BY EndsFirst
  <1> QED
    BY <1>1 DEF Part, Upto

\* Parts of data put one after the other are the beginning of data.
LEMMA PartsInARow ==
  ASSUME NEW S, NEW data \in Seq(S), NEW seqs, NEW n \in Nat \ {0},
         Len(seqs) = n, \A i \in 1 .. n : seqs[i] = Part(data, i)
  PROVE  FlattenSeq(seqs) = Upto(data, n)
  <1> DEFINE Rec(f) == f = [i \in 1 .. n |-> IF i = 1 THEN seqs[i] ELSE f[i - 1] \o seqs[i]]
             g == [i \in 1 .. n |-> Upto(data, i)]
             h == CHOOSE f : Rec(f)
             T == {k \in Nat : k + 1 \in 1 .. n => h[k + 1] = Upto(data, k + 1)}
  <1>1. FlattenSeq(seqs) = h[n]
    BY DEF FlattenSeq
  <1>2. Rec(g)
    <2>1. ASSUME NEW i \in 1 .. n
          PROVE  g[i] = IF i = 1 THEN seqs[i] ELSE g[i - 1] \o seqs[i]
      <3>1. i - 1 \in Nat /\ i = (i - 1) + 1 /\ i \in Nat
        OBVIOUS
      <3>2. i = 1 => seqs[i] = Upto(data, i)
        BY FirstPart
      <3>3. Upto(data, i) = Upto(data, i - 1) \o seqs[i]
        <4>1. Upto(data, i) = Upto(data, i - 1) \o Part(data, i)
          BY <3>1, PartAdds, Zenon
        <4> QED
          BY <4>1
      <3>4. i # 1 => g[i - 1] = Upto(data, i - 1)
        OBVIOUS
      <3>5. g[i] = Upto(data, i)
        OBVIOUS
      <3> HIDE DEF g
      <3> QED
        BY <3>2, <3>3, <3>4, <3>5
    <2> HIDE DEF g
    <2>2. g = [i \in 1 .. n |-> g[i]]
      BY DEF g
    <2> QED
      BY <2>1, <2>2, Zenon
  <1>3. Rec(h)
    BY <1>2
  <1> HIDE DEF h
  <1>4. 0 \in T
    <2>1. h[1] = seqs[1]
      BY <1>3
    <2>2. seqs[1] = Upto(data, 1)
      BY FirstPart
    <2> QED
      BY <2>1, <2>2
  <1>5. ASSUME NEW k \in T \cap Nat PROVE k + 1 \in T
    <2> SUFFICES ASSUME k + 2 \in 1 .. n PROVE h[k + 2] = Upto(data, k + 2)
      OBVIOUS
    <2>1. h[k + 1] = Upto(data, k + 1)
      OBVIOUS
    <2>2. h[k + 2] = h[(k + 2) - 1] \o seqs[k + 2]
      <3>1. k + 2 # 1
        OBVIOUS
      <3> QED
        BY <1>3, <3>1, Zenon
    <2>3. Upto(data, k + 2) = Upto(data, k + 1) \o Part(data, k + 2)
      <3>1. k + 1 \in Nat /\ k + 2 \in Nat /\ k + 2 = (k + 1) + 1
        OBVIOUS
      <3> QED
        BY <3>1, PartAdds, ZenonT(30)
    <2>4. (k + 2) - 1 = k + 1
      OBVIOUS
    <2> QED
      BY <2>1, <2>2, <2>3, <2>4, Zenon
  <1> HIDE DEF T
  <1>6. Nat \subseteq T
    BY <1>4, <1>5, Induct
  <1>7. n - 1 \in T
    BY <1>6
  <1> QED
    BY <1>1, <1>7 DEF T

\* An upload of all the parts of data makes the object of as many of them as
\* are listed.
LEMMA UploadIsWhole ==
  ASSUME NEW S, NEW data \in Seq(S), NEW parts, NEW n \in Nat \ {0},
         Len(parts) = n, \A i \in 1 .. n : parts[i] = Part(data, i),
         Ends(n) >= Len(data)
  PROVE  CompleteMultipartUpload(parts) = Whole(data)
  <1> DEFINE m == Min({n, MaxListed})
             seqs == SubSeq(parts, 1, m)
  <1>1. m = IF n <= MaxListed THEN n ELSE MaxListed
    BY MinOfTwo, SizesAre
  <1> HIDE DEF m
  <1>2. m \in Nat \ {0} /\ m <= n
    BY <1>1, SizesAre
  <1>3. Len(seqs) = m /\ \A i \in 1 .. m : seqs[i] = Part(data, i)
    <2>1. \A i \in 1 .. m : parts[i] \in {parts[k] : k \in 1 .. m}
      OBVIOUS
    <2>2. /\ Len(seqs) = IF 1 <= m THEN m - 1 + 1 ELSE 0
          /\ \A i \in 1 .. m - 1 + 1 : seqs[i] = parts[1 + i - 1]
      BY <2>1, <1>2, SubSeqProperties
    <2> HIDE DEF seqs
    <2> QED
      BY <1>2, <2>2
  <1>4. FlattenSeq(seqs) = Upto(data, m)
    <2> HIDE DEF seqs
    <2> QED
      BY <1>2, <1>3, PartsInARow
  <1>5. CompleteMultipartUpload(parts) = FlattenSeq(seqs)
    BY DEF CompleteMultipartUpload, m
  <1>6. Upto(data, m) = Whole(data)
    <2>1. CASE n <= MaxListed
      <3>1. m = n
        BY <1>1, <2>1
      <3>2. Ends(m) >= Len(data)
        BY <3>1
      <3>3. Ends(MaxListed) >= Ends(m)
        BY <3>1, <2>1, SizesAre, EndsGrow
      <3>4. Ends(MaxListed) >= Len(data)
        BY <3>2, <3>3, <1>2, SizesAre, EndsAre, LenIs
      <3> QED
        BY <3>2, <3>4, <1>2, SizesAre, UptoIs DEF Whole
    <2>2. CASE n > MaxListed
      BY <1>1, <2>2, SizesAre DEF Whole
    <2> QED
      BY <2>1, <2>2, SizesAre
  <1> QED
    BY <1>4, <1>5, <1>6

\* A copy of such an object is the same.
LEMMA RenameKeeps ==
  ASSUME NEW S, NEW data \in Seq(S)
  PROVE  RenameFileInternal(Whole(data)) = Whole(data)
  <1> DEFINE w == Whole(data)
             L == Len(w)
             n == (L + PartSize - 1) \div PartSize
  <1>1. w \in Seq(S) /\ L \in Nat /\ L <= Ends(MaxListed)
    <2>1. w \in Seq(S) /\ L = Min({Ends(MaxListed), Len(data)})
      BY UptoIs, SizesAre DEF Whole
    <2>2. Ends(MaxListed) \in Nat /\ Len(data) \in Nat
      BY ListedEnds, LenIs
    <2> HIDE DEF w, L
    <2> QED
      BY <2>1, <2>2, MinOfTwo
  <1>2. SUFFICES ASSUME L > PartSize PROVE CompleteMultipartUpload(Ranges(w)) = w
    BY DEF RenameFileInternal
  <1> HIDE DEF w, L
  <1>3. n \in Nat \ {0} /\ Ends(n) >= L
    <2> DEFINE a == L + PartSize - 1
    <2>1. a \in Nat /\ a >= PartSize /\ PartSize \in Nat \ {0}
      BY <1>1, <1>2, SizesAre
    <2> HIDE DEF a
    <2>2. (a \div PartSize) \in Int /\ a = PartSize * (a \div PartSize) + (a % PartSize)
          /\ a % PartSize \in 0 .. PartSize - 1
      BY <2>1
    <2>3. n = a \div PartSize
      BY DEF a
    <2>4. n \in Int /\ a = n * PartSize + (a % PartSize)
      BY <2>1, <2>2, <2>3
    <2> HIDE DEF n
    <2>5. n * PartSize \in Int /\ n * PartSize > a - PartSize
      BY <2>1, <2>2, <2>4
    <2>6. n * PartSize >= L
      BY <2>5, <2>1, <1>1, <2>4 DEF a
    <2>7. n > 0
      <3> SUFFICES ASSUME n <= 0 PROVE FALSE
        BY <2>4
      <3>1. n * PartSize <= 0
        BY <2>1, <2>4
      <3>2. n * PartSize > 0
        BY <2>5, <2>6, <1>1, <1>2, <2>1
      <3> QED
        BY <3>1, <3>2, <2>5
    <2> QED
      BY <2>4, <2>6, <2>7 DEF Ends
  <1>4. Ranges(w) = [i \in 1 .. n |-> Part(w, i)]
    BY DEF Ranges, Part, Ends, L
  <1> HIDE DEF n
  <1>5. CompleteMultipartUpload(Ranges(w)) = Whole(w)
    <2>1. Len(Ranges(w)) = n /\ \A i \in 1 .. n : Ranges(w)[i] = Part(w, i)
      BY <1>3, <1>4
    <2>2. Ends(n) >= Len(w)
      BY <1>3 DEF L
    <2> QED
      BY <1>1, <1>3, <2>1, <2>2, UploadIsWhole
  <1>6. Whole(w) = w
    BY <1>1, UptoIs, SizesAre DEF Whole, L
  <1> QED
    BY <1>5, <1>6

-----------------------------------------------------------------------------
(* Names, and the data of a checkpoint.                                    *)

LEMMA FunctionIsSeq ==
  ASSUME NEW S, NEW n \in Nat, NEW f \in [1 .. n -> S]
  PROVE  f \in Seq(S) /\ Len(f) = n
  <1>1. f \in Seq(S)
    OBVIOUS
  <1> QED
    BY <1>1, LenProperties

Items == (Nat \X Nat) \cup Lists

LEMMA NamesAre ==
  /\ Steps \subseteq Names /\ StateFile \in Names
  /\ StateFile \notin Steps /\ None \notin Names
  /\ \A t \in Steps \cup {StateFile} :
       /\ Temp[t] \in Names
       /\ Temp[t] \notin Steps /\ Temp[t] # StateFile
  BY FilesAssumption, CheckpointsAssumption

LEMMA NotNone ==
  /\ \A s \in Lists : s # None
  /\ \A d \in Seq(Nat \X Nat) : d # None
  /\ \A s \in Lists : <<s>> # None
  <1>1. \A s \in Lists : <<s>> \in Seq(Lists)
    OBVIOUS
  <1> QED
    BY <1>1, NoneAssumption, Zenon

LEMMA BytesAre ==
  ASSUME NEW v \in 1 .. Len(Chunks)
  PROVE  /\ Chunks[v] \in Nat
         /\ Bytes(v) \in Seq(Nat \X Nat)
         /\ Bytes(v) \in Seq(Items)
         /\ Len(Bytes(v)) = Chunks[v]
         /\ \A i \in 1 .. Chunks[v] : Bytes(v)[i] = <<v, i>>
  <1>1. Chunks[v] \in Nat
    BY CheckpointsAssumption, ElementOfSeq
  <1>2. \A i \in 1 .. Chunks[v] : <<v, i>> \in Nat \X Nat
    <2>1. v \in Nat
      BY CheckpointsAssumption, LenIs
    <2> QED
      BY <2>1
  <1>3. Bytes(v) \in [1 .. Chunks[v] -> Nat \X Nat]
    BY <1>2 DEF Bytes
  <1>4. Bytes(v) \in Seq(Nat \X Nat)
    BY <1>1, <1>3
  <1>5. Bytes(v) \in Seq(Items)
    BY <1>4, SeqMonotonic DEF Items
  <1> QED
    BY <1>1, <1>4, <1>5 DEF Bytes

-----------------------------------------------------------------------------
(* The file that is being written.                                         *)

FileType ==
  [name : Names, left : Seq(Items), buffer : Seq(Items), parts : Seq(Seq(Items)),
   part : Nat \ {0}, failed : BOOLEAN]

\* How far the parts of the file reach.
Cut(f, data) == Min({Ends(f.part - 1), Len(data)})

\* Its parts are the first parts of data, its buffer holds what follows and
\* the rest is left.
Writing(f, data) ==
  /\ Len(f.parts) = f.part - 1
  /\ \A i \in 1 .. f.part - 1 : f.parts[i] = Part(data, i)
  /\ f.part > 1 => Len(data) > 0
  /\ Len(f.buffer) <= PartSize
  /\ LET k == Cut(f, data) + Len(f.buffer)
     IN /\ k <= Len(data)
        /\ f.buffer = SubSeq(data, Cut(f, data) + 1, k)
        /\ f.left = SubSeq(data, k + 1, Len(data))

LEMMA CutIs ==
  ASSUME NEW data \in Seq(Items), NEW f \in FileType
  PROVE  /\ Cut(f, data) \in Nat
         /\ Cut(f, data) <= Len(data)
         /\ Ends(f.part - 1) \in Nat
         /\ Cut(f, data) = IF Ends(f.part - 1) <= Len(data) THEN Ends(f.part - 1) ELSE Len(data)
  <1>1. f.part - 1 \in Nat
    BY DEF FileType
  <1>2. Ends(f.part - 1) \in Nat /\ Len(data) \in Nat
    BY <1>1, EndsAre, LenIs
  <1>3. Cut(f, data) = IF Ends(f.part - 1) <= Len(data) THEN Ends(f.part - 1) ELSE Len(data)
    BY <1>2, MinOfTwo DEF Cut
  <1> QED
    BY <1>2, <1>3

\* What is left of a file is a proper end of data, or nothing.
LEMMA LeftIs ==
  ASSUME NEW data \in Seq(Items), NEW f \in FileType, Writing(f, data)
  PROVE  Len(f.left) = Len(data) - (Cut(f, data) + Len(f.buffer))
  <1> DEFINE k == Cut(f, data) + Len(f.buffer)
             L == Len(data)
  <1>1. k \in Nat /\ L \in Nat /\ k <= L
    <2>1. Cut(f, data) \in Nat /\ L \in Nat
      BY CutIs, LenIs
    <2>2. f.buffer \in Seq(Items)
      BY DEF FileType
    <2>3. Len(f.buffer) \in Nat
      BY <2>2, LenIs
    <2>4. k <= L
      BY DEF Writing
    <2> QED
      BY <2>1, <2>3, <2>4
  <1>2. f.left = SubSeq(data, k + 1, L)
    BY DEF Writing
  <1> HIDE DEF k
  <1>3. \A i \in k + 1 .. L : data[i] \in Items
    BY <1>1, ElementOfSeq
  <1>4. Len(SubSeq(data, k + 1, L)) = IF k + 1 <= L THEN L - (k + 1) + 1 ELSE 0
    BY <1>1, <1>3, SubSeqProperties
  <1>5. Len(f.left) = L - k
    BY <1>1, <1>2, <1>4
  <1> QED
    BY <1>5 DEF k

LEMMA NewWrites ==
  ASSUME NEW data \in Seq(Items), NEW name \in Names
  PROVE  /\ NewWritableFile(name, data) \in FileType
         /\ Writing(NewWritableFile(name, data), data)
  <1> DEFINE f == NewWritableFile(name, data)
  <1>1. f \in FileType
    BY DEF NewWritableFile, FileType
  <1>2. /\ f.parts = <<>> /\ f.part = 1 /\ f.buffer = <<>> /\ f.left = data
    BY DEF NewWritableFile
  <1> HIDE DEF f
  <1>3. Cut(f, data) = 0
    <2>1. Ends(0) = 0 /\ f.part - 1 = 0 /\ Len(data) \in Nat
      BY <1>2, EndsFirst, LenIs
    <2> QED
      BY <2>1, <1>1, CutIs
  <1>4. SubSeq(data, 1, 0) = <<>> /\ SubSeq(data, 1, Len(data)) = data
    BY SubSeqEmpty, SubSeqFull
  <1>5. Writing(f, data)
    <2>1. Len(data) \in Nat /\ PartSize \in Nat
      BY LenIs, SizesAre
    <2> QED
      BY <2>1, <1>2, <1>3, <1>4 DEF Writing
  <1> QED
    BY <1>1, <1>5 DEF f

\* A part is uploaded when the buffer is full or the last chunk is in it.
LEMMA FlushWrites ==
  ASSUME NEW data \in Seq(Items), NEW f \in FileType, Writing(f, data),
         Len(f.buffer) >= PartSize \/ f.left = <<>>
  PROVE  /\ FlushInternal(f) \in FileType
         /\ Writing(FlushInternal(f), data)
         /\ FlushInternal(f).buffer = <<>>
         /\ FlushInternal(f).left = f.left
         /\ FlushInternal(f).name = f.name
  <1>1. CASE f.buffer = <<>>
    BY <1>1 DEF FlushInternal
  <1>2. CASE f.buffer # <<>>
    <2> DEFINE g == FlushInternal(f)
               L == Len(data)
               b == Len(f.buffer)
               u == Cut(f, data)
               p == f.part
    <2>1. /\ g.name = f.name /\ g.left = f.left /\ g.failed = f.failed
          /\ g.buffer = <<>> /\ g.part = p + 1
          /\ g.parts = Entered(f.parts, p, f.buffer)
          /\ g = [name |-> g.name, left |-> g.left, buffer |-> g.buffer, parts |-> g.parts,
                  part |-> g.part, failed |-> g.failed]
      BY <1>2 DEF FlushInternal, FileType
    <2>2. /\ p \in Nat \ {0} /\ f.name \in Names /\ f.left \in Seq(Items)
          /\ f.buffer \in Seq(Items) /\ f.parts \in Seq(Seq(Items)) /\ f.failed \in BOOLEAN
      BY DEF FileType
    <2>3. Len(f.parts) = p - 1 /\ DOMAIN f.parts = 1 .. p - 1
      BY <2>2 DEF Writing
    <2>4. g.parts = [i \in 1 .. p |-> IF i = p THEN f.buffer ELSE f.parts[i]]
      <3>1. DOMAIN f.parts \cup {p} = 1 .. p
        BY <2>2, <2>3
      <3> QED
        BY <2>1, <3>1 DEF Entered
    <2> HIDE DEF g
    <2>5. g.parts \in Seq(Seq(Items)) /\ Len(g.parts) = p
      <3>1. \A i \in 1 .. p : (IF i = p THEN f.buffer ELSE f.parts[i]) \in Seq(Items)
        BY <2>2, <2>3, ElementOfSeq
      <3>2. g.parts \in [1 .. p -> Seq(Items)]
        BY <2>4, <3>1
      <3>3. p \in Nat /\ DOMAIN g.parts = 1 .. p
        BY <2>2, <2>4
      <3> QED
        BY <3>2, <3>3, FunctionIsSeq
    <2>6. g \in FileType
      <3>1. <<>> \in Seq(Items) /\ p + 1 \in Nat \ {0}
        BY <2>2
      <3> QED
        BY <2>1, <2>2, <2>5, <3>1 DEF FileType
    <2>7. /\ L \in Nat /\ b \in Nat /\ u \in Nat /\ u + b <= L /\ b > 0 /\ b <= PartSize
          /\ PartSize \in Nat \ {0}
      BY <1>2, <2>2, CutIs, LenIs, SizesAre, EmptySeq DEF Writing
    <2>8. Len(f.left) = L - (u + b)
      BY LeftIs
    <2>9. b = PartSize \/ u + b = L
      <3>1. CASE Len(f.buffer) >= PartSize
        BY <3>1, <2>7
      <3>2. CASE f.left = <<>>
        BY <3>2, <2>7, <2>8
      <3> QED
        BY <3>1, <3>2
    <2>10. u = Ends(p - 1)
      BY CutIs, <2>7
    <2>11. Ends(p) = u + PartSize
      <3>1. p - 1 \in Nat /\ p \in Nat /\ p = (p - 1) + 1
        BY <2>2
      <3> QED
        BY <3>1, <2>10, EndsNext, Zenon
    <2>12. Min({Ends(p), L}) = u + b
      <3>1. Ends(p) \in Int
        BY <2>11, <2>7
      <3>2. Min({Ends(p), L}) = IF Ends(p) <= L THEN Ends(p) ELSE L
        BY <3>1, <2>7, MinOfTwo
      <3> QED
        BY <3>2, <2>7, <2>9, <2>11
    <2>13. f.buffer = Part(data, p)
      <3>1. f.buffer = SubSeq(data, u + 1, u + b)
        BY DEF Writing
      <3> QED
        BY <3>1, <2>10, <2>12 DEF Part
    <2>14. Cut(g, data) = u + b
      <3>1. g.part - 1 = p
        BY <2>1, <2>2
      <3> QED
        BY <3>1, <2>12 DEF Cut
    <2>15. Writing(g, data)
      <3>1. Len(g.parts) = g.part - 1
        BY <2>1, <2>2, <2>5
      <3>2. \A i \in 1 .. g.part - 1 : g.parts[i] = Part(data, i)
        <4> SUFFICES ASSUME NEW i \in 1 .. p PROVE g.parts[i] = Part(data, i)
          BY <2>1, <2>2
        <4>1. CASE i = p
          BY <4>1, <2>4, <2>13
        <4>2. CASE i # p
          <5>1. i \in 1 .. p - 1
            BY <4>2, <2>2
          <5>2. f.parts[i] = Part(data, i)
            BY <5>1 DEF Writing
          <5> QED
            BY <4>2, <5>2, <2>4
        <4> QED
          BY <4>1, <4>2
      <3>3. Len(data) > 0
        BY <2>7
      <3>4. Len(g.buffer) = 0
        BY <2>1
      <3>5. SubSeq(data, (u + b) + 1, u + b) = <<>>
        <4>1. u + b \in Int /\ (u + b) + 1 \in Int /\ u + b < (u + b) + 1
          BY <2>7
        <4> QED
          BY <4>1, SubSeqEmpty, Zenon
      <3>6. g.left = SubSeq(data, (u + b) + 1, L)
        BY <2>1 DEF Writing
      <3>7. Cut(g, data) + Len(g.buffer) = u + b
        BY <2>14, <3>4, <2>7
      <3> HIDE DEF u, b, L
      <3>8. Len(g.buffer) <= PartSize
        BY <3>4, SizesAre
      <3>9. u + b <= Len(data)
        BY <2>7 DEF L
      <3> QED
        BY <3>1, <3>2, <3>3, <3>5, <3>6, <3>7, <3>8, <3>9, <2>14, <2>1 DEF Writing, L
    <2> QED
      BY <2>1, <2>6, <2>15 DEF g
  <1> QED
    BY <1>1, <1>2

\* Chunks are appended to a buffer that is not full.
LEMMA AppendWrites ==
  ASSUME NEW data \in Seq(Items), NEW f \in FileType, Writing(f, data),
         f.left # <<>>, Len(f.buffer) < PartSize
  PROVE  LET g == [f EXCEPT !.buffer = Append(@, Head(f.left)),
                            !.left = Tail(@),
                            !.failed = FALSE]
         IN g \in FileType /\ Writing(g, data) /\ g.name = f.name
  <1> DEFINE g == [f EXCEPT !.buffer = Append(@, Head(f.left)),
                            !.left = Tail(@),
                            !.failed = FALSE]
             L == Len(data)
             b == Len(f.buffer)
             u == Cut(f, data)
             k == u + b
  <1>1. /\ f.part \in Nat \ {0} /\ f.name \in Names /\ f.left \in Seq(Items)
        /\ f.buffer \in Seq(Items) /\ f.parts \in Seq(Seq(Items))
    BY DEF FileType
  <1>2. /\ g.name = f.name /\ g.left = Tail(f.left) /\ g.failed = FALSE
        /\ g.buffer = Append(f.buffer, Head(f.left))
        /\ g.part = f.part /\ g.parts = f.parts
    <2> DEFINE hd == Append(f.buffer, Head(f.left))
               tl == Tail(f.left)
               h == [f EXCEPT !.buffer = hd, !.left = tl, !.failed = FALSE]
    <2>1. g = h
      BY DEF FileType
    <2> HIDE DEF hd, tl, g
    <2>2. /\ h.name = f.name /\ h.left = tl /\ h.failed = FALSE /\ h.buffer = hd
          /\ h.part = f.part /\ h.parts = f.parts
      BY DEF FileType
    <2> HIDE DEF h
    <2> QED
      BY <2>1, <2>2 DEF hd, tl
  <1> HIDE DEF g
  <1>3. Head(f.left) \in Items /\ Tail(f.left) \in Seq(Items)
    BY <1>1, HeadTailProperties
  <1>4. /\ Append(f.buffer, Head(f.left)) \in Seq(Items)
        /\ Len(g.buffer) = b + 1
    BY <1>1, <1>2, <1>3, AppendProperties
  <1>5. g \in FileType
    <2> DEFINE hd == Append(f.buffer, Head(f.left))
               tl == Tail(f.left)
    <2>1. hd \in Seq(Items) /\ tl \in Seq(Items)
      BY <1>3, <1>4
    <2>2. g = [f EXCEPT !.buffer = hd, !.left = tl, !.failed = FALSE]
      BY DEF g, FileType
    <2> HIDE DEF hd, tl
    <2> QED
      BY <2>1, <2>2 DEF FileType
  <1>6. /\ L \in Nat /\ b \in Nat /\ u \in Nat /\ k <= L /\ b < PartSize
        /\ PartSize \in Nat \ {0}
    BY <1>1, CutIs, LenIs, SizesAre DEF Writing
  <1>7. k < L
    <2>1. Len(f.left) = L - k
      BY LeftIs
    <2>2. Len(f.left) > 0
      BY <1>1, EmptySeq
    <2> QED
      BY <1>6, <2>1, <2>2
  <1>8. Cut(g, data) = u
    BY <1>2 DEF Cut
  <1>9. f.buffer = SubSeq(data, u + 1, k) /\ f.left = SubSeq(data, k + 1, L)
    BY DEF Writing
  <1>10. Len(g.buffer) <= PartSize /\ u + Len(g.buffer) = k + 1 /\ k + 1 <= L
    BY <1>4, <1>6, <1>7
  <1> HIDE DEF L, u, b, k
  <1>11. k \in Nat /\ u \in Nat /\ u <= k
    BY <1>6 DEF k
  <1>12. Head(f.left) = data[k + 1] /\ Tail(f.left) = SubSeq(data, (k + 1) + 1, L)
    <2>1. k + 1 \in 1 .. Len(data) /\ L \in k + 1 .. Len(data)
      BY <1>6, <1>7, <1>11 DEF L
    <2> QED
      BY <1>9, <2>1, HeadTailOfSubSeq, Zenon
  <1>13. g.buffer = SubSeq(data, u + 1, k + 1)
    <2>1. /\ u + 1 \in 1 .. Len(data) /\ k + 1 \in u + 1 .. Len(data)
          /\ (k + 1) - 1 = k
      BY <1>6, <1>7, <1>11 DEF L
    <2>2. SubSeq(data, u + 1, k + 1) = SubSeq(data, u + 1, (k + 1) - 1) \o <<data[k + 1]>>
      BY <2>1, SubSeqRecursiveSecond, Zenon
    <2>3. Append(f.buffer, Head(f.left)) = f.buffer \o <<Head(f.left)>>
      BY <1>1, <1>3, AppendIsConcat
    <2> QED
      BY <2>1, <2>2, <2>3, <1>2, <1>9, <1>12
  <1>14. Writing(g, data)
    <2>1. /\ Len(g.parts) = g.part - 1
          /\ \A i \in 1 .. g.part - 1 : g.parts[i] = Part(data, i)
          /\ g.part > 1 => Len(data) > 0
      BY <1>2 DEF Writing
    <2>2. /\ Cut(g, data) + Len(g.buffer) = k + 1
          /\ g.left = SubSeq(data, (k + 1) + 1, Len(data))
          /\ g.buffer = SubSeq(data, Cut(g, data) + 1, k + 1)
          /\ k + 1 <= Len(data)
      BY <1>2, <1>8, <1>10, <1>12, <1>13 DEF L
    <2> QED
      BY <2>1, <2>2, <1>10 DEF Writing
  <1> QED
    BY <1>2, <1>5, <1>14 DEF g

\* The upload of a file that was written to its end.
LEMMA CompleteIs ==
  ASSUME NEW data \in Seq(Items), NEW f \in FileType, Writing(f, data),
         f.left = <<>>, f.buffer = <<>>, f.parts # <<>>
  PROVE  /\ CompleteMultipartUpload(f.parts) = Whole(data)
         /\ Len(data) > 0
  <1> DEFINE n == f.part - 1
  <1>1. f.parts \in Seq(Seq(Items)) /\ Len(f.parts) = n /\ f.part \in Nat \ {0}
    BY DEF FileType, Writing
  <1>2. n \in Nat \ {0} /\ f.part > 1
    BY <1>1, EmptySeq
  <1>3. Len(data) > 0
    BY <1>2 DEF Writing
  <1>4. Ends(n) >= Len(data)
    <2>1. Len(f.left) = Len(data) - (Cut(f, data) + Len(f.buffer))
      BY LeftIs
    <2>2. Len(f.left) = 0 /\ Len(f.buffer) = 0
      OBVIOUS
    <2> QED
      BY <2>1, <2>2, CutIs, LenIs
  <1> HIDE DEF n
  <1>5. \A i \in 1 .. n : f.parts[i] = Part(data, i)
    BY DEF Writing, n
  <1>6. CompleteMultipartUpload(f.parts) = Whole(data)
    BY <1>1, <1>2, <1>4, <1>5, UploadIsWhole
  <1> QED
    BY <1>3, <1>6

-----------------------------------------------------------------------------
(* The list.                                                               *)

Histories == UNION {[D -> Seq(Steps)] : D \in SUBSET Steps}

LEMMA HistoryIs ==
  ASSUME NEW h \in Histories
  PROVE  /\ DOMAIN h \subseteq Steps
         /\ \A f \in DOMAIN h : h[f] \in Seq(Steps)
  BY DEF Histories

LEMMA EnteredIs ==
  ASSUME NEW h \in Histories, NEW f \in Steps, NEW q \in Seq(Steps)
  PROVE  Entered(h, f, q) \in Histories
  <1>1. PICK D \in SUBSET Steps : h \in [D -> Seq(Steps)]
    BY DEF Histories
  <1>2. Entered(h, f, q) \in [D \cup {f} -> Seq(Steps)]
    BY <1>1 DEF Entered
  <1>3. D \cup {f} \in SUBSET Steps
    OBVIOUS
  <1> QED
    BY <1>2, <1>3, Zenon DEF Histories

LEMMA DroppedIs ==
  ASSUME NEW h \in Histories, NEW f
  PROVE  [g \in DOMAIN h \ {f} |-> h[g]] \in Histories
  <1>1. PICK D \in SUBSET Steps : h \in [D -> Seq(Steps)]
    BY DEF Histories
  <1>2. [g \in DOMAIN h \ {f} |-> h[g]] \in [D \ {f} -> Seq(Steps)]
    BY <1>1
  <1>3. D \ {f} \in SUBSET Steps
    OBVIOUS
  <1> QED
    BY <1>2, <1>3, Zenon DEF Histories

LEMMA ListIs ==
  ASSUME NEW s
  PROVE  s \in Lists <=> /\ s = [full |-> s.full, deltas |-> s.deltas,
                                 history_versions |-> s.history_versions, log |-> s.log]
                         /\ s.full \in Steps /\ s.deltas \in Seq(Steps)
                         /\ s.history_versions \in Histories /\ s.log \in Seq(Entries)
  BY DEF Lists, Histories

\* What a saving process can record.
Recordable(j) == j.target \in Steps /\ j.save \in Nat /\ j.kind \in {"full", "delta"}

Entry(j) == [name |-> j.target, save |-> j.save, kind |-> j.kind, kept |-> TRUE]

LEMMA LoggedIs ==
  ASSUME NEW log \in Seq(Entries), Recordable(job)
  PROVE  /\ Logged(log) = Append(log, Entry(job))
         /\ Entry(job) \in Entries
         /\ Logged(log) \in Seq(Entries)
         /\ Len(Logged(log)) = Len(log) + 1
         /\ \A i \in 1 .. Len(log) : Logged(log)[i] = log[i]
         /\ Logged(log)[Len(log) + 1] = Entry(job)
  <1>1. Logged(log) = Append(log, Entry(job))
    BY DEF Logged, Entry
  <1>2. Entry(job) \in Entries
    BY DEF Entry, Entries, Recordable
  <1> QED
    BY <1>1, <1>2, AppendProperties

LEMMA FirstListIs ==
  ASSUME Recordable(job), NEW name \in Steps
  PROVE  LET t == UpdateLatestFullCheckpoint(None, name)
         IN /\ t \in Lists
            /\ t.full = name /\ t.deltas = <<>> /\ t.history_versions = <<>>
            /\ t.log = Logged(<<>>)
  <1> DEFINE t == UpdateLatestFullCheckpoint(None, name)
  <1>1. /\ t = [full |-> name, deltas |-> <<>>, history_versions |-> <<>>,
                log |-> Logged(<<>>)]
    BY DEF UpdateLatestFullCheckpoint, EmptyState
  <1> HIDE DEF t
  <1>2. Logged(<<>>) \in Seq(Entries)
    <2>1. <<>> \in Seq(Entries)
      OBVIOUS
    <2> QED
      BY <2>1, LoggedIs
  <1>3. <<>> \in Histories
    <2>1. <<>> \in [{} -> Seq(Steps)]
      OBVIOUS
    <2>2. {} \in SUBSET Steps
      OBVIOUS
    <2> QED
      BY <2>1, <2>2, Zenon DEF Histories
  <1>4. t.full = name /\ t.deltas = <<>> /\ t.history_versions = <<>> /\ t.log = Logged(<<>>)
    BY <1>1
  <1>5. t \in Lists
    <2>1. <<>> \in Seq(Steps)
      OBVIOUS
    <2> QED
      BY <1>1, <1>2, <1>3, <1>4, <2>1, ListIs
  <1> QED
    BY <1>4, <1>5 DEF t

LEMMA FullIs ==
  ASSUME NEW s \in Lists, Recordable(job), NEW name \in Steps
  PROVE  LET t == UpdateLatestFullCheckpoint(s, name)
         IN /\ t \in Lists
            /\ t.full = name /\ t.deltas = <<>>
            /\ t.history_versions = Entered(s.history_versions, s.full,
                                            GetDeltas(s, s.full) \o s.deltas)
            /\ t.log = Logged(s.log)
            /\ GetDeltas(s, s.full) \in Seq(Steps)
  <1> DEFINE t == UpdateLatestFullCheckpoint(s, name)
             h == Entered(s.history_versions, s.full, GetDeltas(s, s.full) \o s.deltas)
  <1>1. t = [full |-> name, deltas |-> <<>>, history_versions |-> h, log |-> Logged(s.log)]
    BY NotNone DEF UpdateLatestFullCheckpoint
  <1>2. /\ s.full \in Steps /\ s.deltas \in Seq(Steps)
        /\ s.history_versions \in Histories /\ s.log \in Seq(Entries)
    BY ListIs
  <1>3. GetDeltas(s, s.full) \in Seq(Steps)
    BY <1>2, HistoryIs DEF GetDeltas
  <1>4. GetDeltas(s, s.full) \o s.deltas \in Seq(Steps)
    BY <1>2, <1>3, ConcatProperties
  <1>5. h \in Histories
    BY <1>2, <1>4, EnteredIs
  <1> HIDE DEF t, h
  <1>6. t.full = name /\ t.deltas = <<>> /\ t.history_versions = h /\ t.log = Logged(s.log)
    BY <1>1
  <1>7. t \in Lists
    <2>1. <<>> \in Seq(Steps) /\ Logged(s.log) \in Seq(Entries)
      BY <1>2, LoggedIs
    <2> QED
      BY <1>1, <1>5, <1>6, <2>1, ListIs
  <1> QED
    BY <1>3, <1>6, <1>7 DEF t, h

LEMMA DeltaIs ==
  ASSUME NEW s \in Lists, Recordable(job), NEW name \in Steps
  PROVE  LET t == AddDeltaCheckpoint(s, name)
         IN /\ t \in Lists
            /\ t.full = s.full /\ t.deltas = Append(s.deltas, name)
            /\ t.history_versions = s.history_versions
            /\ t.log = Logged(s.log)
  <1> DEFINE t == AddDeltaCheckpoint(s, name)
             a == Append(s.deltas, name)
             b == Logged(s.log)
  <1>1. t = [s EXCEPT !.deltas = a, !.log = b]
    BY DEF AddDeltaCheckpoint, Lists
  <1>2. /\ s.full \in Steps /\ s.deltas \in Seq(Steps)
        /\ s.history_versions \in Histories /\ s.log \in Seq(Entries)
    BY ListIs
  <1>3. a \in Seq(Steps) /\ b \in Seq(Entries)
    BY <1>2, AppendProperties, LoggedIs
  <1> HIDE DEF t, a, b
  <1>4. t \in Lists
    BY <1>1, <1>3 DEF Lists
  <1>5. t.full = s.full /\ t.deltas = a /\ t.history_versions = s.history_versions /\ t.log = b
    BY <1>1 DEF Lists
  <1> QED
    BY <1>4, <1>5 DEF t, a, b

LEMMA DropIs ==
  ASSUME NEW s \in Lists, NEW f \in Steps
  PROVE  LET t == DropVersion(s, f)
         IN /\ t \in Lists
            /\ t.full = s.full /\ t.deltas = s.deltas
            /\ t.history_versions = [g \in DOMAIN s.history_versions \ {f} |->
                                       s.history_versions[g]]
            /\ DOMAIN t.log = DOMAIN s.log /\ Len(t.log) = Len(s.log)
            /\ \A i \in DOMAIN s.log :
                 /\ t.log[i].name = s.log[i].name
                 /\ t.log[i].save = s.log[i].save
                 /\ t.log[i].kind = s.log[i].kind
                 /\ t.log[i].kept = (s.log[i].kept /\ ~OfOldVersion(s.log, i, f))
  <1> DEFINE t == DropVersion(s, f)
             h == [g \in DOMAIN s.history_versions \ {f} |-> s.history_versions[g]]
             e(i) == [s.log[i] EXCEPT !.kept = @ /\ ~OfOldVersion(s.log, i, f)]
             b == [i \in DOMAIN s.log |-> e(i)]
  <1>1. t = [s EXCEPT !.history_versions = h, !.log = b]
    BY DEF DropVersion, NotKept
  <1>2. /\ s.full \in Steps /\ s.deltas \in Seq(Steps)
        /\ s.history_versions \in Histories /\ s.log \in Seq(Entries)
    BY ListIs
  <1>3. h \in Histories
    BY <1>2, DroppedIs
  <1>4. ASSUME NEW i \in DOMAIN s.log
        PROVE  /\ e(i) \in Entries
               /\ e(i).name = s.log[i].name /\ e(i).save = s.log[i].save
               /\ e(i).kind = s.log[i].kind
               /\ e(i).kept = (s.log[i].kept /\ ~OfOldVersion(s.log, i, f))
    <2> DEFINE k == (s.log[i].kept /\ ~OfOldVersion(s.log, i, f))
    <2>1. s.log[i] \in Entries
      BY <1>2, ElementOfSeq
    <2>2. k \in BOOLEAN
      OBVIOUS
    <2>3. e(i) = [s.log[i] EXCEPT !.kept = k]
      BY <2>1 DEF Entries
    <2> HIDE DEF k, e
    <2>4. /\ [s.log[i] EXCEPT !.kept = k] \in Entries
          /\ [s.log[i] EXCEPT !.kept = k].name = s.log[i].name
          /\ [s.log[i] EXCEPT !.kept = k].save = s.log[i].save
          /\ [s.log[i] EXCEPT !.kept = k].kind = s.log[i].kind
          /\ [s.log[i] EXCEPT !.kept = k].kept = k
      BY <2>1, <2>2 DEF Entries
    <2> QED
      BY <2>3, <2>4 DEF k
  <1> HIDE DEF e
  <1>5. b \in Seq(Entries) /\ DOMAIN b = DOMAIN s.log /\ Len(b) = Len(s.log)
    <2>1. DOMAIN s.log = 1 .. Len(s.log) /\ Len(s.log) \in Nat
      BY <1>2, LenProperties
    <2>2. b \in [1 .. Len(s.log) -> Entries]
      BY <1>4, <2>1
    <2> HIDE DEF b
    <2> QED
      BY <2>1, <2>2, FunctionIsSeq
  <1>6. \A i \in DOMAIN s.log : b[i] = e(i)
    OBVIOUS
  <1> HIDE DEF t, h, b
  <1>7. t \in Lists
    BY <1>1, <1>3, <1>5 DEF Lists, Histories
  <1>8. t.full = s.full /\ t.deltas = s.deltas /\ t.history_versions = h /\ t.log = b
    BY <1>1 DEF Lists
  <1> QED
    BY <1>4, <1>5, <1>6, <1>7, <1>8 DEF t, h

-----------------------------------------------------------------------------
(* The invariant of objects, files and jobs.                               *)

JobType ==
  [op : {"idle", "write", "rename", "unlink", "record", "remove"},
   target : Steps \cup {StateFile, None},
   kind : {"none", "full", "delta"},
   save : Nat,
   queue : Seq(Steps)]

\* What the job puts in place.
Data(j, s) == IF j.target = StateFile THEN <<s>> ELSE Bytes(j.save)

\* An object with the chunks of one of the first n saves, or with a list of
\* nothing but them.
OfSave(o, n) == \E v \in 1 .. n : Chunks[v] > 0 /\ o = Whole(Bytes(v))

SavedBy(s, n) == \A i \in DOMAIN s.log : s.log[i].save \in 1 .. n

OfList(o, n) == \E s \in Lists : o = <<s>> /\ SavedBy(s, n)

Fit(name, o, n) ==
  o # None => /\ o \in Seq(Items)
              /\ Len(o) > 0
              /\ name \in Steps => OfSave(o, n)
              /\ name = StateFile => OfList(o, n)

Types ==
  /\ state \in Lists \cup {None}
  /\ file \in FileType \cup {None}
  /\ job \in JobType
  /\ up \in BOOLEAN /\ fresh \in BOOLEAN
  /\ step \in 0 .. MaxStep
  /\ saves \in 0 .. Len(Chunks)
  /\ crashes \in 0 .. MaxCrashes
  /\ faults \in 0 .. MaxFaults
  /\ orphans \subseteq Steps
  /\ dropped \subseteq Steps
  /\ interrupted \subseteq Steps
  /\ exposed \subseteq Steps

JobOK ==
  /\ file # None => job.op = "write"
  /\ job.op \in {"write", "rename", "unlink"} => job.target # None
  /\ job.op = "record" => job.target \in Steps
  /\ job.op \in {"idle", "remove"} => job.target = None
  /\ job.target \in Steps => job.save \in 1 .. saves /\ job.kind \in {"full", "delta"}
  /\ job.target \notin Steps => job.save = 0
  /\ job.op # "remove" => job.queue = <<>>
  /\ job.target = StateFile \/ job.op = "remove" => state # None
  /\ ~up => job = Idle /\ state = None
  /\ state # None => SavedBy(state, saves)

\* A file is written as it should be, or its upload is gone with all it held.
Lost(f) == f.left = <<>> /\ f.buffer = <<>> /\ f.parts = <<>>

FileOK ==
  file # None => /\ file.name = Temp[job.target]
                 /\ Lost(file) \/ Writing(file, Data(job, state))

Objects ==
  /\ objects \in [Names -> Seq(Items) \cup {None}]
  /\ \A n \in Names : Fit(n, objects[n], saves)

\* An object that was written is there until it is recorded.
Held ==
  /\ job.op = "rename" => /\ objects[Temp[job.target]] = Whole(Data(job, state))
                          /\ Len(Data(job, state)) > 0
  /\ job.op \in {"unlink", "record"} => /\ objects[job.target] = Whole(Data(job, state))
                                        /\ Len(Data(job, state)) > 0

FilesInv == Types /\ JobOK /\ FileOK /\ Objects /\ Held

-----------------------------------------------------------------------------
LEMMA JobIs ==
  ASSUME NEW j \in JobType
  PROVE  /\ j.op \in {"idle", "write", "rename", "unlink", "record", "remove"}
         /\ j.target \in Steps \cup {StateFile, None}
         /\ j.kind \in {"none", "full", "delta"}
         /\ j.save \in Nat
         /\ j.queue \in Seq(Steps)
  BY DEF JobType

LEMMA IdleIs ==
  /\ Idle \in JobType
  /\ Idle.op = "idle" /\ Idle.target = None /\ Idle.kind = "none"
  /\ Idle.save = 0 /\ Idle.queue = <<>>
  BY DEF Idle, JobType

LEMMA MoreSaves ==
  ASSUME NEW n \in Nat, NEW m \in Nat, n <= m
  PROVE  /\ \A s : SavedBy(s, n) => SavedBy(s, m)
         /\ \A name, o : Fit(name, o, n) => Fit(name, o, m)
  <1>1. 1 .. n \subseteq 1 .. m
    OBVIOUS
  <1>2. \A s : SavedBy(s, n) => SavedBy(s, m)
    BY <1>1, Zenon DEF SavedBy
  <1>3. \A o : OfSave(o, n) => OfSave(o, m)
    BY <1>1, Zenon DEF OfSave
  <1>4. \A o : OfList(o, n) => OfList(o, m)
    BY <1>2, Zenon DEF OfList
  <1> QED
    BY <1>2, <1>3, <1>4, Zenon DEF Fit

LEMMA WholeIs ==
  ASSUME NEW data \in Seq(Items), Len(data) > 0
  PROVE  /\ Whole(data) \in Seq(Items)
         /\ Len(Whole(data)) > 0
         /\ Whole(data)[1] = data[1]
         /\ Len(data) <= PartSize * MaxListed => Whole(data) = data
  <1>1. /\ Whole(data) \in Seq(Items)
        /\ Len(Whole(data)) = Min({Ends(MaxListed), Len(data)})
        /\ Ends(MaxListed) >= Len(data) => Whole(data) = data
        /\ \A k \in 1 .. Min({Ends(MaxListed), Len(data)}) : Whole(data)[k] = data[k]
    BY UptoIs, SizesAre DEF Whole
  <1>2. /\ Ends(MaxListed) \in Nat /\ Ends(MaxListed) > 0 /\ Len(data) \in Nat
        /\ Ends(MaxListed) = PartSize * MaxListed
    <2>1. Ends(MaxListed) = PartSize * MaxListed
      BY SizesAre DEF Ends
    <2> QED
      BY <2>1, ListedEnds, LenIs, SizesAre
  <1>3. Min({Ends(MaxListed), Len(data)}) = IF Ends(MaxListed) <= Len(data)
                                            THEN Ends(MaxListed) ELSE Len(data)
    BY <1>2, MinOfTwo
  <1>4. 1 \in 1 .. Min({Ends(MaxListed), Len(data)})
    BY <1>2, <1>3
  <1>5. Whole(data)[1] = data[1]
    BY <1>1, <1>4
  <1>6. Len(Whole(data)) > 0
    BY <1>1, <1>2, <1>3
  <1>7. Len(data) <= PartSize * MaxListed => Whole(data) = data
    BY <1>1, <1>2
  <1> QED
    BY <1>1, <1>5, <1>6, <1>7

LEMMA WholeList ==
  ASSUME NEW s \in Lists
  PROVE  <<s>> \in Seq(Items) /\ Len(<<s>>) > 0 /\ Whole(<<s>>) = <<s>>
  <1>1. <<s>> \in Seq(Items) /\ Len(<<s>>) = 1
    BY DEF Items
  <1>2. 1 <= PartSize * MaxListed
    <2>1. Ends(MaxListed) = PartSize * MaxListed
      BY SizesAre DEF Ends
    <2> QED
      BY <2>1, ListedEnds, SizesAre
  <1> QED
    <2>1. Len(<<s>>) > 0 /\ Len(<<s>>) <= PartSize * MaxListed
      BY <1>1, <1>2
    <2> QED
      BY <1>1, <2>1, WholeIs, Zenon

\* The data of a job, and the object it becomes.
LEMMA DataIs ==
  ASSUME Types, JobOK, job.target # None
  PROVE  /\ job.target \in Steps \cup {StateFile}
         /\ Data(job, state) \in Seq(Items)
         /\ Len(Data(job, state)) > 0 => /\ Whole(Data(job, state)) # None
                                         /\ Fit(job.target, Whole(Data(job, state)), saves)
         /\ job.target = StateFile => Whole(Data(job, state)) = <<state>>
  <1>1. job.target \in Steps \cup {StateFile}
    BY JobIs DEF Types
  <1>2. CASE job.target = StateFile
    <2>1. state \in Lists /\ SavedBy(state, saves)
      BY <1>2 DEF Types, JobOK
    <2>2. Data(job, state) = <<state>>
      BY <1>2 DEF Data
    <2>3. <<state>> \in Seq(Items) /\ Len(<<state>>) > 0 /\ Whole(<<state>>) = <<state>>
      BY <2>1, WholeList
    <2>4. OfList(<<state>>, saves)
      BY <2>1, Zenon DEF OfList
    <2>5. <<state>> # None
      BY <2>1, NotNone
    <2>6. Fit(job.target, <<state>>, saves)
      BY <1>2, <2>3, <2>4, NamesAre DEF Fit
    <2> QED
      BY <1>1, <2>2, <2>3, <2>5, <2>6
  <1>3. CASE job.target \in Steps
    <2> DEFINE v == job.save
    <2>1. v \in 1 .. saves /\ v \in 1 .. Len(Chunks)
      <3>1. v \in 1 .. saves /\ saves \in 0 .. Len(Chunks)
        BY <1>3 DEF Types, JobOK
      <3>2. Len(Chunks) \in Nat
        BY CheckpointsAssumption, LenIs
      <3> QED
        BY <3>1, <3>2
    <2>2. job.target # StateFile
      BY <1>3, NamesAre
    <2>3. Data(job, state) = Bytes(v)
      BY <2>2 DEF Data
    <2>4. Bytes(v) \in Seq(Items) /\ Bytes(v) \in Seq(Nat \X Nat) /\ Len(Bytes(v)) = Chunks[v]
      BY <2>1, BytesAre
    <2>5. ASSUME Len(Bytes(v)) > 0
          PROVE  Whole(Bytes(v)) # None /\ Fit(job.target, Whole(Bytes(v)), saves)
      <3>1. Whole(Bytes(v)) \in Seq(Items) /\ Len(Whole(Bytes(v))) > 0
        BY <2>4, <2>5, WholeIs
      <3>2. Whole(Bytes(v)) \in Seq(Nat \X Nat)
        BY <2>4, UptoIs, SizesAre DEF Whole
      <3>3. OfSave(Whole(Bytes(v)), saves)
        BY <2>1, <2>4, <2>5 DEF OfSave
      <3> QED
        BY <3>1, <3>2, <3>3, <2>2, NotNone DEF Fit
    <2> QED
      BY <1>1, <2>2, <2>3, <2>4, <2>5
  <1> QED
    BY <1>1, <1>2, <1>3

\* An object is put in place.
LEMMA PutFits ==
  ASSUME Objects, saves' = saves, NEW n \in Names, NEW o, Fit(n, o, saves),
         objects' = [objects EXCEPT ![n] = o]
  PROVE  Objects'
  <1>1. objects \in [Names -> Seq(Items) \cup {None}]
    BY DEF Objects
  <1>2. o \in Seq(Items) \cup {None}
    BY DEF Fit
  <1>3. objects' \in [Names -> Seq(Items) \cup {None}]
    BY <1>1, <1>2
  <1>4. ASSUME NEW m \in Names PROVE Fit(m, objects'[m], saves)
    <2>1. CASE m = n
      BY <1>1, <2>1
    <2>2. CASE m # n
      <3>1. objects'[m] = objects[m]
        BY <1>1, <2>2
      <3> QED
        BY <3>1 DEF Objects
    <2> QED
      BY <2>1, <2>2
  <1> QED
    BY <1>3, <1>4 DEF Objects

-----------------------------------------------------------------------------
(* Every step keeps it.                                                    *)

\* A temporary name takes what the name it stands for does.
LEMMA TempFits ==
  ASSUME NEW t \in Steps \cup {StateFile}, NEW o, NEW n, Fit(t, o, n)
  PROVE  Fit(Temp[t], o, n)
  BY NamesAre DEF Fit

\* The file of a job, where there is one.
LEMMA FileIs ==
  ASSUME FilesInv, file # None
  PROVE  /\ file \in FileType
         /\ job.op = "write" /\ job.target # None /\ job.target \in Steps \cup {StateFile}
         /\ file.name = Temp[job.target] /\ file.name \in Names
         /\ Data(job, state) \in Seq(Items)
         /\ file.left # <<>> \/ FlushInternal(file).parts # <<>> \/ file.buffer # <<>>
              => Writing(file, Data(job, state))
  <1>1. file \in FileType /\ job.op = "write" /\ job.target # None
    BY DEF FilesInv, Types, JobOK
  <1>2. job.target \in Steps \cup {StateFile} /\ Data(job, state) \in Seq(Items)
    BY <1>1, DataIs DEF FilesInv
  <1>3. file.name = Temp[job.target] /\ (Lost(file) \/ Writing(file, Data(job, state)))
    BY DEF FilesInv, FileOK
  <1>4. Lost(file) => /\ file.left = <<>> /\ file.buffer = <<>>
                      /\ FlushInternal(file).parts = <<>>
    BY DEF Lost, FlushInternal
  <1> QED
    BY <1>1, <1>2, <1>3, <1>4, NamesAre

LEMMA FaultsGrow ==
  ASSUME Types, Fault
  PROVE  faults' \in 0 .. MaxFaults
  BY FilesAssumption DEF Types, Fault

LEMMA FailedWrites ==
  ASSUME NEW f \in FileType, NEW data, Writing(f, data)
  PROVE  LET g == [f EXCEPT !.failed = TRUE]
         IN g \in FileType /\ g.name = f.name /\ Writing(g, data)
  <1> DEFINE g == [f EXCEPT !.failed = TRUE]
  <1>1. /\ g \in FileType /\ g.name = f.name /\ g.left = f.left /\ g.buffer = f.buffer
        /\ g.parts = f.parts /\ g.part = f.part
    BY DEF FileType
  <1> HIDE DEF g
  <1>2. Writing(g, data)
    BY <1>1 DEF Writing, Cut
  <1> QED
    BY <1>1, <1>2 DEF g

LEMMA SaveKeepsFiles ==
  ASSUME FilesInv, NEW kind \in {"full", "delta"}, Save(kind)
  PROVE  FilesInv'
  <1>1. PICK name \in Steps \cap {step + 1, IF fresh THEN step ELSE step + 1} :
          /\ job' = [op |-> "write", target |-> name, kind |-> kind, save |-> saves + 1,
                     queue |-> <<>>]
          /\ file' = NewWritableFile(Temp[name], Bytes(saves + 1))
          /\ step' = name
          /\ orphans' = orphans \ {name}
    BY DEF Save
  <1>2. /\ up /\ job = Idle /\ saves < Len(Chunks) /\ saves' = saves + 1 /\ fresh' = FALSE
        /\ objects' = objects /\ reader' = reader /\ faults' = faults /\ state' = state
        /\ up' = up /\ crashes' = crashes /\ dropped' = dropped
        /\ interrupted' = interrupted /\ exposed' = exposed
    BY DEF Save
  <1>3. /\ saves \in Nat /\ saves + 1 \in 1 .. Len(Chunks) /\ saves + 1 \in 1 .. saves + 1
        /\ name \in Steps /\ name \in 0 .. MaxStep /\ name # StateFile /\ name # None
    <2>1. Len(Chunks) \in Nat
      BY CheckpointsAssumption, LenIs
    <2>2. saves \in Nat
      BY <2>1 DEF FilesInv, Types
    <2>3. name \in Steps
      OBVIOUS
    <2> QED
      BY <1>2, <2>1, <2>2, <2>3, NamesAre, CheckpointsAssumption DEF Steps
  <1>4. /\ job'.op = "write" /\ job'.target = name /\ job'.kind = kind
        /\ job'.save = saves + 1 /\ job'.queue = <<>> /\ job' \in JobType
    BY <1>1, <1>3 DEF JobType
  <1>5. file' \in FileType /\ file'.name = Temp[name] /\ Writing(file', Bytes(saves + 1))
    <2>1. Bytes(saves + 1) \in Seq(Items) /\ Temp[name] \in Names
      BY <1>3, BytesAre, NamesAre
    <2> QED
      BY <1>1, <2>1, NewWrites DEF NewWritableFile
  <1>6. Data(job', state') = Bytes(saves + 1)
    BY <1>3, <1>4 DEF Data
  <1>7. Types'
    <2>1. saves' \in 0 .. Len(Chunks)
      BY <1>2, <1>3
    <2>2. orphans' \subseteq Steps /\ step' \in 0 .. MaxStep
      BY <1>1, <1>3 DEF FilesInv, Types
    <2>3. job' \in JobType /\ file' \in FileType \cup {None}
      BY <1>4, <1>5
    <2> QED
      BY <2>1, <2>2, <2>3, <1>2 DEF FilesInv, Types
  <1>8. JobOK'
    <2>1. state' # None => SavedBy(state', saves')
      BY <1>2, <1>3, MoreSaves DEF FilesInv, JobOK
    <2> QED
      BY <2>1, <1>2, <1>3, <1>4 DEF JobOK
  <1>9. FileOK'
    BY <1>4, <1>5, <1>6 DEF FileOK
  <1>10. Objects'
    <2>1. \A n \in Names : Fit(n, objects[n], saves')
      BY <1>2, <1>3, MoreSaves DEF FilesInv, Objects
    <2> QED
      BY <1>2, <2>1 DEF FilesInv, Objects
  <1>11. Held'
    BY <1>4 DEF Held
  <1> QED
    BY <1>7, <1>8, <1>9, <1>10, <1>11 DEF FilesInv

LEMMA WriteFileKeepsFiles ==
  ASSUME FilesInv, WriteFile
  PROVE  FilesInv'
  <1>1. /\ file # None /\ file.left # <<>>
        /\ objects' = objects /\ job' = job /\ state' = state /\ saves' = saves /\ up' = up
        /\ fresh' = fresh /\ step' = step /\ crashes' = crashes /\ orphans' = orphans
        /\ dropped' = dropped /\ interrupted' = interrupted /\ exposed' = exposed
    BY DEF WriteFile, AppendChunk, saver, ghosts
  <1>2. /\ file \in FileType /\ job.op = "write" /\ file.name = Temp[job.target]
        /\ Data(job, state) \in Seq(Items) /\ Writing(file, Data(job, state))
    BY <1>1, FileIs
  <1> DEFINE data == Data(job, state)
             full == Len(file.buffer) >= PartSize
             f == IF full THEN FlushInternal(file) ELSE file
  <1>3. /\ file' \in FileType /\ file'.name = file.name /\ Writing(file', data)
        /\ faults' \in 0 .. MaxFaults
    <2>1. \/ /\ file' = [f EXCEPT !.buffer = Append(@, Head(f.left)),
                                  !.left = Tail(@),
                                  !.failed = FALSE]
             /\ faults' = faults
          \/ /\ Fault
             /\ file' = [file EXCEPT !.failed = TRUE]
      BY DEF WriteFile, AppendChunk
    <2>2. f \in FileType /\ Writing(f, data) /\ f.left # <<>> /\ f.name = file.name
          /\ Len(f.buffer) < PartSize
      <3>1. CASE full
        <4>1. /\ f \in FileType /\ Writing(f, data) /\ f.buffer = <<>>
              /\ f.left = file.left /\ f.name = file.name
          BY <3>1, <1>2, FlushWrites
        <4>2. Len(<<>>) < PartSize
          BY SizesAre
        <4> HIDE DEF f
        <4> QED
          BY <4>1, <4>2, <1>1
      <3>2. CASE ~full
        <4>1. Len(file.buffer) \in Nat /\ PartSize \in Nat
          BY <1>2, SizesAre DEF FileType
        <4> QED
          BY <3>2, <4>1, <1>1, <1>2
      <3> QED
        BY <3>1, <3>2
    <2> HIDE DEF f, data
    <2>3. CASE /\ file' = [f EXCEPT !.buffer = Append(@, Head(f.left)),
                                    !.left = Tail(@),
                                    !.failed = FALSE]
               /\ faults' = faults
      <3>1. file' \in FileType /\ Writing(file', data) /\ file'.name = f.name
        BY <2>2, <2>3, <1>2, AppendWrites DEF data
      <3> QED
        BY <3>1, <2>2, <2>3 DEF FilesInv, Types
    <2>4. CASE /\ Fault
               /\ file' = [file EXCEPT !.failed = TRUE]
      <3>1. faults' \in 0 .. MaxFaults
        BY <2>4, FaultsGrow DEF FilesInv
      <3>2. Writing(file', data) /\ file' \in FileType /\ file'.name = file.name
        BY <2>4, <1>2, FailedWrites DEF data
      <3> QED
        BY <3>1, <3>2
    <2> QED
      BY <2>1, <2>3, <2>4
  <1>4. Types'
    BY <1>1, <1>3 DEF FilesInv, Types
  <1>5. JobOK'
    BY <1>1, <1>2 DEF FilesInv, JobOK
  <1>6. FileOK'
    BY <1>1, <1>2, <1>3 DEF FileOK
  <1>7. Objects'
    BY <1>1 DEF FilesInv, Objects
  <1>8. Held'
    BY <1>1 DEF FilesInv, Held
  <1> QED
    BY <1>4, <1>5, <1>6, <1>7, <1>8 DEF FilesInv

\* A file that was written to its end: every part of it is uploaded, and all
\* of it is there to make the object of.
LEMMA ClosedIs ==
  ASSUME FilesInv, CanClose, FlushInternal(file).parts # <<>>
  PROVE  /\ job.op = "write" /\ job.target # None /\ job.target \in Steps \cup {StateFile}
         /\ FlushInternal(file).name = Temp[job.target]
         /\ CompleteMultipartUpload(FlushInternal(file).parts) = Whole(Data(job, state))
         /\ Len(Data(job, state)) > 0
         /\ Fit(job.target, Whole(Data(job, state)), saves)
         /\ Fit(Temp[job.target], Whole(Data(job, state)), saves)
  <1> DEFINE data == Data(job, state)
             f == FlushInternal(file)
  <1>1. /\ file # None /\ file.left = <<>>
    BY DEF CanClose
  <1>2. /\ file \in FileType /\ file.name = Temp[job.target] /\ data \in Seq(Items)
        /\ job.op = "write" /\ job.target # None /\ job.target \in Steps \cup {StateFile}
        /\ Writing(file, data)
    BY <1>1, FileIs
  <1>3. /\ f \in FileType /\ Writing(f, data) /\ f.buffer = <<>> /\ f.left = <<>>
        /\ f.name = file.name
    BY <1>1, <1>2, FlushWrites
  <1>4. CompleteMultipartUpload(f.parts) = Whole(data) /\ Len(data) > 0
    <2> HIDE DEF f, data
    <2> QED
      BY <1>2, <1>3, CompleteIs DEF f
  <1>5. Fit(job.target, Whole(data), saves)
    BY <1>2, <1>4, DataIs DEF FilesInv
  <1> QED
    BY <1>2, <1>3, <1>4, <1>5, TempFits

LEMMA CloseFileKeepsFiles ==
  ASSUME FilesInv, CloseFile
  PROVE  FilesInv'
  <1>1. /\ CanClose /\ FlushInternal(file).parts # <<>>
        /\ objects' = [objects EXCEPT ![FlushInternal(file).name] =
                         CompleteMultipartUpload(FlushInternal(file).parts)]
        /\ file' = None /\ faults' = faults /\ job' = [job EXCEPT !.op = "rename"]
    BY DEF CloseFile, Close
  <1>2. /\ state' = state /\ saves' = saves /\ up' = up
        /\ fresh' = fresh /\ step' = step /\ crashes' = crashes /\ orphans' = orphans
        /\ dropped' = dropped /\ interrupted' = interrupted /\ exposed' = exposed
    BY DEF CloseFile, Close, ghosts
  <1> DEFINE data == Data(job, state)
             t == job.target
  <1>3. /\ job.op = "write" /\ t # None /\ t \in Steps \cup {StateFile} /\ Len(data) > 0
        /\ Fit(t, Whole(data), saves) /\ Fit(Temp[t], Whole(data), saves)
        /\ objects' = [objects EXCEPT ![Temp[t]] = Whole(data)]
    BY <1>1, ClosedIs
  <1>4. job \in JobType
    BY DEF FilesInv, Types
  <1>5. /\ job' \in JobType /\ job'.op = "rename" /\ job'.target = t
        /\ job'.kind = job.kind /\ job'.save = job.save /\ job'.queue = job.queue
    BY <1>1, <1>4 DEF JobType
  <1>6. Data(job', state') = data
    BY <1>2, <1>5 DEF Data
  <1> HIDE DEF data, t
  <1>7. Types'
    BY <1>1, <1>2, <1>5 DEF FilesInv, Types
  <1>8. JobOK'
    <2>1. up
      BY <1>3, IdleIs DEF FilesInv, JobOK
    <2> QED
      BY <2>1, <1>1, <1>2, <1>3, <1>5 DEF FilesInv, JobOK, t
  <1>9. FileOK'
    BY <1>1 DEF FileOK
  <1>10. Temp[t] \in Names
    BY <1>3, NamesAre
  <1>11. Objects'
    BY <1>2, <1>3, <1>10, PutFits DEF FilesInv
  <1>12. Held'
    <2>1. objects'[Temp[t]] = Whole(data)
      BY <1>3, <1>10 DEF FilesInv, Objects
    <2> QED
      BY <2>1, <1>3, <1>5, <1>6 DEF Held
  <1> QED
    BY <1>7, <1>8, <1>9, <1>11, <1>12 DEF FilesInv

LEMMA CloseFileFailsKeepsFiles ==
  ASSUME FilesInv, CloseFileFails
  PROVE  FilesInv'
  <1> DEFINE f == FlushInternal(file)
             data == Data(job, state)
  <1>1. /\ CanClose /\ file # None /\ file.left = <<>>
        /\ state' = state /\ job' = job /\ saves' = saves /\ up' = up
        /\ fresh' = fresh /\ step' = step /\ crashes' = crashes /\ orphans' = orphans
        /\ dropped' = dropped /\ interrupted' = interrupted /\ exposed' = exposed
    BY DEF CloseFileFails, CloseFails, CanClose, saver, ghosts
  <1>2. /\ file \in FileType /\ job.op = "write" /\ job.target # None
        /\ job.target \in Steps \cup {StateFile}
        /\ file.name = Temp[job.target] /\ data \in Seq(Items)
        /\ Lost(file) \/ Writing(file, data)
    BY <1>1, FileIs DEF FilesInv, FileOK
  <1>3. /\ file' \in FileType /\ file'.name = file.name /\ (Lost(file') \/ Writing(file', data))
        /\ faults' \in 0 .. MaxFaults
        /\ Objects'
    <2>1. \/ /\ Fault
             /\ file' = [file EXCEPT !.failed = TRUE]
             /\ UNCHANGED objects
          \/ /\ faults' = faults \/ Fault
             /\ file' = [f EXCEPT !.failed = TRUE]
             /\ UNCHANGED objects
          \/ /\ f.parts # <<>>
             /\ Fault
             /\ file' = [f EXCEPT !.parts = <<>>, !.failed = TRUE]
             /\ objects' = [objects EXCEPT ![f.name] = CompleteMultipartUpload(f.parts)]
      BY DEF CloseFileFails, CloseFails
    <2>2. faults' \in 0 .. MaxFaults
      BY <2>1, FaultsGrow DEF FilesInv, Types
    <2>3. /\ f \in FileType /\ f.name = file.name /\ (Lost(f) \/ Writing(f, data))
          /\ f.left = <<>> /\ f.buffer = <<>>
      <3>1. CASE Writing(file, data)
        BY <3>1, <1>1, <1>2, FlushWrites
      <3>2. CASE Lost(file)
        BY <3>2, <1>1, <1>2 DEF Lost, FlushInternal
      <3> QED
        BY <3>1, <3>2, <1>2
    <2> HIDE DEF data
    <2>4. CASE file' = [file EXCEPT !.failed = TRUE] /\ UNCHANGED objects
      <3>1. file' \in FileType /\ file'.name = file.name /\ (Writing(file, data) => Writing(file', data))
        <4>1. file' \in FileType /\ file'.name = file.name
          BY <2>4, <1>2 DEF FileType
        <4>2. Writing(file, data) => Writing(file', data)
          BY <2>4, <1>2, FailedWrites
        <4> QED
          BY <4>1, <4>2
      <3>2. Lost(file) => Lost(file')
        BY <2>4, <1>2 DEF Lost, FileType
      <3>3. Objects'
        BY <2>4, <1>1 DEF FilesInv, Objects
      <3> QED
        BY <3>1, <3>2, <3>3, <1>2, <2>2
    <2> HIDE DEF f
    <2>5. CASE file' = [f EXCEPT !.failed = TRUE] /\ UNCHANGED objects
      <3>1. file' \in FileType /\ file'.name = f.name /\ (Writing(f, data) => Writing(file', data))
        <4>1. file' \in FileType /\ file'.name = f.name
          BY <2>5, <2>3 DEF FileType
        <4>2. Writing(f, data) => Writing(file', data)
          BY <2>5, <2>3, FailedWrites
        <4> QED
          BY <4>1, <4>2
      <3>2. Lost(f) => Lost(file')
        BY <2>5, <2>3 DEF Lost, FileType
      <3>3. Objects'
        BY <2>5, <1>1 DEF FilesInv, Objects
      <3> QED
        BY <3>1, <3>2, <3>3, <2>3, <2>2
    <2>6. CASE /\ f.parts # <<>>
               /\ file' = [f EXCEPT !.parts = <<>>, !.failed = TRUE]
               /\ objects' = [objects EXCEPT ![f.name] = CompleteMultipartUpload(f.parts)]
      <3>1. file' \in FileType /\ file'.name = f.name /\ file'.left = f.left
            /\ file'.buffer = f.buffer /\ file'.parts = <<>>
        <4>1. <<>> \in Seq(Seq(Items))
          OBVIOUS
        <4> QED
          BY <2>6, <2>3, <4>1 DEF FileType
      <3>2. Lost(file')
        BY <3>1, <2>3 DEF Lost
      <3>3. objects' = [objects EXCEPT ![Temp[job.target]] = Whole(data)]
            /\ Fit(Temp[job.target], Whole(data), saves)
        BY <2>6, <1>1, ClosedIs DEF f, data
      <3>4. Temp[job.target] \in Names
        BY <1>2, NamesAre
      <3>5. Objects'
        BY <3>3, <3>4, <1>1, PutFits DEF FilesInv
      <3> QED
        BY <3>1, <3>2, <3>5, <2>3, <2>2
    <2> QED
      BY <2>1, <2>4, <2>5, <2>6
  <1>4. Types'
    BY <1>1, <1>3 DEF FilesInv, Types
  <1>5. JobOK'
    BY <1>1, <1>2 DEF FilesInv, JobOK
  <1>6. FileOK'
    BY <1>1, <1>2, <1>3 DEF FileOK
  <1>7. Held'
    BY <1>1, <1>2 DEF Held
  <1> QED
    BY <1>3, <1>4, <1>5, <1>6, <1>7 DEF FilesInv

\* A call that ends leaves nothing to do.
LEMMA IdleKeeps ==
  ASSUME FilesInv, job' = Idle, file' = None, state' = state, saves' = saves, up' = up
  PROVE  JobOK' /\ FileOK' /\ Held' /\ job' \in JobType
  <1>1. /\ job'.op = "idle" /\ job'.target = None /\ job'.save = 0 /\ job'.queue = <<>>
        /\ job' \in JobType
    BY IdleIs
  <1>2. JobOK'
    <2>1. None \notin Steps /\ None # StateFile
      BY NamesAre
    <2> QED
      BY <1>1, <2>1 DEF FilesInv, JobOK
  <1>3. FileOK' /\ Held'
    BY <1>1 DEF FileOK, Held
  <1> QED
    BY <1>1, <1>2, <1>3

LEMMA GiveUpKeepsFiles ==
  ASSUME FilesInv, GiveUp
  PROVE  FilesInv'
  <1>1. /\ file' = None /\ job' = Idle
        /\ orphans' = orphans \cup Range(job.queue) \cup ({job.target} \cap Steps)
        /\ objects' = objects /\ faults' = faults /\ state' = state /\ up' = up /\ step' = step
        /\ fresh' = fresh /\ saves' = saves /\ crashes' = crashes /\ dropped' = dropped
        /\ interrupted' = interrupted /\ exposed' = exposed
    BY DEF GiveUp, Raise
  <1>2. orphans' \subseteq Steps
    BY <1>1, JobIs, RangeOfSeq DEF FilesInv, Types
  <1>3. JobOK' /\ FileOK' /\ Held' /\ job' \in JobType
    BY <1>1, IdleKeeps
  <1>4. Types'
    BY <1>1, <1>2, <1>3 DEF FilesInv, Types
  <1>5. Objects'
    BY <1>1 DEF FilesInv, Objects
  <1> QED
    BY <1>3, <1>4, <1>5 DEF FilesInv

\* What is to be renamed is what was written.
LEMMA CopyIs ==
  ASSUME FilesInv, job.op = "rename"
  PROVE  /\ job.target # None /\ job.target \in Steps \cup {StateFile}
         /\ job.target \in Names /\ Temp[job.target] \in Names
         /\ RenameFileInternal(objects[Temp[job.target]]) = Whole(Data(job, state))
         /\ Fit(job.target, Whole(Data(job, state)), saves)
         /\ Whole(Data(job, state)) # None
  <1>1. job.target # None
    BY DEF FilesInv, JobOK
  <1>2. /\ job.target \in Steps \cup {StateFile} /\ Data(job, state) \in Seq(Items)
        /\ Len(Data(job, state)) > 0 => /\ Whole(Data(job, state)) # None
                                        /\ Fit(job.target, Whole(Data(job, state)), saves)
    BY <1>1, DataIs DEF FilesInv
  <1>3. /\ objects[Temp[job.target]] = Whole(Data(job, state))
        /\ Len(Data(job, state)) > 0
    BY DEF FilesInv, Held
  <1>4. RenameFileInternal(Whole(Data(job, state))) = Whole(Data(job, state))
    BY <1>2, RenameKeeps
  <1> QED
    BY <1>1, <1>2, <1>3, <1>4, NamesAre

LEMMA RenameCopyKeepsFiles ==
  ASSUME FilesInv, RenameCopy
  PROVE  FilesInv'
  <1> DEFINE data == Data(job, state)
             t == job.target
  <1>1. /\ job.op = "rename"
        /\ objects' = [objects EXCEPT ![t] = RenameFileInternal(objects[Temp[t]])]
        /\ dropped' = dropped \ {t} /\ job' = [job EXCEPT !.op = "unlink"]
        /\ file' = file /\ faults' = faults /\ state' = state /\ up' = up /\ step' = step
        /\ fresh' = fresh /\ saves' = saves /\ crashes' = crashes /\ orphans' = orphans
        /\ interrupted' = interrupted /\ exposed' = exposed
    BY DEF RenameCopy, Placed, CopyObject
  <1>2. /\ t # None /\ t \in Steps \cup {StateFile} /\ t \in Names
        /\ RenameFileInternal(objects[Temp[t]]) = Whole(data)
        /\ Fit(t, Whole(data), saves)
    BY <1>1, CopyIs
  <1>3. Len(data) > 0
    BY <1>1 DEF FilesInv, Held
  <1>4. job \in JobType /\ file = None
    BY <1>1 DEF FilesInv, Types, JobOK
  <1>5. /\ job' \in JobType /\ job'.op = "unlink" /\ job'.target = t
        /\ job'.kind = job.kind /\ job'.save = job.save /\ job'.queue = job.queue
    BY <1>1, <1>4 DEF JobType
  <1>6. Data(job', state') = data
    BY <1>1, <1>5 DEF Data
  <1> HIDE DEF data, t
  <1>7. Types'
    BY <1>1, <1>5 DEF FilesInv, Types
  <1>8. JobOK'
    <2>1. up
      BY <1>1, IdleIs DEF FilesInv, JobOK
    <2> QED
      BY <2>1, <1>1, <1>2, <1>4, <1>5 DEF FilesInv, JobOK, t
  <1>9. FileOK'
    BY <1>1, <1>4 DEF FileOK
  <1>10. Objects'
    BY <1>1, <1>2, PutFits DEF FilesInv
  <1>11. Held'
    <2>1. objects'[t] = Whole(data)
      BY <1>1, <1>2 DEF FilesInv, Objects
    <2> QED
      BY <2>1, <1>3, <1>5, <1>6 DEF Held
  <1> QED
    BY <1>7, <1>8, <1>9, <1>10, <1>11 DEF FilesInv

LEMMA RenameDeleteKeepsFiles ==
  ASSUME FilesInv, RenameDelete
  PROVE  FilesInv'
  <1> DEFINE data == Data(job, state)
             t == job.target
  <1>1. /\ job.op = "unlink"
        /\ objects' = [objects EXCEPT ![Temp[t]] = None]
        /\ job' = IF t = StateFile THEN Idle ELSE [job EXCEPT !.op = "record"]
        /\ file' = file /\ faults' = faults /\ state' = state /\ up' = up /\ step' = step
        /\ fresh' = fresh /\ saves' = saves /\ crashes' = crashes /\ orphans' = orphans
        /\ dropped' = dropped /\ interrupted' = interrupted /\ exposed' = exposed
    BY DEF RenameDelete, DeleteObjectInternal
  <1>2. /\ t # None /\ t \in Steps \cup {StateFile} /\ Temp[t] \in Names /\ t \in Names
        /\ Temp[t] # t
    BY <1>1, DataIs, NamesAre DEF FilesInv, JobOK
  <1>3. objects[t] = Whole(data) /\ Len(data) > 0
    BY <1>1 DEF FilesInv, Held
  <1>4. job \in JobType /\ file = None
    BY <1>1 DEF FilesInv, Types, JobOK
  <1>5. Objects'
    <2>1. Fit(Temp[t], None, saves)
      BY DEF Fit
    <2> QED
      BY <2>1, <1>1, <1>2, PutFits DEF FilesInv
  <1>6. JobOK' /\ FileOK' /\ Held' /\ job' \in JobType
    <2>1. CASE t = StateFile
      BY <2>1, <1>1, <1>4, IdleKeeps
    <2>2. CASE t # StateFile
      <3>1. /\ job' \in JobType /\ job'.op = "record" /\ job'.target = t
            /\ job'.kind = job.kind /\ job'.save = job.save /\ job'.queue = job.queue
        BY <1>1, <1>4, <2>2 DEF JobType
      <3>2. Data(job', state') = data
        BY <1>1, <3>1 DEF Data
      <3>3. objects'[t] = Whole(data)
        BY <1>1, <1>2, <1>3 DEF FilesInv, Objects
      <3> HIDE DEF data, t
      <3>4. JobOK'
        <4>1. up
          BY <1>1, IdleIs DEF FilesInv, JobOK
        <4> QED
          BY <4>1, <2>2, <1>1, <1>2, <1>4, <3>1 DEF FilesInv, JobOK, t
      <3>5. FileOK' /\ Held'
        BY <1>1, <1>3, <1>4, <3>1, <3>2, <3>3 DEF FileOK, Held
      <3> QED
        BY <3>1, <3>4, <3>5
    <2> QED
      BY <2>1, <2>2
  <1>7. Types'
    BY <1>1, <1>6 DEF FilesInv, Types
  <1> QED
    BY <1>5, <1>6, <1>7 DEF FilesInv

LEMMA RenameFailsKeepsFiles ==
  ASSUME FilesInv, RenameFails
  PROVE  FilesInv'
  <1> DEFINE t == job.target
             temp == Temp[t]
             copied == IF job.op = "rename"
                       THEN {objects[t], RenameFileInternal(objects[temp])}
                       ELSE {objects[t]}
             left == IF job.op = "unlink" \/ t = StateFile
                     THEN {objects[temp], None} ELSE {objects[temp]}
  <1>1. /\ job.op \in {"rename", "unlink"} /\ Fault
        /\ \E c \in copied, l \in left :
             objects' = [objects EXCEPT ![t] = c, ![temp] = l]
        /\ job' = Idle
        /\ orphans' = orphans \cup ({t} \cap Steps)
        /\ dropped' \in {dropped, dropped \ {t}}
        /\ file' = file /\ state' = state /\ up' = up /\ step' = step
        /\ fresh' = fresh /\ saves' = saves /\ crashes' = crashes
        /\ interrupted' = interrupted /\ exposed' = exposed
    BY DEF RenameFails
  <1>2. file = None
    BY <1>1 DEF FilesInv, JobOK
  <1>3. JobOK' /\ FileOK' /\ Held' /\ job' \in JobType
    BY <1>1, <1>2, IdleKeeps
  <1>4. faults' \in 0 .. MaxFaults
    BY <1>1, FaultsGrow DEF FilesInv
  <1>5. Types'
    BY <1>1, <1>2, <1>3, <1>4 DEF FilesInv, Types
  <1>6. t # None /\ t \in Steps \cup {StateFile} /\ temp \in Names /\ t \in Names
    BY <1>1, DataIs, NamesAre DEF FilesInv, JobOK
  <1>7. PICK c \in copied, l \in left :
          objects' = [objects EXCEPT ![t] = c, ![temp] = l]
    BY <1>1
  <1>8. Fit(t, c, saves)
    <2>1. Fit(t, objects[t], saves)
      BY <1>6 DEF FilesInv, Objects
    <2>2. job.op = "rename" => Fit(t, RenameFileInternal(objects[temp]), saves)
      BY CopyIs
    <2> QED
      BY <2>1, <2>2
  <1>9. Fit(temp, l, saves)
    <2>1. Fit(temp, objects[temp], saves)
      BY <1>6 DEF FilesInv, Objects
    <2>2. Fit(temp, None, saves)
      BY DEF Fit
    <2> QED
      BY <2>1, <2>2
  <1> HIDE DEF t, temp, copied, left
  <1>10. Objects'
    <2>1. c \in Seq(Items) \cup {None} /\ l \in Seq(Items) \cup {None}
      BY <1>8, <1>9 DEF Fit
    <2>2. objects \in [Names -> Seq(Items) \cup {None}]
      BY DEF FilesInv, Objects
    <2>3. objects' \in [Names -> Seq(Items) \cup {None}]
      BY <1>7, <2>1, <2>2
    <2>4. ASSUME NEW m \in Names PROVE Fit(m, objects'[m], saves)
      <3>1. objects'[m] = IF m = temp THEN l ELSE IF m = t THEN c ELSE objects[m]
        BY <1>6, <1>7, <2>2
      <3> QED
        BY <3>1, <1>8, <1>9 DEF FilesInv, Objects
    <2> QED
      BY <2>3, <2>4, <1>1 DEF Objects
  <1> QED
    BY <1>3, <1>5, <1>10 DEF FilesInv

\* A list is written.
LEMMA ListWritten ==
  ASSUME FilesInv, up' = TRUE, state' \in Lists, SavedBy(state', saves'), saves' = saves,
         UpdateCheckpointStateExt(state'), objects' = objects
  PROVE  /\ JobOK' /\ FileOK' /\ Held' /\ Objects'
         /\ job' \in JobType /\ file' \in FileType
         /\ job'.op = "write" /\ job'.target = StateFile /\ job'.queue = <<>> /\ job'.save = 0
  <1>1. /\ file' = NewWritableFile(Temp[StateFile], <<state'>>)
        /\ job' = [Idle EXCEPT !.op = "write", !.target = StateFile]
    BY DEF UpdateCheckpointStateExt
  <1>2. /\ job' \in JobType /\ job'.op = "write" /\ job'.target = StateFile
        /\ job'.save = 0 /\ job'.queue = <<>>
    <2>1. job' = [op |-> "write", target |-> StateFile, kind |-> "none", save |-> 0,
                  queue |-> <<>>]
      BY <1>1 DEF Idle
    <2>2. <<>> \in Seq(Steps)
      OBVIOUS
    <2> QED
      BY <2>1, <2>2 DEF JobType
  <1>3. /\ file' \in FileType /\ file'.name = Temp[StateFile] /\ Writing(file', <<state'>>)
    <2>1. <<state'>> \in Seq(Items) /\ Temp[StateFile] \in Names
      BY WholeList, NamesAre
    <2> QED
      BY <2>1, <1>1, NewWrites DEF NewWritableFile
  <1>4. Data(job', state') = <<state'>>
    BY <1>2 DEF Data
  <1>5. JobOK'
    <2>1. StateFile # None /\ StateFile \notin Steps /\ state' # None
      BY NamesAre, NotNone
    <2> QED
      BY <1>2, <2>1 DEF JobOK
  <1>6. FileOK' /\ Held'
    BY <1>2, <1>3, <1>4 DEF FileOK, Held
  <1>7. Objects'
    BY DEF FilesInv, Objects
  <1> QED
    BY <1>2, <1>3, <1>5, <1>6, <1>7

\* The entry of a checkpoint is as it was saved.
LEMMA RecordIs ==
  ASSUME FilesInv, job.op = "record"
  PROVE  /\ Recordable(job) /\ up /\ file = None
         /\ job.save \in 1 .. saves /\ job.target \in Steps
         /\ job.target # None /\ job.queue = <<>>
  <1>1. job.target \in Steps /\ job.target # None
    BY NamesAre DEF FilesInv, JobOK
  <1>2. job.save \in 1 .. saves /\ job.kind \in {"full", "delta"} /\ job.save \in Nat
    BY <1>1, JobIs DEF FilesInv, JobOK, Types
  <1>3. up /\ file = None /\ job.queue = <<>>
    BY IdleIs DEF FilesInv, JobOK
  <1> QED
    BY <1>1, <1>2, <1>3 DEF Recordable

\* Every entry but the new one was there.
LEMMA LoggedSaves ==
  ASSUME NEW log \in Seq(Entries), NEW n, Recordable(job), job.save \in 1 .. n,
         \A i \in DOMAIN log : log[i].save \in 1 .. n
  PROVE  \A i \in DOMAIN Logged(log) : Logged(log)[i].save \in 1 .. n
  <1>1. /\ Logged(log) \in Seq(Entries)
        /\ Len(Logged(log)) = Len(log) + 1
        /\ \A i \in 1 .. Len(log) : Logged(log)[i] = log[i]
        /\ Logged(log)[Len(log) + 1] = Entry(job)
    BY LoggedIs
  <1>2. Entry(job).save = job.save
    BY DEF Entry
  <1>3. DOMAIN Logged(log) = 1 .. Len(log) + 1 /\ DOMAIN log = 1 .. Len(log) /\ Len(log) \in Nat
    BY <1>1, LenProperties
  <1>4. ASSUME NEW i \in 1 .. Len(log) + 1 PROVE Logged(log)[i].save \in 1 .. n
    <2>1. CASE i = Len(log) + 1
      BY <2>1, <1>1, <1>2
    <2>2. CASE i # Len(log) + 1
      <3>1. i \in 1 .. Len(log)
        BY <2>2, <1>3
      <3> QED
        BY <3>1, <1>1, <1>3
    <2> QED
      BY <2>1, <2>2
  <1> QED
    BY <1>3, <1>4

LEMMA RecordedList ==
  ASSUME FilesInv, job.op = "record", ~(job.kind = "delta" /\ state = None)
  PROVE  LET t == IF job.kind = "full" THEN UpdateLatestFullCheckpoint(state, job.target)
                  ELSE AddDeltaCheckpoint(state, job.target)
         IN /\ t \in Lists
            /\ SavedBy(t, saves)
            /\ t.log = Logged(IF state = None THEN <<>> ELSE state.log)
  <1>1. Recordable(job) /\ job.save \in 1 .. saves /\ job.target \in Steps
    BY RecordIs
  <1>2. CASE job.kind = "full" /\ state = None
    <2> DEFINE t == UpdateLatestFullCheckpoint(None, job.target)
    <2>1. t \in Lists /\ t.log = Logged(<<>>)
      BY <1>1, FirstListIs
    <2>2. <<>> \in Seq(Entries) /\ DOMAIN <<>> = {}
      OBVIOUS
    <2>3. \A i \in DOMAIN Logged(<<>>) : Logged(<<>>)[i].save \in 1 .. saves
      BY <1>1, <2>2, LoggedSaves
    <2> QED
      BY <1>2, <2>1, <2>3 DEF SavedBy
  <1>3. CASE state # None
    <2>1. state \in Lists /\ SavedBy(state, saves) /\ state.log \in Seq(Entries)
      BY <1>3, ListIs DEF FilesInv, Types, JobOK
    <2>2. \A i \in DOMAIN Logged(state.log) : Logged(state.log)[i].save \in 1 .. saves
      BY <1>1, <2>1, LoggedSaves DEF SavedBy
    <2>3. /\ UpdateLatestFullCheckpoint(state, job.target) \in Lists
          /\ UpdateLatestFullCheckpoint(state, job.target).log = Logged(state.log)
      BY <1>1, <2>1, FullIs
    <2>4. /\ AddDeltaCheckpoint(state, job.target) \in Lists
          /\ AddDeltaCheckpoint(state, job.target).log = Logged(state.log)
      BY <1>1, <2>1, DeltaIs
    <2> QED
      BY <1>3, <2>2, <2>3, <2>4 DEF SavedBy
  <1> QED
    BY <1>1, <1>2, <1>3 DEF Recordable

LEMMA RecordKeepsFiles ==
  ASSUME FilesInv, Record
  PROVE  FilesInv'
  <1>1. /\ job.op = "record"
        /\ objects' = objects /\ faults' = faults /\ up' = up /\ step' = step
        /\ fresh' = fresh /\ saves' = saves /\ crashes' = crashes
    BY DEF Record
  <1>2. /\ up /\ file = None /\ job.target \in Steps /\ job.queue = <<>>
    BY <1>1, RecordIs
  <1>3. CASE job.kind = "delta" /\ state = None
    <2>1. /\ job' = Idle /\ file' = None /\ state' = state
          /\ orphans' = orphans \cup Range(job.queue) \cup ({job.target} \cap Steps)
          /\ dropped' = dropped /\ interrupted' = interrupted /\ exposed' = exposed
      BY <1>2, <1>3 DEF Record, Raise
    <2>2. orphans' \subseteq Steps
      BY <2>1, JobIs, RangeOfSeq DEF FilesInv, Types
    <2>3. JobOK' /\ FileOK' /\ Held' /\ job' \in JobType
      BY <1>1, <2>1, IdleKeeps
    <2>4. Types'
      BY <1>1, <2>1, <2>2, <2>3 DEF FilesInv, Types
    <2>5. Objects'
      BY <1>1 DEF FilesInv, Objects
    <2> QED
      BY <2>3, <2>4, <2>5 DEF FilesInv
  <1>4. CASE ~(job.kind = "delta" /\ state = None)
    <2>1. /\ state' = IF job.kind = "full" THEN UpdateLatestFullCheckpoint(state, job.target)
                      ELSE AddDeltaCheckpoint(state, job.target)
          /\ UpdateCheckpointStateExt(state')
          /\ orphans' = orphans /\ dropped' = dropped /\ interrupted' = interrupted
          /\ exposed' = exposed
      BY <1>4 DEF Record, ghosts
    <2>2. state' \in Lists /\ SavedBy(state', saves')
      BY <1>1, <1>4, <2>1, RecordedList
    <2>3. /\ JobOK' /\ FileOK' /\ Held' /\ Objects' /\ job' \in JobType /\ file' \in FileType
      BY <1>1, <1>2, <2>1, <2>2, ListWritten DEF FilesInv, Types
    <2>4. Types'
      BY <1>1, <2>1, <2>2, <2>3 DEF FilesInv, Types
    <2> QED
      BY <2>3, <2>4 DEF FilesInv
  <1> QED
    BY <1>3, <1>4

\* A version in the list, which leaves it.
LEMMA ToDropIs ==
  ASSUME FilesInv, NEW f \in Steps, CanDrop(f)
  PROVE  /\ up /\ job = Idle /\ file = None /\ state \in Lists
         /\ ToBeRemoved(state, f) \in Seq(Steps)
         /\ Range(ToBeRemoved(state, f)) = OfVersion(state, f)
         /\ OfVersion(state, f) \subseteq Steps
         /\ DropVersion(state, f) \in Lists
         /\ SavedBy(DropVersion(state, f), saves)
  <1>1. /\ up /\ job = Idle /\ state \in Lists /\ f \in DOMAIN state.history_versions
        /\ SavedBy(state, saves)
    BY DEF CanDrop, FilesInv, Types, JobOK
  <1>2. file = None
    BY <1>1, IdleIs DEF FilesInv, JobOK
  <1> DEFINE q == state.history_versions[f]
  <1>3. <<f>> \in Seq(Steps) /\ q \in Seq(Steps)
    BY <1>1, ListIs, HistoryIs
  <1>4. /\ ToBeRemoved(state, f) \in Seq(Steps)
        /\ Range(ToBeRemoved(state, f)) = Range(<<f>>) \cup Range(q)
    <2>1. ToBeRemoved(state, f) = <<f>> \o q
      BY DEF ToBeRemoved
    <2> HIDE DEF q
    <2>2. <<f>> \o q \in Seq(Steps)
      BY <1>3, ConcatProperties, Zenon
    <2>3. Range(<<f>> \o q) = Range(<<f>>) \cup Range(q)
      BY <1>3, RangeConcatenation, ZenonT(30)
    <2> QED
      BY <2>1, <2>2, <2>3
  <1>5. Range(<<f>>) = {f} /\ Range(q) \subseteq Steps
    BY <1>3, RangeOfSeq DEF Range
  <1>6. DropVersion(state, f) \in Lists /\ SavedBy(DropVersion(state, f), saves)
    <2> DEFINE t == DropVersion(state, f)
    <2>1. /\ t \in Lists /\ DOMAIN t.log = DOMAIN state.log
          /\ \A i \in DOMAIN state.log : t.log[i].save = state.log[i].save
      BY <1>1, DropIs
    <2> HIDE DEF t
    <2>2. SavedBy(t, saves)
      BY <1>1, <2>1 DEF SavedBy
    <2> QED
      BY <2>1, <2>2 DEF t
  <1> QED
    BY <1>1, <1>2, <1>4, <1>5, <1>6 DEF OfVersion

LEMMA RemoveOldCheckpointKeepsFiles ==
  ASSUME FilesInv, NEW f \in Steps, RemoveOldCheckpoint(f)
  PROVE  FilesInv'
  <1>1. /\ CanDrop(f)
        /\ job' = [Idle EXCEPT !.op = "remove", !.queue = ToBeRemoved(state, f)]
        /\ state' = DropVersion(state, f)
        /\ \/ exposed' = exposed
           \/ exposed' = exposed \cup (Range(ToBeRemoved(state, f)) \cap Current(Durable))
        /\ objects' = objects /\ file' = file /\ faults' = faults /\ up' = up /\ step' = step
        /\ fresh' = fresh /\ saves' = saves /\ crashes' = crashes /\ orphans' = orphans
        /\ dropped' = dropped /\ interrupted' = interrupted
    BY DEF RemoveOldCheckpoint
  <1>2. /\ up /\ file = None /\ state \in Lists
        /\ ToBeRemoved(state, f) \in Seq(Steps)
        /\ Range(ToBeRemoved(state, f)) \subseteq Steps
        /\ state' \in Lists /\ SavedBy(state', saves)
    BY <1>1, ToDropIs
  <1>3. /\ job' \in JobType /\ job'.op = "remove" /\ job'.target = None /\ job'.save = 0
    BY <1>1, <1>2 DEF Idle, JobType
  <1>4. Types'
    BY <1>1, <1>2, <1>3 DEF FilesInv, Types
  <1>5. JobOK'
    <2>1. None \notin Steps /\ None # StateFile /\ state' # None
      BY <1>2, NamesAre, NotNone
    <2> QED
      BY <1>1, <1>2, <1>3, <2>1 DEF JobOK
  <1>6. FileOK' /\ Held'
    BY <1>1, <1>2, <1>3 DEF FileOK, Held
  <1>7. Objects'
    BY <1>1 DEF FilesInv, Objects
  <1> QED
    BY <1>4, <1>5, <1>6, <1>7 DEF FilesInv

\* A file of the version is deleted.
LEMMA RemovingIs ==
  ASSUME FilesInv, job.op = "remove", job.queue # <<>>
  PROVE  /\ Head(job.queue) \in Steps /\ Head(job.queue) \in Names
         /\ Tail(job.queue) \in Seq(Steps)
         /\ Range(job.queue) = {Head(job.queue)} \cup Range(Tail(job.queue))
         /\ Range(job.queue) \subseteq Steps
         /\ file = None /\ up
         /\ Fit(Head(job.queue), None, saves)
  <1>1. job.queue \in Seq(Steps)
    BY JobIs DEF FilesInv, Types
  <1>2. Head(job.queue) \in Steps /\ Tail(job.queue) \in Seq(Steps)
    BY <1>1, HeadTailProperties
  <1>3. Range(job.queue) = {Head(job.queue)} \cup Range(Tail(job.queue))
    <2> DEFINE q == job.queue
    <2>1. q \in Seq(Steps) /\ q # <<>>
      BY <1>1
    <2> HIDE DEF q
    <2>2. /\ Len(q) \in Nat \ {0} /\ DOMAIN q = 1 .. Len(q)
          /\ Len(Tail(q)) = Len(q) - 1 /\ DOMAIN Tail(q) = 1 .. Len(q) - 1
          /\ \A i \in 1 .. Len(q) - 1 : Tail(q)[i] = q[i + 1]
          /\ Head(q) = q[1]
      BY <2>1, HeadTailProperties, EmptySeq, LenProperties
    <2>3. ASSUME NEW i \in DOMAIN q
          PROVE  q[i] = Head(q) \/ \E k \in DOMAIN Tail(q) : q[i] = Tail(q)[k]
      <3>1. CASE i = 1
        BY <2>2, <3>1
      <3>2. CASE i # 1
        <4>1. i - 1 \in DOMAIN Tail(q) /\ Tail(q)[i - 1] = q[i]
          BY <2>2, <3>2
        <4> QED
          BY <4>1
      <3> QED
        BY <3>1, <3>2
    <2>4. ASSUME NEW k \in DOMAIN Tail(q) PROVE \E i \in DOMAIN q : Tail(q)[k] = q[i]
      <3>1. k + 1 \in DOMAIN q /\ Tail(q)[k] = q[k + 1]
        BY <2>2
      <3> QED
        BY <3>1
    <2>5. 1 \in DOMAIN q
      BY <2>2
    <2>6. Range(q) = {Head(q)} \cup Range(Tail(q))
      <3>1. Range(q) \subseteq {Head(q)} \cup Range(Tail(q))
        BY <2>3, Zenon DEF Range
      <3>2. Range(Tail(q)) \subseteq Range(q)
        BY <2>4, Zenon DEF Range
      <3>3. Head(q) \in Range(q)
        BY <2>2, <2>5 DEF Range
      <3> QED
        BY <3>1, <3>2, <3>3
    <2> QED
      BY <2>6 DEF q
  <1>4. Range(job.queue) \subseteq Steps
    BY <1>1, RangeOfSeq
  <1>5. file = None /\ up
    BY IdleIs DEF FilesInv, JobOK
  <1>6. Fit(Head(job.queue), None, saves)
    BY DEF Fit
  <1> QED
    BY <1>2, <1>3, <1>4, <1>5, <1>6, NamesAre

LEMMA RemoveCheckpointKeepsFiles ==
  ASSUME FilesInv, RemoveCheckpoint
  PROVE  FilesInv'
  <1>1. /\ job.op = "remove" /\ job.queue # <<>>
        /\ objects' = [objects EXCEPT ![Head(job.queue)] = None]
        /\ dropped' = dropped \cup {Head(job.queue)}
        /\ job' = [job EXCEPT !.queue = Tail(@)]
        /\ file' = file /\ faults' = faults /\ state' = state /\ up' = up /\ step' = step
        /\ fresh' = fresh /\ saves' = saves /\ crashes' = crashes /\ orphans' = orphans
        /\ interrupted' = interrupted /\ exposed' = exposed
    BY DEF RemoveCheckpoint, DeleteObjectInternal
  <1>2. /\ Head(job.queue) \in Steps /\ Head(job.queue) \in Names
        /\ Tail(job.queue) \in Seq(Steps)
        /\ file = None /\ up /\ Fit(Head(job.queue), None, saves)
    BY <1>1, RemovingIs
  <1>3. job \in JobType
    BY DEF FilesInv, Types
  <1>4. /\ job' \in JobType /\ job'.op = "remove" /\ job'.target = job.target
        /\ job'.kind = job.kind /\ job'.save = job.save
    <2> DEFINE q == Tail(job.queue)
    <2>1. job' = [job EXCEPT !.queue = q] /\ q \in Seq(Steps)
      BY <1>1, <1>2
    <2> HIDE DEF q
    <2> QED
      BY <1>1, <1>3, <2>1 DEF JobType
  <1>5. Types'
    BY <1>1, <1>2, <1>4 DEF FilesInv, Types
  <1>6. JobOK'
    BY <1>1, <1>2, <1>4 DEF FilesInv, JobOK
  <1>7. FileOK' /\ Held'
    BY <1>1, <1>2, <1>4 DEF FileOK, Held
  <1>8. Objects'
    BY <1>1, <1>2, PutFits DEF FilesInv
  <1> QED
    BY <1>5, <1>6, <1>7, <1>8 DEF FilesInv

LEMMA RemoveCheckpointFailsKeepsFiles ==
  ASSUME FilesInv, RemoveCheckpointFails
  PROVE  FilesInv'
  <1>1. /\ job.op = "remove" /\ job.queue # <<>> /\ Fault
        /\ \/ /\ objects' = [objects EXCEPT ![Head(job.queue)] = None]
              /\ dropped' = dropped \cup {Head(job.queue)}
           \/ objects' = objects /\ dropped' = dropped
        /\ job' = Idle /\ orphans' = orphans \cup Range(job.queue)
        /\ file' = file /\ state' = state /\ up' = up /\ step' = step
        /\ fresh' = fresh /\ saves' = saves /\ crashes' = crashes
        /\ interrupted' = interrupted /\ exposed' = exposed
    BY DEF RemoveCheckpointFails, DeleteObjectInternal
  <1>2. /\ Head(job.queue) \in Steps /\ Head(job.queue) \in Names
        /\ Range(job.queue) \subseteq Steps
        /\ file = None /\ Fit(Head(job.queue), None, saves)
    BY <1>1, RemovingIs
  <1>3. JobOK' /\ FileOK' /\ Held' /\ job' \in JobType
    BY <1>1, <1>2, IdleKeeps
  <1>4. faults' \in 0 .. MaxFaults
    BY <1>1, FaultsGrow DEF FilesInv
  <1>5. dropped' \subseteq Steps /\ orphans' \subseteq Steps
    BY <1>1, <1>2 DEF FilesInv, Types
  <1>6. Types'
    BY <1>1, <1>2, <1>3, <1>4, <1>5 DEF FilesInv, Types
  <1>7. Objects'
    <2>1. CASE objects' = [objects EXCEPT ![Head(job.queue)] = None]
      BY <1>1, <1>2, <2>1, PutFits DEF FilesInv
    <2>2. CASE objects' = objects
      BY <1>1, <2>2 DEF FilesInv, Objects
    <2> QED
      BY <1>1, <2>1, <2>2
  <1> QED
    BY <1>3, <1>6, <1>7 DEF FilesInv

LEMMA AllRemovedKeepsFiles ==
  ASSUME FilesInv, AllRemoved
  PROVE  FilesInv'
  <1>1. /\ job.op = "remove" /\ UpdateCheckpointStateExt(state)
        /\ objects' = objects /\ faults' = faults /\ state' = state /\ up' = up /\ step' = step
        /\ fresh' = fresh /\ saves' = saves /\ crashes' = crashes /\ orphans' = orphans
        /\ dropped' = dropped /\ interrupted' = interrupted /\ exposed' = exposed
    BY DEF AllRemoved, ghosts
  <1>2. up /\ state \in Lists /\ SavedBy(state, saves)
    BY <1>1, IdleIs DEF FilesInv, JobOK, Types
  <1>3. UpdateCheckpointStateExt(state')
    BY <1>1
  <1>4. /\ JobOK' /\ FileOK' /\ Held' /\ Objects' /\ job' \in JobType /\ file' \in FileType
    BY <1>1, <1>2, <1>3, ListWritten DEF FilesInv, Types
  <1>5. Types'
    BY <1>1, <1>4 DEF FilesInv, Types
  <1> QED
    BY <1>4, <1>5 DEF FilesInv

LEMMA DeleteSpecifiedKeepsFiles ==
  ASSUME FilesInv, NEW f \in Steps, DeleteSpecifiedHistoryVersion(f)
  PROVE  FilesInv'
  <1>1. /\ CanDrop(f) /\ state' = DropVersion(state, f) /\ UpdateCheckpointStateExt(state')
        /\ orphans' = orphans \cup OfVersion(state, f)
        /\ objects' = objects /\ faults' = faults /\ up' = up /\ step' = step
        /\ fresh' = fresh /\ saves' = saves /\ crashes' = crashes
        /\ dropped' = dropped /\ interrupted' = interrupted /\ exposed' = exposed
    BY DEF DeleteSpecifiedHistoryVersion
  <1>2. /\ up /\ state' \in Lists /\ SavedBy(state', saves) /\ OfVersion(state, f) \subseteq Steps
    BY <1>1, ToDropIs
  <1>3. /\ JobOK' /\ FileOK' /\ Held' /\ Objects' /\ job' \in JobType /\ file' \in FileType
    BY <1>1, <1>2, ListWritten DEF FilesInv, Types
  <1>4. Types'
    BY <1>1, <1>2, <1>3 DEF FilesInv, Types
  <1> QED
    BY <1>3, <1>4 DEF FilesInv

LEMMA CrashKeepsFiles ==
  ASSUME FilesInv, Crash
  PROVE  FilesInv'
  <1>1. /\ crashes < MaxCrashes /\ crashes' = crashes + 1 /\ up' = FALSE /\ state' = None
        /\ file' = None /\ job' = Idle
        /\ objects' = objects /\ faults' = faults /\ step' = step
        /\ fresh' = fresh /\ saves' = saves /\ orphans' = orphans
        /\ dropped' = dropped /\ interrupted' = interrupted /\ exposed' = exposed
    BY DEF Crash, ghosts
  <1>2. crashes' \in 0 .. MaxCrashes
    BY <1>1, CheckpointsAssumption DEF FilesInv, Types
  <1>3. Types'
    BY <1>1, <1>2, IdleIs DEF FilesInv, Types
  <1>4. JobOK'
    BY <1>1, IdleIs, NamesAre DEF JobOK
  <1>5. FileOK' /\ Held'
    BY <1>1, IdleIs DEF FileOK, Held
  <1>6. Objects'
    BY <1>1 DEF FilesInv, Objects
  <1> QED
    BY <1>3, <1>4, <1>5, <1>6 DEF FilesInv

\* What checkpoint_ext holds.
LEMMA DurableIs ==
  ASSUME FilesInv
  PROVE  /\ Durable \in Lists \cup {None}
         /\ objects[StateFile] # None => /\ Durable \in Lists /\ Durable # None
                                         /\ objects[StateFile] = <<Durable>>
         /\ Durable # None => Durable \in Lists /\ SavedBy(Durable, saves)
  <1>1. objects[StateFile] # None => OfList(objects[StateFile], saves)
    BY NamesAre DEF FilesInv, Objects, Fit
  <1>2. CASE objects[StateFile] # None
    <2>1. PICK s \in Lists : objects[StateFile] = <<s>> /\ SavedBy(s, saves)
      BY <1>1, <1>2 DEF OfList
    <2> QED
      BY <1>2, <2>1, NotNone DEF Durable
  <1>3. CASE objects[StateFile] = None
    BY <1>3 DEF Durable
  <1> QED
    BY <1>2, <1>3

LEMMA LatestIs ==
  ASSUME NEW s \in Lists
  PROVE  LatestCheckpoint(s) \in Steps /\ LatestCheckpoint(s) \in Current(s)
  <1>1. s.full \in Steps /\ s.deltas \in Seq(Steps)
    BY ListIs
  <1>2. CASE s.deltas = <<>>
    BY <1>1, <1>2 DEF LatestCheckpoint, Current
  <1>3. CASE s.deltas # <<>>
    <2>1. Len(s.deltas) \in 1 .. Len(s.deltas) /\ DOMAIN s.deltas = 1 .. Len(s.deltas)
      BY <1>1, <1>3, EmptySeq, LenProperties
    <2>2. s.deltas[Len(s.deltas)] \in Steps
      BY <1>1, <2>1, ElementOfSeq
    <2> QED
      BY <1>3, <2>1, <2>2 DEF LatestCheckpoint, Current, Last, Range
  <1> QED
    BY <1>2, <1>3

LEMMA LoadKeepsFiles ==
  ASSUME FilesInv, Load
  PROVE  FilesInv'
  <1>1. ~up /\ (faults' = faults \/ Fault)
    BY DEF Load
  <1>2. PICK s \in {Durable, None} : Restart(s)
    BY DEF Load
  <1>3. /\ up' = TRUE /\ state' = s
        /\ step' = IF s = None THEN 0 ELSE LatestCheckpoint(s)
        /\ fresh' = TRUE
        /\ orphans' = orphans \cup {c \in Steps : objects[c] # None /\ c \notin Listed(s)}
        /\ interrupted' = interrupted \cup (dropped \cap Listed(s))
        /\ objects' = objects /\ file' = file /\ job' = job /\ saves' = saves
        /\ crashes' = crashes /\ dropped' = dropped /\ exposed' = exposed
    BY <1>2 DEF Restart
  <1>4. job = Idle /\ file = None
    BY <1>1, IdleIs DEF FilesInv, JobOK
  <1>5. s \in Lists \cup {None} /\ (s # None => SavedBy(s, saves))
    BY <1>2, DurableIs
  <1>6. step' \in 0 .. MaxStep
    <2>1. MaxStep \in Nat
      BY CheckpointsAssumption
    <2> QED
      BY <1>3, <1>5, <2>1, LatestIs DEF Steps
  <1>7. faults' \in 0 .. MaxFaults
    BY <1>1, FaultsGrow DEF FilesInv, Types
  <1>8. orphans' \subseteq Steps /\ interrupted' \subseteq Steps
    BY <1>3 DEF FilesInv, Types
  <1>9. Types'
    BY <1>3, <1>5, <1>6, <1>7, <1>8 DEF FilesInv, Types
  <1>10. JobOK'
    BY <1>3, <1>4, <1>5, IdleIs, NamesAre DEF JobOK
  <1>11. FileOK' /\ Held'
    BY <1>3, <1>4, IdleIs DEF FileOK, Held
  <1>12. Objects'
    BY <1>3 DEF FilesInv, Objects
  <1> QED
    BY <1>9, <1>10, <1>11, <1>12 DEF FilesInv

\* What another process does, and what changes nothing.
LEMMA OthersKeepFiles ==
  ASSUME FilesInv, objects' = objects, file' = file, UNCHANGED saver, faults' = faults \/ Fault
  PROVE  FilesInv'
  <1>1. /\ state' = state /\ job' = job /\ up' = up /\ step' = step /\ fresh' = fresh
        /\ saves' = saves /\ crashes' = crashes /\ orphans' = orphans
        /\ dropped' = dropped /\ interrupted' = interrupted /\ exposed' = exposed
    BY DEF saver, ghosts
  <1>2. faults' \in 0 .. MaxFaults
    BY FaultsGrow DEF FilesInv, Types
  <1>3. Types'
    BY <1>1, <1>2 DEF FilesInv, Types
  <1>4. JobOK' /\ FileOK'
    BY <1>1 DEF FilesInv, JobOK, FileOK
  <1>5. Held' /\ Objects'
    BY <1>1 DEF FilesInv, Held, Objects
  <1> QED
    BY <1>3, <1>4, <1>5 DEF FilesInv

LEMMA ReaderChangesNoFile ==
  ASSUME ReaderNext
  PROVE  objects' = objects /\ file' = file /\ UNCHANGED saver /\ (faults' = faults \/ Fault)
  BY DEF ReaderNext, NewRandomAccessFile, ReadFile, Read, CloseReader

LEMMA FilesKept ==
  ASSUME FilesInv, [Next]_vars
  PROVE  FilesInv'
  <1>1. CASE UNCHANGED vars
    BY <1>1, OthersKeepFiles DEF vars
  <1>2. CASE ReaderNext
    BY <1>2, ReaderChangesNoFile, OthersKeepFiles
  <1>3. CASE LoadInvalid
    BY <1>3, OthersKeepFiles DEF LoadInvalid
  <1>4. CASE Save("full") \/ Save("delta")
    BY <1>4, SaveKeepsFiles
  <1>5. CASE WriteFile \/ CloseFile \/ CloseFileFails \/ GiveUp
    BY <1>5, WriteFileKeepsFiles, CloseFileKeepsFiles, CloseFileFailsKeepsFiles, GiveUpKeepsFiles
  <1>6. CASE RenameCopy \/ RenameDelete \/ RenameFails \/ Record
    BY <1>6, RenameCopyKeepsFiles, RenameDeleteKeepsFiles, RenameFailsKeepsFiles,
       RecordKeepsFiles
  <1>7. CASE \E f \in Steps : RemoveOldCheckpoint(f) \/ DeleteSpecifiedHistoryVersion(f)
    BY <1>7, RemoveOldCheckpointKeepsFiles, DeleteSpecifiedKeepsFiles
  <1>8. CASE RemoveCheckpoint \/ RemoveCheckpointFails \/ AllRemoved
    BY <1>8, RemoveCheckpointKeepsFiles, RemoveCheckpointFailsKeepsFiles, AllRemovedKeepsFiles
  <1>9. CASE Crash \/ Load
    BY <1>9, CrashKeepsFiles, LoadKeepsFiles
  <1> QED
    BY <1>1, <1>2, <1>3, <1>4, <1>5, <1>6, <1>7, <1>8, <1>9 DEF Next, SaverNext

LEMMA FilesBegin ==
  ASSUME Init
  PROVE  FilesInv
  <1>1. /\ objects = [n \in Names |-> None] /\ file = None /\ faults = 0 /\ state = None
        /\ job = Idle /\ up = TRUE /\ step = 0 /\ fresh = TRUE /\ saves = 0 /\ crashes = 0
        /\ orphans = {} /\ dropped = {} /\ interrupted = {} /\ exposed = {}
    BY DEF Init
  <1>2. Types
    <2>1. Len(Chunks) \in Nat /\ MaxStep \in Nat /\ MaxCrashes \in Nat /\ MaxFaults \in Nat
      BY CheckpointsAssumption, FilesAssumption, LenIs
    <2> QED
      BY <1>1, <2>1, IdleIs DEF Types
  <1>3. JobOK /\ FileOK /\ Held
    BY <1>1, IdleIs, NamesAre DEF JobOK, FileOK, Held
  <1>4. Objects
    BY <1>1 DEF Objects, Fit
  <1> QED
    BY <1>2, <1>3, <1>4 DEF FilesInv

-----------------------------------------------------------------------------
(* The steps, as the list and the objects see them.                        *)

Real == Steps \cup {StateFile}

SavesOf(s) == {s.log[i].save : i \in DOMAIN s.log}

\* The steps of the saver as a list and its files see them: nothing happens ...
Quiet ==
  /\ \A n \in Real : objects'[n] = objects[n]
  /\ UNCHANGED <<state, up, step, fresh, saves, ghosts>>
  /\ job'.target = job.target /\ job'.queue = job.queue /\ job'.save = job.save
  /\ job'.op = "remove" <=> job.op = "remove"

\* ... a call ends ...
Ended ==
  /\ \A n \in Real : objects'[n] = objects[n]
  /\ UNCHANGED <<state, up, step, fresh, saves, dropped, interrupted, exposed>>
  /\ job' = Idle
  /\ \/ acked' = acked
     \/ job.op = "unlink" /\ job.target = StateFile /\ acked' = SavesOf(state)
  /\ orphans \cup Range(job.queue) \cup ({job.target} \cap Steps) \subseteq orphans'

\* ... an object is put in place ...
PutInPlace ==
  /\ job.op \in {"rename", "unlink"}
  /\ objects'[job.target] = Whole(Data(job, state))
  /\ \A n \in Real \ {job.target} : objects'[n] = objects[n]
  /\ UNCHANGED <<state, up, step, fresh, saves, acked, interrupted, exposed>>
  /\ dropped' = dropped \ {job.target}
  /\ \/ /\ job'.target = job.target /\ job'.queue = job.queue /\ job'.save = job.save
        /\ job'.op = "unlink"
        /\ orphans' = orphans
     \/ /\ job' = Idle
        /\ orphans' = orphans \cup ({job.target} \cap Steps)

\* ... or one is deleted.
Deleted ==
  /\ job.op = "remove" /\ job.queue # <<>>
  /\ objects'[Head(job.queue)] = None
  /\ \A n \in Real \ {Head(job.queue)} : objects'[n] = objects[n]
  /\ dropped' = dropped \cup {Head(job.queue)}
  /\ UNCHANGED <<state, up, step, fresh, saves, acked, interrupted, exposed>>
  /\ \/ /\ job'.queue = Tail(job.queue) /\ job'.op = "remove" /\ job'.target = job.target
        /\ job'.save = job.save
        /\ orphans' = orphans
     \/ /\ job' = Idle
        /\ orphans' = orphans \cup Range(job.queue)

Recorded == Record /\ ~(job.kind = "delta" /\ state = None)

Steppings ==
  \/ Quiet
  \/ Ended
  \/ PutInPlace
  \/ Deleted
  \/ \E kind \in {"full", "delta"} : Save(kind)
  \/ Recorded
  \/ \E f \in Steps : RemoveOldCheckpoint(f)
  \/ AllRemoved
  \/ \E f \in Steps : DeleteSpecifiedHistoryVersion(f)
  \/ Crash
  \/ Load

LEMMA TempIsNotReal ==
  ASSUME Objects, NEW t \in Real, NEW o, objects' = [objects EXCEPT ![Temp[t]] = o]
  PROVE  \A n \in Real : objects'[n] = objects[n]
  BY NamesAre DEF Objects, Real

LEMMA RealAre == Real \subseteq Names
  BY NamesAre DEF Real

LEMMA WritingIsQuiet ==
  ASSUME FilesInv, WriteFile \/ CloseFile \/ CloseFileFails
  PROVE  Quiet
  <1>1. UNCHANGED <<state, up, step, fresh, saves, ghosts>>
    BY DEF WriteFile, CloseFile, CloseFileFails, saver
  <1>2. \A n \in Real : objects'[n] = objects[n]
    <2>1. CASE objects' = objects
      BY <2>1
    <2>2. CASE /\ CanClose
               /\ objects' = [objects EXCEPT ![FlushInternal(file).name] =
                                CompleteMultipartUpload(FlushInternal(file).parts)]
      <3>1. file # None /\ file.left = <<>>
        BY <2>2 DEF CanClose
      <3>2. /\ file \in FileType /\ file.name = Temp[job.target]
            /\ job.target \in Real
        BY <3>1, FileIs DEF Real
      <3>3. FlushInternal(file).name = file.name
        BY <3>2 DEF FlushInternal, FileType
      <3>4. objects' = [objects EXCEPT ![Temp[job.target]] =
                          CompleteMultipartUpload(FlushInternal(file).parts)]
        BY <2>2, <3>2, <3>3
      <3> QED
        BY <3>2, <3>4, TempIsNotReal DEF FilesInv
    <2> QED
      BY <2>1, <2>2 DEF WriteFile, AppendChunk, CloseFile, Close, CloseFileFails, CloseFails
  <1>3. /\ job'.target = job.target /\ job'.queue = job.queue /\ job'.save = job.save
        /\ job'.op = "remove" <=> job.op = "remove"
    <2>1. CASE CloseFile
      <3>1. job \in JobType /\ job.op = "write"
        BY <2>1, FileIs DEF CloseFile, Close, CanClose, FilesInv, Types
      <3> QED
        BY <2>1, <3>1 DEF CloseFile, JobType
    <2>2. CASE WriteFile \/ CloseFileFails
      BY <2>2 DEF WriteFile, CloseFileFails, saver
    <2> QED
      BY <2>1, <2>2
  <1> QED
    BY <1>1, <1>2, <1>3 DEF Quiet

LEMMA RenameDeleteIs ==
  ASSUME FilesInv, RenameDelete
  PROVE  Quiet \/ Ended
  <1>1. /\ job.op = "unlink"
        /\ objects' = [objects EXCEPT ![Temp[job.target]] = None]
        /\ UNCHANGED <<state, up, step, fresh, saves, orphans, dropped, interrupted, exposed>>
    BY DEF RenameDelete, DeleteObjectInternal
  <1>2. job.target \in Real /\ job.queue = <<>> /\ job \in JobType
    BY <1>1, DataIs DEF FilesInv, JobOK, Real, Types
  <1>3. \A n \in Real : objects'[n] = objects[n]
    BY <1>1, <1>2, TempIsNotReal DEF FilesInv
  <1>4. CASE job.target = StateFile
    <2>1. job' = Idle /\ acked' = SavesOf(state)
      BY <1>4 DEF RenameDelete, SavesOf
    <2>2. Range(job.queue) = {} /\ {job.target} \cap Steps = {}
      BY <1>2, <1>4, NamesAre DEF Range
    <2> QED
      BY <1>1, <1>3, <1>4, <2>1, <2>2 DEF Ended
  <1>5. CASE job.target # StateFile
    <2>1. job' = [job EXCEPT !.op = "record"] /\ acked' = acked
      BY <1>5 DEF RenameDelete
    <2>2. /\ job'.target = job.target /\ job'.queue = job.queue /\ job'.save = job.save
          /\ job'.op = "record"
      BY <1>2, <2>1 DEF JobType
    <2> QED
      BY <1>1, <1>3, <2>1, <2>2 DEF Quiet, ghosts
  <1> QED
    BY <1>4, <1>5

LEMMA RenameFailsIs ==
  ASSUME FilesInv, RenameFails
  PROVE  Ended \/ PutInPlace
  <1> DEFINE t == job.target
             temp == Temp[t]
             copied == IF job.op = "rename"
                       THEN {objects[t], RenameFileInternal(objects[temp])}
                       ELSE {objects[t]}
  <1>1. /\ job.op \in {"rename", "unlink"}
        /\ \E c \in copied : \E l : objects' = [objects EXCEPT ![t] = c, ![temp] = l]
        /\ job' = Idle
        /\ orphans' = orphans \cup ({t} \cap Steps)
        /\ dropped' = IF objects'[t] = objects[t] THEN dropped ELSE dropped \ {t}
        /\ UNCHANGED <<state, up, step, fresh, saves, acked, interrupted, exposed>>
    BY DEF RenameFails
  <1>2. t \in Real /\ job.queue = <<>>
    BY <1>1, DataIs DEF FilesInv, JobOK, Real
  <1>3. PICK c \in copied : \E l : objects' = [objects EXCEPT ![t] = c, ![temp] = l]
    BY <1>1
  <1>4. objects'[t] = c /\ \A n \in Real \ {t} : objects'[n] = objects[n]
    BY <1>2, <1>3, NamesAre DEF FilesInv, Objects, Real
  <1>5. CASE objects'[t] = objects[t]
    <2>1. Range(job.queue) = {}
      BY <1>2 DEF Range
    <2>2. \A n \in Real : objects'[n] = objects[n]
      BY <1>4, <1>5
    <2> QED
      BY <1>1, <1>5, <2>1, <2>2 DEF Ended
  <1>6. CASE objects'[t] # objects[t]
    <2>1. job.op = "rename" /\ c = RenameFileInternal(objects[temp])
      BY <1>3, <1>4, <1>6
    <2>2. objects'[t] = Whole(Data(job, state))
      BY <1>4, <2>1, CopyIs
    <2> QED
      BY <1>1, <1>4, <1>6, <2>2 DEF PutInPlace
  <1> QED
    BY <1>5, <1>6

LEMMA RenameCopyIs ==
  ASSUME FilesInv, RenameCopy
  PROVE  PutInPlace
  <1>1. /\ job.op = "rename"
        /\ objects' = [objects EXCEPT ![job.target] =
                         RenameFileInternal(objects[Temp[job.target]])]
        /\ dropped' = dropped \ {job.target} /\ job' = [job EXCEPT !.op = "unlink"]
        /\ UNCHANGED <<state, up, step, fresh, saves, acked, orphans, interrupted, exposed>>
    BY DEF RenameCopy, Placed, CopyObject
  <1>2. /\ job.target \in Names
        /\ RenameFileInternal(objects[Temp[job.target]]) = Whole(Data(job, state))
    BY <1>1, CopyIs
  <1>3. /\ objects'[job.target] = Whole(Data(job, state))
        /\ \A n \in Real \ {job.target} : objects'[n] = objects[n]
    BY <1>1, <1>2, RealAre DEF FilesInv, Objects
  <1>4. /\ job'.target = job.target /\ job'.queue = job.queue /\ job'.save = job.save
        /\ job'.op = "unlink"
    BY <1>1 DEF FilesInv, Types, JobType
  <1> QED
    BY <1>1, <1>3, <1>4 DEF PutInPlace

LEMMA RemovalIs ==
  ASSUME FilesInv, RemoveCheckpoint \/ RemoveCheckpointFails
  PROVE  Deleted \/ Ended
  <1>1. /\ job.op = "remove" /\ job.queue # <<>>
        /\ UNCHANGED <<state, up, step, fresh, saves, acked, interrupted, exposed>>
    BY DEF RemoveCheckpoint, RemoveCheckpointFails
  <1>2. /\ Head(job.queue) \in Names
    BY <1>1, RemovingIs
  <1>3. job.target = None /\ job.target \notin Steps /\ job \in JobType
    BY <1>1, NamesAre DEF FilesInv, JobOK, Types
  <1>4. CASE /\ objects' = [objects EXCEPT ![Head(job.queue)] = None]
             /\ dropped' = dropped \cup {Head(job.queue)}
    <2>1. /\ objects'[Head(job.queue)] = None
          /\ \A n \in Real \ {Head(job.queue)} : objects'[n] = objects[n]
      BY <1>2, <1>4, RealAre DEF FilesInv, Objects
    <2>2. \/ /\ job'.queue = Tail(job.queue) /\ job'.op = "remove" /\ job'.target = job.target
             /\ job'.save = job.save
             /\ orphans' = orphans
          \/ /\ job' = Idle
             /\ orphans' = orphans \cup Range(job.queue)
      <3>1. CASE RemoveCheckpointFails
        BY <3>1 DEF RemoveCheckpointFails
      <3>2. CASE RemoveCheckpoint
        <4>1. job' = [job EXCEPT !.queue = Tail(job.queue)] /\ orphans' = orphans
          BY <3>2 DEF RemoveCheckpoint
        <4> QED
          BY <4>1, <1>1, <1>3 DEF JobType
      <3> QED
        BY <3>1, <3>2
    <2> QED
      BY <1>1, <1>4, <2>1, <2>2 DEF Deleted
  <1>5. CASE RemoveCheckpointFails /\ objects' = objects /\ dropped' = dropped
    <2>1. job' = Idle /\ orphans' = orphans \cup Range(job.queue)
      BY <1>5 DEF RemoveCheckpointFails
    <2>2. {job.target} \cap Steps = {}
      BY <1>3
    <2> QED
      BY <1>1, <1>5, <2>1, <2>2 DEF Ended
  <1> QED
    BY <1>4, <1>5 DEF RemoveCheckpoint, RemoveCheckpointFails, DeleteObjectInternal

LEMMA EveryStep ==
  ASSUME FilesInv, [Next]_vars
  PROVE  Steppings
  <1>1. CASE ReaderNext \/ LoadInvalid \/ UNCHANGED vars
    <2>1. objects' = objects /\ UNCHANGED saver
      BY <1>1, ReaderChangesNoFile DEF LoadInvalid, vars
    <2>2. Quiet
      BY <2>1 DEF Quiet, saver
    <2> QED
      BY <2>2 DEF Steppings
  <1>2. CASE GiveUp
    <2>1. /\ objects' = objects /\ job' = Idle /\ acked' = acked
          /\ UNCHANGED <<state, up, step, fresh, saves, dropped, interrupted, exposed>>
          /\ orphans' = orphans \cup Range(job.queue) \cup ({job.target} \cap Steps)
      BY <1>2 DEF GiveUp, Raise
    <2>2. Ended
      BY <2>1 DEF Ended
    <2> QED
      BY <2>2 DEF Steppings
  <1>3. CASE Record
    <2>1. CASE job.kind = "delta" /\ state = None
      <3>1. /\ objects' = objects /\ job' = Idle /\ acked' = acked
            /\ UNCHANGED <<state, up, step, fresh, saves, dropped, interrupted, exposed>>
            /\ orphans' = orphans \cup Range(job.queue) \cup ({job.target} \cap Steps)
        BY <1>3, <2>1 DEF Record, Raise
      <3>2. Ended
        BY <3>1 DEF Ended
      <3> QED
        BY <3>2 DEF Steppings
    <2>2. CASE ~(job.kind = "delta" /\ state = None)
      BY <1>3, <2>2 DEF Steppings, Recorded
    <2> QED
      BY <2>1, <2>2
  <1>4. CASE WriteFile \/ CloseFile \/ CloseFileFails
    BY <1>4, WritingIsQuiet DEF Steppings
  <1>5. CASE RenameCopy \/ RenameDelete \/ RenameFails
    BY <1>5, RenameCopyIs, RenameDeleteIs, RenameFailsIs DEF Steppings
  <1>6. CASE RemoveCheckpoint \/ RemoveCheckpointFails
    BY <1>6, RemovalIs DEF Steppings
  <1>7. CASE \/ Save("full") \/ Save("delta") \/ \E f \in Steps : RemoveOldCheckpoint(f)
             \/ AllRemoved \/ \E f \in Steps : DeleteSpecifiedHistoryVersion(f)
             \/ Crash \/ Load
    BY <1>7 DEF Steppings
  <1> QED
    BY <1>1, <1>2, <1>3, <1>4, <1>5, <1>6, <1>7 DEF Next, SaverNext

-----------------------------------------------------------------------------
(* NothingOrphaned.                                                        *)

Known == UNION {Listed(state), {job.target}, Range(job.queue), orphans}

LEMMA KnownIs ==
  ASSUME FilesInv
  PROVE  NothingOrphaned <=> (up => \A c \in Steps : objects[c] # None => c \in Known)
  BY DEF NothingOrphaned, Known

LEMMA ListedAfterFull ==
  ASSUME NEW s \in Lists, Recordable(job), NEW name \in Steps
  PROVE  /\ Listed(s) \cup {name} \subseteq Listed(UpdateLatestFullCheckpoint(s, name))
         /\ Listed(s) \cup {name} \subseteq Listed(AddDeltaCheckpoint(s, name))
  <1>1. /\ s.full \in Steps /\ s.deltas \in Seq(Steps) /\ s.history_versions \in Histories
    BY ListIs
  <1>2. Listed(s) = Current(s) \cup History(s)
    BY NotNone DEF Listed
  <1>3. Listed(s) \cup {name} \subseteq Listed(UpdateLatestFullCheckpoint(s, name))
    <2> DEFINE t == UpdateLatestFullCheckpoint(s, name)
               g == GetDeltas(s, s.full)
               h == s.history_versions
    <2>1. /\ t \in Lists /\ t.full = name /\ g \in Seq(Steps)
          /\ t.history_versions = Entered(h, s.full, g \o s.deltas)
      BY FullIs
    <2> HIDE DEF t
    <2>2. Listed(t) = Current(t) \cup History(t)
      BY <2>1, NotNone DEF Listed
    <2>3. name \in Current(t)
      BY <2>1 DEF Current
    <2>4. DOMAIN t.history_versions = DOMAIN h \cup {s.full}
      BY <2>1 DEF Entered
    <2>5. Range(g \o s.deltas) = Range(g) \cup Range(s.deltas)
      BY <1>1, <2>1, RangeConcatenation
    <2>6. OfVersion(t, s.full) = {s.full} \cup Range(g) \cup Range(s.deltas)
      BY <2>1, <2>5 DEF OfVersion, Entered
    <2>7. Current(s) \subseteq OfVersion(t, s.full)
      BY <2>6 DEF Current
    <2>8. ASSUME NEW f \in DOMAIN h PROVE OfVersion(s, f) \subseteq OfVersion(t, f)
      <3>1. CASE f = s.full
        <4>1. g = h[f]
          BY <3>1, <2>8 DEF GetDeltas
        <4> QED
          BY <3>1, <4>1, <2>6 DEF OfVersion
      <3>2. CASE f # s.full
        <4>1. t.history_versions[f] = h[f]
          BY <3>2, <2>1, <2>8 DEF Entered
        <4> QED
          BY <4>1 DEF OfVersion
      <3> QED
        BY <3>1, <3>2
    <2>9. History(s) \subseteq History(t) /\ Current(s) \subseteq History(t)
      BY <2>4, <2>7, <2>8 DEF History
    <2> QED
      BY <1>2, <2>2, <2>3, <2>9 DEF t
  <1>4. Listed(s) \cup {name} \subseteq Listed(AddDeltaCheckpoint(s, name))
    <2> DEFINE t == AddDeltaCheckpoint(s, name)
    <2>1. /\ t \in Lists /\ t.full = s.full /\ t.deltas = Append(s.deltas, name)
          /\ t.history_versions = s.history_versions
      BY DeltaIs
    <2> HIDE DEF t
    <2>2. Listed(t) = Current(t) \cup History(t)
      BY <2>1, NotNone DEF Listed
    <2>3. Range(t.deltas) = Range(s.deltas) \cup {name}
      <3>1. t.deltas = s.deltas \o <<name>> /\ <<name>> \in Seq(Steps)
        BY <1>1, <2>1, AppendIsConcat
      <3>2. Range(<<name>>) = {name}
        BY DEF Range
      <3>3. Range(s.deltas \o <<name>>) = Range(s.deltas) \cup Range(<<name>>)
        BY <1>1, <3>1, RangeConcatenation, ZenonT(30)
      <3> QED
        BY <3>1, <3>2, <3>3
    <2>4. History(t) = History(s)
      BY <2>1 DEF History, OfVersion
    <2> QED
      BY <1>2, <2>1, <2>2, <2>3, <2>4 DEF Current, t
  <1> QED
    BY <1>3, <1>4

LEMMA ListedAfterDrop ==
  ASSUME NEW s \in Lists, NEW f \in Steps, f \in DOMAIN s.history_versions
  PROVE  /\ Listed(s) \subseteq Listed(DropVersion(s, f)) \cup OfVersion(s, f)
         /\ Listed(DropVersion(s, f)) \subseteq Listed(s)
         /\ Current(DropVersion(s, f)) = Current(s)
  <1> DEFINE t == DropVersion(s, f)
  <1>1. /\ t \in Lists /\ t.full = s.full /\ t.deltas = s.deltas
        /\ t.history_versions = [g \in DOMAIN s.history_versions \ {f} |->
                                   s.history_versions[g]]
    BY DropIs
  <1> HIDE DEF t
  <1>2. Listed(s) = Current(s) \cup History(s) /\ Listed(t) = Current(t) \cup History(t)
    BY <1>1, NotNone DEF Listed
  <1>3. Current(t) = Current(s)
    BY <1>1 DEF Current
  <1>4. DOMAIN t.history_versions = DOMAIN s.history_versions \ {f}
    BY <1>1
  <1>5. \A g \in DOMAIN t.history_versions : OfVersion(t, g) = OfVersion(s, g)
    BY <1>1 DEF OfVersion
  <1>6. History(s) \subseteq History(t) \cup OfVersion(s, f) /\ History(t) \subseteq History(s)
    BY <1>4, <1>5 DEF History
  <1> QED
    BY <1>2, <1>3, <1>6 DEF t

LEMMA OrphansKept ==
  ASSUME FilesInv, NothingOrphaned, [Next]_vars
  PROVE  NothingOrphaned'
  <1> DEFINE Found == \A c \in Steps : objects'[c] # None => c \in Known'
  <1>1. NothingOrphaned' <=> (up' => Found)
    BY FilesKept DEF NothingOrphaned, Known
  <1>2. NothingOrphaned <=> (up => \A c \in Steps : objects[c] # None => c \in Known)
    BY KnownIs
  <1>3. Steps \subseteq Real
    BY DEF Real
  <1> SUFFICES ASSUME up' PROVE Found
    BY <1>1
  <1>4. CASE Quiet
    BY <1>4, <1>2, <1>3 DEF Quiet, Known, ghosts
  <1>5. CASE Ended
    BY <1>5, <1>2, <1>3 DEF Ended, Known
  <1>6. CASE PutInPlace
    <2>1. job.queue = <<>>
      BY <1>6 DEF PutInPlace, FilesInv, JobOK
    <2>2. Range(job.queue) = {}
      BY <2>1 DEF Range
    <2>3. state' = state /\ up' = up /\ orphans \subseteq orphans'
          /\ {job.target} \cap Steps \subseteq {job'.target} \cup orphans'
          /\ \A n \in Real \ {job.target} : objects'[n] = objects[n]
      BY <1>6 DEF PutInPlace
    <2> QED
      BY <1>2, <1>3, <2>2, <2>3 DEF Known
  <1>7. CASE Deleted
    <2>1. Range(job.queue) = {Head(job.queue)} \cup Range(Tail(job.queue))
      BY <1>7, RemovingIs DEF Deleted
    <2>2. job.target = None
      BY <1>7 DEF Deleted, FilesInv, JobOK
    <2>3. /\ state' = state /\ up' = up /\ orphans \subseteq orphans'
          /\ Range(Tail(job.queue)) \subseteq Range(job'.queue) \cup orphans'
          /\ objects'[Head(job.queue)] = None
          /\ \A n \in Real \ {Head(job.queue)} : objects'[n] = objects[n]
      BY <1>7, <2>1 DEF Deleted
    <2> QED
      BY <1>2, <1>3, <2>1, <2>2, <2>3, NamesAre DEF Known
  <1>8. CASE \E kind \in {"full", "delta"} : Save(kind)
    <2>1. PICK kind \in {"full", "delta"} : Save(kind)
      BY <1>8
    <2>2. PICK name \in Steps :
            /\ job' = [op |-> "write", target |-> name, kind |-> kind, save |-> saves + 1,
                       queue |-> <<>>]
            /\ orphans' = orphans \ {name}
      BY <2>1 DEF Save
    <2>3. job = Idle /\ up /\ state' = state /\ objects' = objects
      BY <2>1 DEF Save
    <2>4. job.target = None /\ Range(job.queue) = {}
      BY <2>3, IdleIs DEF Range
    <2>5. job'.target = name
      BY <2>2
    <2> QED
      BY <1>2, <2>2, <2>3, <2>4, <2>5, NamesAre DEF Known
  <1>9. CASE Recorded
    <2>1. /\ job.op = "record" /\ ~(job.kind = "delta" /\ state = None)
          /\ objects' = objects /\ up' = up /\ orphans' = orphans
          /\ state' = IF job.kind = "full" THEN UpdateLatestFullCheckpoint(state, job.target)
                      ELSE AddDeltaCheckpoint(state, job.target)
      BY <1>9 DEF Recorded, Record, ghosts
    <2>2. Recordable(job) /\ job.target \in Steps /\ job.queue = <<>>
      BY <2>1, RecordIs
    <2>3. Range(job.queue) = {}
      BY <2>2 DEF Range
    <2>4. Listed(state) \cup {job.target} \subseteq Listed(state')
      <3>1. CASE state = None
        <4>1. job.kind = "full"
          BY <2>1, <2>2, <3>1 DEF Recordable
        <4> DEFINE t == UpdateLatestFullCheckpoint(None, job.target)
        <4>2. t \in Lists /\ t.full = job.target
          BY <2>2, FirstListIs
        <4>3. state' = t
          BY <2>1, <3>1, <4>1
        <4> HIDE DEF t
        <4> QED
          BY <3>1, <4>2, <4>3, NotNone DEF Listed, Current
      <3>2. CASE state # None
        <4>1. state \in Lists
          BY <3>2 DEF FilesInv, Types
        <4> QED
          BY <2>1, <2>2, <4>1, ListedAfterFull
      <3> QED
        BY <3>1, <3>2
    <2> QED
      BY <1>2, <2>1, <2>3, <2>4 DEF Known
  <1>10. CASE \E f \in Steps : RemoveOldCheckpoint(f)
    <2>1. PICK f \in Steps : RemoveOldCheckpoint(f)
      BY <1>10
    <2>2. /\ CanDrop(f) /\ state' = DropVersion(state, f) /\ objects' = objects
          /\ job' = [Idle EXCEPT !.op = "remove", !.queue = ToBeRemoved(state, f)]
          /\ orphans' = orphans
      BY <2>1 DEF RemoveOldCheckpoint
    <2>3. /\ up /\ job = Idle /\ state \in Lists /\ f \in DOMAIN state.history_versions
          /\ Range(ToBeRemoved(state, f)) = OfVersion(state, f)
      BY <2>2, ToDropIs DEF CanDrop
    <2>4. job'.queue = ToBeRemoved(state, f)
      BY <2>2 DEF Idle
    <2>5. job.target = None /\ Range(job.queue) = {}
      BY <2>3, IdleIs DEF Range
    <2>6. Listed(state) \subseteq Listed(state') \cup OfVersion(state, f)
      BY <2>2, <2>3, ListedAfterDrop
    <2> QED
      BY <1>2, <2>2, <2>3, <2>4, <2>5, <2>6, NamesAre DEF Known
  <1>11. CASE AllRemoved
    <2>1. /\ job.op = "remove" /\ job.queue = <<>> /\ state' = state /\ objects' = objects
          /\ up' = up /\ orphans' = orphans
      BY <1>11 DEF AllRemoved, ghosts
    <2>2. job.target = None /\ Range(job.queue) = {}
      BY <2>1 DEF FilesInv, JobOK, Range
    <2> QED
      BY <1>2, <2>1, <2>2, NamesAre DEF Known
  <1>12. CASE \E f \in Steps : DeleteSpecifiedHistoryVersion(f)
    <2>1. PICK f \in Steps : DeleteSpecifiedHistoryVersion(f)
      BY <1>12
    <2>2. /\ CanDrop(f) /\ state' = DropVersion(state, f) /\ objects' = objects
          /\ orphans' = orphans \cup OfVersion(state, f)
      BY <2>1 DEF DeleteSpecifiedHistoryVersion
    <2>3. /\ up /\ job = Idle /\ state \in Lists /\ f \in DOMAIN state.history_versions
      BY <2>2, ToDropIs DEF CanDrop
    <2>4. job.target = None /\ Range(job.queue) = {}
      BY <2>3, IdleIs DEF Range
    <2>5. Listed(state) \subseteq Listed(state') \cup OfVersion(state, f)
      BY <2>2, <2>3, ListedAfterDrop
    <2> QED
      BY <1>2, <2>2, <2>3, <2>4, <2>5, NamesAre DEF Known
  <1>13. CASE Crash
    BY <1>13 DEF Crash
  <1>14. CASE Load
    <2>1. PICK s : Restart(s)
      BY <1>14 DEF Load
    <2>2. /\ state' = s /\ objects' = objects
          /\ {c \in Steps : objects[c] # None /\ c \notin Listed(s)} \subseteq orphans'
      BY <2>1 DEF Restart
    <2> QED
      BY <2>2 DEF Known
  <1>15. Steppings
    BY EveryStep
  <1> QED
    BY <1>4, <1>5, <1>6, <1>7, <1>8, <1>9, <1>10, <1>11, <1>12, <1>13, <1>14, <1>15
       DEF Steppings

-----------------------------------------------------------------------------
(* What was recorded without an error.                                     *)

\* What was recorded is in checkpoint_ext and, while the saver runs, in the
\* list in memory.
AckedInv ==
  acked # {} => /\ Durable # None
                /\ acked \subseteq SavesOf(Durable)
                /\ up => state # None /\ acked \subseteq SavesOf(state)

\* What checkpoint_ext holds after a step.
LEMMA DurableNext ==
  ASSUME FilesInv
  PROVE  /\ objects'[StateFile] = objects[StateFile] => Durable' = Durable
         /\ PutInPlace => \/ job.target \in Steps /\ Durable' = Durable
                          \/ /\ job.target = StateFile /\ Durable' = state /\ state' = state
                             /\ state \in Lists /\ state # None
         /\ Deleted => Durable' = Durable
         /\ job.op = "unlink" /\ job.target = StateFile => Durable = state /\ state # None
  <1>1. objects'[StateFile] = objects[StateFile] => Durable' = Durable
    BY DEF Durable
  <1>2. ASSUME job.op \in {"rename", "unlink"}, job.target = StateFile
        PROVE  state \in Lists /\ state # None /\ Whole(Data(job, state)) = <<state>>
               /\ <<state>> # None
    <2>1. state \in Lists /\ state # None
      BY <1>2 DEF FilesInv, JobOK, Types
    <2>2. job.target # None
      BY <1>2, NamesAre
    <2> QED
      BY <1>2, <2>1, <2>2, DataIs, NotNone DEF FilesInv
  <1>3. PutInPlace => \/ job.target \in Steps /\ Durable' = Durable
                      \/ /\ job.target = StateFile /\ Durable' = state /\ state' = state
                         /\ state \in Lists /\ state # None
    <2> SUFFICES ASSUME PutInPlace
                 PROVE  \/ job.target \in Steps /\ Durable' = Durable
                        \/ /\ job.target = StateFile /\ Durable' = state /\ state' = state
                           /\ state \in Lists /\ state # None
      OBVIOUS
    <2>1. job.target \in Steps \cup {StateFile}
      BY DataIs DEF PutInPlace, FilesInv, JobOK
    <2>2. CASE job.target \in Steps
      <3>1. objects'[StateFile] = objects[StateFile]
        BY <2>2, NamesAre DEF PutInPlace, Real
      <3> QED
        BY <2>2, <3>1, <1>1
    <2>3. CASE job.target = StateFile
      <3>1. state \in Lists /\ state # None /\ Whole(Data(job, state)) = <<state>>
            /\ <<state>> # None
        BY <1>2, <2>3 DEF PutInPlace
      <3>2. objects'[StateFile] = <<state>> /\ state' = state
        BY <2>3, <3>1 DEF PutInPlace
      <3> QED
        BY <2>3, <3>1, <3>2 DEF Durable
    <2> QED
      BY <2>1, <2>2, <2>3
  <1>4. Deleted => Durable' = Durable
    <2> SUFFICES ASSUME Deleted PROVE objects'[StateFile] = objects[StateFile]
      BY <1>1
    <2>1. Head(job.queue) \in Steps
      BY RemovingIs DEF Deleted
    <2> QED
      BY <2>1, NamesAre DEF Deleted, Real
  <1>5. job.op = "unlink" /\ job.target = StateFile => Durable = state /\ state # None
    <2> SUFFICES ASSUME job.op = "unlink", job.target = StateFile
                 PROVE  Durable = state /\ state # None
      OBVIOUS
    <2>1. objects[StateFile] = <<state>> /\ <<state>> # None /\ state # None
      BY <1>2 DEF FilesInv, Held
    <2> QED
      BY <2>1 DEF Durable
  <1> QED
    BY <1>1, <1>3, <1>4, <1>5

LEMMA SavesGrow ==
  ASSUME NEW log \in Seq(Entries), Recordable(job)
  PROVE  {log[i].save : i \in DOMAIN log} \subseteq
           {Logged(log)[i].save : i \in DOMAIN Logged(log)}
  <1>1. /\ Logged(log) \in Seq(Entries)
        /\ Len(Logged(log)) = Len(log) + 1
        /\ \A i \in 1 .. Len(log) : Logged(log)[i] = log[i]
    BY LoggedIs
  <1>2. DOMAIN Logged(log) = 1 .. Len(log) + 1 /\ DOMAIN log = 1 .. Len(log) /\ Len(log) \in Nat
    BY <1>1, LenProperties
  <1>3. ASSUME NEW i \in DOMAIN log
        PROVE  i \in DOMAIN Logged(log) /\ Logged(log)[i].save = log[i].save
    BY <1>1, <1>2
  <1> QED
    BY <1>3

LEMMA AckedKept ==
  ASSUME FilesInv, AckedInv, [Next]_vars
  PROVE  AckedInv'
  <1>1. /\ objects'[StateFile] = objects[StateFile] => Durable' = Durable
        /\ PutInPlace => \/ job.target \in Steps /\ Durable' = Durable
                         \/ /\ job.target = StateFile /\ Durable' = state /\ state' = state
                            /\ state \in Lists /\ state # None
        /\ Deleted => Durable' = Durable
        /\ job.op = "unlink" /\ job.target = StateFile => Durable = state /\ state # None
    BY DurableNext
  <1>2. StateFile \in Real
    BY DEF Real
  <1>3. CASE Quiet
    BY <1>1, <1>2, <1>3 DEF Quiet, AckedInv, ghosts, SavesOf
  <1>4. CASE Ended
    <2>1. Durable' = Durable /\ state' = state /\ up' = up
      BY <1>1, <1>2, <1>4 DEF Ended
    <2>2. CASE acked' = acked
      BY <2>1, <2>2 DEF AckedInv, SavesOf
    <2>3. CASE job.op = "unlink" /\ job.target = StateFile /\ acked' = SavesOf(state)
      BY <1>1, <2>1, <2>3 DEF AckedInv, SavesOf
    <2> QED
      BY <1>4, <2>2, <2>3 DEF Ended
  <1>5. CASE PutInPlace
    <2>1. state' = state /\ up' = up /\ acked' = acked
      BY <1>5 DEF PutInPlace
    <2>2. up
      BY <1>5, IdleIs DEF PutInPlace, FilesInv, JobOK
    <2> QED
      BY <1>1, <1>5, <2>1, <2>2 DEF AckedInv, SavesOf
  <1>6. CASE Deleted
    BY <1>1, <1>6 DEF Deleted, AckedInv, SavesOf
  <1>7. CASE \E kind \in {"full", "delta"} : Save(kind)
    <2>1. state' = state /\ up' = up /\ acked' = acked /\ objects' = objects
      BY <1>7 DEF Save
    <2> QED
      BY <1>1, <2>1 DEF AckedInv, SavesOf
  <1>8. CASE Recorded
    <2>1. /\ job.op = "record" /\ ~(job.kind = "delta" /\ state = None)
          /\ objects' = objects /\ up' = up /\ acked' = acked
          /\ state' = IF job.kind = "full" THEN UpdateLatestFullCheckpoint(state, job.target)
                      ELSE AddDeltaCheckpoint(state, job.target)
      BY <1>8 DEF Recorded, Record, ghosts
    <2>2. /\ state' \in Lists
          /\ state'.log = Logged(IF state = None THEN <<>> ELSE state.log)
      BY <2>1, RecordedList
    <2>3. Recordable(job) /\ up
      BY <2>1, RecordIs
    <2>4. state # None => SavesOf(state) \subseteq SavesOf(state')
      <3> SUFFICES ASSUME state # None PROVE SavesOf(state) \subseteq SavesOf(state')
        OBVIOUS
      <3>1. state.log \in Seq(Entries) /\ state'.log = Logged(state.log)
        BY <2>2, ListIs DEF FilesInv, Types
      <3> QED
        BY <2>3, <3>1, SavesGrow DEF SavesOf
    <2> QED
      BY <1>1, <2>1, <2>2, <2>3, <2>4, NotNone DEF AckedInv, SavesOf
  <1>9. CASE \E f \in Steps : RemoveOldCheckpoint(f) \/ DeleteSpecifiedHistoryVersion(f)
    <2>1. PICK f \in Steps : RemoveOldCheckpoint(f) \/ DeleteSpecifiedHistoryVersion(f)
      BY <1>9
    <2>2. /\ CanDrop(f) /\ state' = DropVersion(state, f) /\ objects' = objects
          /\ up' = up /\ acked' = acked
      BY <2>1 DEF RemoveOldCheckpoint, DeleteSpecifiedHistoryVersion
    <2>3. state \in Lists /\ state # None
      BY <2>2, ToDropIs DEF CanDrop
    <2>4. state' # None /\ SavesOf(state') = SavesOf(state)
      <3> DEFINE t == DropVersion(state, f)
      <3>1. /\ t \in Lists /\ DOMAIN t.log = DOMAIN state.log
            /\ \A i \in DOMAIN state.log : t.log[i].save = state.log[i].save
        BY <2>3, DropIs
      <3> HIDE DEF t
      <3>2. t # None /\ SavesOf(t) = SavesOf(state)
        BY <3>1, NotNone DEF SavesOf
      <3>3. state' = t
        BY <2>2 DEF t
      <3>4. SavesOf(state') = SavesOf(t)
        BY <3>3 DEF SavesOf
      <3> QED
        BY <3>2, <3>3, <3>4
    <2> QED
      BY <1>1, <2>2, <2>3, <2>4 DEF AckedInv, SavesOf
  <1>10. CASE AllRemoved
    <2>1. state' = state /\ up' = up /\ acked' = acked /\ objects' = objects
      BY <1>10 DEF AllRemoved, ghosts
    <2> QED
      BY <1>1, <2>1 DEF AckedInv, SavesOf
  <1>11. CASE Crash
    <2>1. up' = FALSE /\ acked' = acked /\ objects' = objects
      BY <1>11 DEF Crash, ghosts
    <2> QED
      BY <1>1, <2>1 DEF AckedInv, SavesOf
  <1>12. CASE Load
    <2>1. CASE Restart(Durable) /\ acked' = acked
      <3>1. state' = Durable /\ objects' = objects
        BY <2>1 DEF Restart
      <3> QED
        BY <1>1, <2>1, <3>1 DEF AckedInv, SavesOf
    <2>2. CASE acked' = {}
      BY <2>2 DEF AckedInv
    <2> QED
      BY <1>12, <2>1, <2>2 DEF Load
  <1>13. Steppings
    BY EveryStep
  <1> QED
    BY <1>3, <1>4, <1>5, <1>6, <1>7, <1>8, <1>9, <1>10, <1>11, <1>12, <1>13 DEF Steppings

LEMMA AckedIs ==
  ASSUME AckedInv
  PROVE  RecordedSurvives
  BY DEF AckedInv, RecordedSurvives, SavesOf

-----------------------------------------------------------------------------
(* Reading.                                                                *)

\* What a read that got anything got.
Faithful(r) ==
  r.got # None => r.got.result = SubSeq(r.opened, r.got.offset + 1,
                                        Min({r.got.offset + r.got.n, r.length}))

\* The buffer holds the chunks from where it starts.
Loaded(r) ==
  /\ r.start + Len(r.buffer) <= r.length
  /\ r.buffer = SubSeq(r.opened, r.start + 1, r.start + Len(r.buffer))
  /\ Len(r.buffer) \in Nat

ReaderOK(r) ==
  /\ r = [name |-> r.name, length |-> r.length, start |-> r.start, buffer |-> r.buffer,
          capacity |-> r.capacity, opened |-> r.opened, exact |-> r.exact, got |-> r.got]
  /\ r.name \in Steps
  /\ r.opened \in Seq(Items)
  /\ r.length = Len(r.opened)
  /\ r.start \in 0 .. r.length
  /\ r.capacity \in Nat
  /\ r.exact \in BOOLEAN
  /\ r.exact => Loaded(r) /\ Faithful(r)

ReaderInv == reader # None => ReaderOK(reader)

Record8(r) ==
  r = [name |-> r.name, length |-> r.length, start |-> r.start, buffer |-> r.buffer,
       capacity |-> r.capacity, opened |-> r.opened, exact |-> r.exact, got |-> r.got]

ReaderShape(r) ==
  /\ Record8(r)
  /\ r.name \in Steps
  /\ r.opened \in Seq(Items)
  /\ r.length = Len(r.opened)
  /\ r.start \in 0 .. r.length
  /\ r.capacity \in Nat
  /\ r.exact \in BOOLEAN
  /\ r.exact => Loaded(r)

LEMMA ReaderOKIs ==
  ASSUME NEW r
  PROVE  ReaderOK(r) <=> ReaderShape(r) /\ (r.exact => Faithful(r))
  BY DEF ReaderOK, ReaderShape, Record8

\* A read leaves its result and nothing else.
LEMMA GotIs ==
  ASSUME NEW r, ReaderShape(r), NEW offset, NEW n, NEW result,
         r.exact => result = SubSeq(r.opened, offset + 1, Min({offset + n, r.length}))
  PROVE  ReaderOK(Got(r, offset, n, result))
  <1> DEFINE g == [offset |-> offset, n |-> n, result |-> result]
             q == Got(r, offset, n, result)
  <1>1. q = [r EXCEPT !.got = g]
    BY DEF Got
  <1> HIDE DEF q
  <1>2. /\ q.name = r.name /\ q.length = r.length /\ q.start = r.start /\ q.buffer = r.buffer
        /\ q.capacity = r.capacity /\ q.opened = r.opened /\ q.exact = r.exact /\ q.got = g
        /\ Record8(q)
    <2> HIDE DEF g
    <2> QED
      BY <1>1 DEF ReaderShape, Record8
  <1>3. ReaderShape(q)
    <2>1. Loaded(r) => Loaded(q)
      BY <1>2 DEF Loaded
    <2> QED
      BY <1>2, <2>1 DEF ReaderShape
  <1>4. g.offset = offset /\ g.n = n /\ g.result = result
    OBVIOUS
  <1> HIDE DEF g
  <1>5. q.exact => Faithful(q)
    BY <1>2, <1>4 DEF Faithful
  <1> QED
    BY <1>3, <1>5, ReaderOKIs DEF q

\* A slice of a sequence, element by element.
LEMMA SliceIs ==
  ASSUME NEW data \in Seq(Items), NEW i \in Nat, NEW j \in Nat, i + j <= Len(data)
  PROVE  /\ SubSeq(data, i + 1, i + j) \in Seq(Items)
         /\ Len(SubSeq(data, i + 1, i + j)) = j
         /\ \A m \in 1 .. j : SubSeq(data, i + 1, i + j)[m] = data[i + m]
  <1> DEFINE p == i + 1
             q == i + j
  <1>1. Len(data) \in Nat
    BY LenIs
  <1>2. p \in Int /\ q \in Int /\ q <= Len(data) /\ p >= 1
    BY <1>1
  <1>3. p = i + 1 /\ q = i + j
    OBVIOUS
  <1> HIDE DEF p, q
  <1>4. \A m \in p .. q : data[m] \in Items
    <2> TAKE m \in p .. q
    <2>1. m \in 1 .. Len(data)
      BY <1>1, <1>2
    <2> QED
      BY <2>1, ElementOfSeq
  <1>5. /\ SubSeq(data, p, q) \in Seq(Items)
        /\ Len(SubSeq(data, p, q)) = IF p <= q THEN q - p + 1 ELSE 0
        /\ \A m \in 1 .. q - p + 1 : SubSeq(data, p, q)[m] = data[p + m - 1]
    <2>1. p \in Int /\ q \in Int
      BY <1>2
    <2>2. SubSeq(data, p, q) \in Seq(Items)
      BY <2>1, <1>4, SubSeqProperties
    <2>3. Len(SubSeq(data, p, q)) = IF p <= q THEN q - p + 1 ELSE 0
      BY <2>1, <1>4, SubSeqProperties
    <2>4. \A m \in 1 .. q - p + 1 : SubSeq(data, p, q)[m] = data[p + m - 1]
      BY <2>1, <1>4, SubSeqProperties
    <2> QED
      BY <2>2, <2>3, <2>4
  <1> DEFINE b == SubSeq(data, p, q)
  <1>6. b = SubSeq(data, i + 1, i + j)
    BY <1>3
  <1> HIDE DEF b
  <1>7. Len(b) = IF p <= q THEN q - p + 1 ELSE 0
    BY <1>5 DEF b
  <1>8. Len(b) = j
    BY <1>3, <1>7
  <1>9. \A m \in 1 .. j : b[m] = data[i + m]
    <2> TAKE m \in 1 .. j
    <2>1. m \in 1 .. q - p + 1 /\ p + m - 1 = i + m
      BY <1>3
    <2> QED
      BY <1>5, <2>1 DEF b
  <1> QED
    BY <1>5, <1>6, <1>8, <1>9 DEF b

\* The beginning of a stretch of data that was loaded.
LEMMA StretchIs ==
  ASSUME NEW data \in Seq(Items), NEW i \in Nat, NEW j \in Nat, NEW n \in Nat, NEW k \in Nat,
         k + n <= j, i + j <= Len(data), NEW b, b = SubSeq(data, i + 1, i + j)
  PROVE  /\ Len(b) = j
         /\ SubSeq(b, k + 1, k + n) = SubSeq(data, (i + k) + 1, (i + k) + n)
         /\ Len(SubSeq(b, k + 1, k + n)) = n
  <1> DEFINE a == SubSeq(b, k + 1, k + n)
             c == SubSeq(data, (i + k) + 1, (i + k) + n)
  <1>1. Len(b) = j /\ b \in Seq(Items) /\ \A m \in 1 .. j : b[m] = data[i + m]
    BY SliceIs, Zenon
  <1>2. a \in Seq(Items) /\ Len(a) = n /\ \A m \in 1 .. n : a[m] = b[k + m]
    <2>1. k + n <= Len(b)
      BY <1>1
    <2> QED
      BY <1>1, <2>1, SliceIs, Zenon
  <1>3. c \in Seq(Items) /\ Len(c) = n /\ \A m \in 1 .. n : c[m] = data[(i + k) + m]
    <2>1. i + k \in Nat /\ (i + k) + n <= Len(data)
      BY LenIs
    <2> QED
      BY <2>1, SliceIs, Zenon
  <1> HIDE DEF a, c
  <1>4. \A m \in 1 .. n : a[m] = c[m]
    <2> TAKE m \in 1 .. n
    <2>1. k + m \in 1 .. j /\ i + (k + m) = (i + k) + m
      OBVIOUS
    <2>2. b[k + m] = data[i + (k + m)]
      BY <2>1, <1>1
    <2> QED
      BY <2>1, <2>2, <1>2, <1>3
  <1>5. a = c
    BY <1>2, <1>3, <1>4, SeqEqual
  <1> QED
    BY <1>1, <1>2, <1>5 DEF a, c

\* What a read asks of the buffer.
LEMMA ClampedIs ==
  ASSUME NEW offset \in Nat, NEW asked \in Nat \ {0}, ReaderShape(reader)
  PROVE  LET n == Clamped(offset, asked)
         IN /\ n \in Int
            /\ n <= asked
            /\ reader.length \in Nat
            /\ n <= 0 => offset >= reader.length
            /\ n > 0 => offset + n = Min({offset + asked, reader.length})
            /\ n > 0 => offset + n <= reader.length
            /\ Min({offset + asked, reader.length}) \in Nat
            /\ Min({offset + asked, reader.length}) <= reader.length
  <1>1. reader.length \in Nat
    BY LenIs DEF ReaderShape
  <1>2. Min({offset + asked, reader.length}) =
          IF offset + asked <= reader.length THEN offset + asked ELSE reader.length
    BY <1>1, MinOfTwo
  <1> QED
    BY <1>1, <1>2 DEF Clamped

\* Room is made: nothing but the buffer and its capacity change.
LEMMA ReserveIs ==
  ASSUME NEW r, r = reader, ReaderShape(r), NEW desired \in Nat, NEW n \in Nat, n <= desired
  PROVE  LET s == Reserve(desired, n)
         IN /\ Record8(s)
            /\ s.name = r.name /\ s.length = r.length /\ s.start = r.start
            /\ s.opened = r.opened /\ s.exact = r.exact /\ s.got = r.got
            /\ s.capacity \in Nat /\ s.capacity >= n
  <1>1. CASE n > reader.capacity \/ desired > 2 * reader.capacity
    <2> DEFINE b == [i \in DOMAIN reader.buffer |-> Garbage]
    <2>1. Reserve(desired, n) = [reader EXCEPT !.capacity = desired, !.buffer = b]
      BY <1>1 DEF Reserve
    <2> HIDE DEF b
    <2> QED
      BY <2>1 DEF ReaderShape, Record8
  <1>2. CASE ~(n > reader.capacity \/ desired > 2 * reader.capacity)
    BY <1>2 DEF Reserve, ReaderShape
  <1> QED
    BY <1>1, <1>2

LEMMA ReadKeepsReader ==
  ASSUME FilesInv, ReaderInv, NEW offset \in Nat, NEW asked \in Nat \ {0},
         ReadFile(offset, asked)
  PROVE  ReaderInv'
  <1> DEFINE L == reader.length
             n == Clamped(offset, asked)
             desired == Min({n + Min({ReadAhead, L}), L})
             reserved == Reserve(desired, n)
             loaded == LoadBufferFromOSS(reserved, offset, desired)
             o == objects[reader.name]
             ahead == Min({ReadAhead, L})
             upto == Min({offset + asked, L})
  <1>1. ReaderOK(reader) /\ ReaderShape(reader)
    BY ReaderOKIs DEF ReaderInv, ReadFile
  <1>2. /\ L \in Nat /\ L = Len(reader.opened) /\ reader.opened \in Seq(Items)
        /\ reader.start \in 0 .. L
        /\ reader.name \in Steps
    BY <1>1, LenIs DEF ReaderShape
  <1>3. /\ n \in Int /\ n <= asked
        /\ n <= 0 => offset >= L
        /\ n > 0 => offset + n = upto /\ offset + n <= L
        /\ upto \in Nat /\ upto <= L
    BY <1>1, ClampedIs
  <1>4. ahead \in Nat /\ (n > 0 => desired \in Nat /\ n <= desired /\ n \in Nat)
    <2>1. ReadAhead \in Nat
      BY FilesAssumption
    <2>2. ahead \in Nat
      BY <2>1, <1>2, MinOfTwo
    <2> HIDE DEF ahead, L, n
    <2>3. Min({n + ahead, L}) = IF n + ahead <= L THEN n + ahead ELSE L
      BY <2>2, <1>2, <1>3, MinOfTwo
    <2>4. desired = Min({n + ahead, L})
      BY DEF ahead, L, n
    <2> HIDE DEF desired
    <2>5. n > 0 => offset + n <= L
      BY <1>3
    <2> QED
      BY <2>2, <2>3, <2>4, <2>5, <1>2, <1>3
  <1>5. o # None => o \in Seq(Items) /\ Len(o) > 0
    BY <1>2, NamesAre DEF FilesInv, Objects, Fit
  <1>6. \/ /\ n <= 0
           /\ reader' = Got(reader, offset, asked, <<>>)
        \/ /\ n > 0
           /\ Buffered(offset, n)
           /\ reader' = Got(reader, offset, asked,
                            ResultOf(SubSeq(reader.buffer, (offset - reader.start) + 1,
                                            (offset - reader.start) + n), n))
        \/ /\ n > 0
           /\ reader' = Got(loaded, offset, asked,
                            IF o = None THEN None
                            ELSE ResultOf(SubSeq(loaded.buffer, 1,
                                                 Min({n, Len(loaded.buffer)})), n))
        \/ /\ n > 0
           /\ reader' = Got([reserved EXCEPT !.start = offset, !.exact = FALSE],
                            offset, asked, None)
    BY DEF ReadFile, Read
  <1> SUFFICES ReaderOK(reader')
    BY DEF ReaderInv
  <1> HIDE DEF n, desired, reserved, loaded, ahead, upto, L
  <1>7. CASE /\ n <= 0
             /\ reader' = Got(reader, offset, asked, <<>>)
    <2>1. upto < offset + 1 /\ upto \in Int /\ offset + 1 \in Int
      BY <1>2, <1>3, <1>7
    <2>2. SubSeq(reader.opened, offset + 1, upto) = <<>>
      BY <2>1, SubSeqEmpty
    <2> QED
      BY <1>1, <1>7, <2>2, GotIs DEF upto, L
  <1>8. CASE /\ n > 0
             /\ Buffered(offset, n)
             /\ reader' = Got(reader, offset, asked,
                              ResultOf(SubSeq(reader.buffer, (offset - reader.start) + 1,
                                              (offset - reader.start) + n), n))
    <2> DEFINE k == offset - reader.start
               j == Len(reader.buffer)
               s == SubSeq(reader.buffer, k + 1, k + n)
    <2>1. ASSUME reader.exact
          PROVE  ResultOf(s, n) = SubSeq(reader.opened, offset + 1, upto)
      <3>1. /\ reader.start + j <= L
            /\ reader.buffer = SubSeq(reader.opened, reader.start + 1, reader.start + j)
            /\ j \in Nat
        BY <1>1, <2>1 DEF ReaderShape, Loaded, L
      <3>2. k \in Nat /\ k + n <= j /\ n \in Nat /\ n > 0 /\ reader.start \in Nat
        BY <1>2, <1>3, <1>8, <3>1, SMTT(20) DEF Buffered
      <3> HIDE DEF j, k
      <3>3. /\ s = SubSeq(reader.opened, (reader.start + k) + 1, (reader.start + k) + n)
            /\ Len(s) = n
        <4>1. reader.start + j <= Len(reader.opened)
          BY <1>2, <3>1
        <4> DEFINE data == reader.opened
                   i == reader.start
                   rb == reader.buffer
        <4>2. /\ data \in Seq(Items) /\ i \in Nat /\ j \in Nat /\ n \in Nat /\ k \in Nat
              /\ k + n <= j /\ i + j <= Len(data) /\ rb = SubSeq(data, i + 1, i + j)
          BY <1>2, <3>1, <3>2, <4>1
        <4> HIDE DEF data, i, rb
        <4>3. /\ SubSeq(rb, k + 1, k + n) = SubSeq(data, (i + k) + 1, (i + k) + n)
              /\ Len(SubSeq(rb, k + 1, k + n)) = n
          BY <4>2, StretchIs
        <4> QED
          BY <4>3 DEF data, i, rb
      <3>4. reader.start + k = offset
        BY <1>2, <3>2 DEF k
      <3> HIDE DEF s
      <3>5. s = SubSeq(reader.opened, offset + 1, upto)
        BY <3>3, <3>4, <1>3, <1>8
      <3>6. ~(Len(s) < n)
        BY <3>2, <3>3
      <3>7. ResultOf(s, n) = s
        BY <3>6 DEF ResultOf
      <3> QED
        BY <3>5, <3>7
    <2> QED
      BY <1>1, <1>8, <2>1, GotIs DEF upto, L
  <1>9. ASSUME n > 0
        PROVE  /\ Record8(reserved)
               /\ reserved.name = reader.name /\ reserved.length = reader.length
               /\ reserved.opened = reader.opened /\ reserved.exact = reader.exact
               /\ reserved.capacity \in Nat /\ reserved.capacity >= n
    BY <1>1, <1>4, <1>9, ReserveIs DEF reserved
  <1>10. CASE /\ n > 0
              /\ reader' = Got(loaded, offset, asked,
                               IF o = None THEN None
                               ELSE ResultOf(SubSeq(loaded.buffer, 1,
                                                    Min({n, Len(loaded.buffer)})), n))
    <2> DEFINE room == Min({reserved.capacity, desired})
               end == Min({offset + room, L})
               b == IF o # None THEN SubSeq(o, offset + 1, Min({end, Len(o)}))
                    ELSE reserved.buffer
               e == (o # None /\ o = reader.opened)
    <2>1. loaded = [reserved EXCEPT !.start = offset, !.buffer = b, !.exact = e]
      BY <1>9, <1>10 DEF loaded, LoadBufferFromOSS, Record8, L
    <2>2. e \in BOOLEAN
      OBVIOUS
    <2> HIDE DEF b, e
    <2>3. /\ Record8(loaded) /\ loaded.start = offset /\ loaded.buffer = b /\ loaded.exact = e
          /\ loaded.name = reader.name /\ loaded.length = reader.length
          /\ loaded.opened = reader.opened /\ loaded.capacity \in Nat
      BY <2>1, <1>9, <1>10 DEF Record8
    <2>4. room \in Nat /\ room >= n
      BY <1>4, <1>9, <1>10, MinOfTwo
    <2>5. end \in Nat /\ end <= L /\ end >= offset + n
      <3> HIDE DEF room
      <3>1. end = IF offset + room <= L THEN offset + room ELSE L
        BY <1>2, <2>4, MinOfTwo
      <3> QED
        BY <3>1, <2>4, <1>2, <1>3, <1>10
    <2> HIDE DEF room, end
    <2>6. ASSUME e
          PROVE  /\ b = SubSeq(reader.opened, offset + 1, offset + (end - offset))
                 /\ Len(b) = end - offset
                 /\ Loaded(loaded)
                 /\ (IF o = None THEN None
                     ELSE ResultOf(SubSeq(b, 1, Min({n, Len(b)})), n))
                    = SubSeq(reader.opened, offset + 1, upto)
      <3>1. o # None /\ o = reader.opened /\ Len(o) = L
        BY <2>6, <1>2 DEF e
      <3>2. Min({end, Len(o)}) = end
        BY <3>1, <2>5, <1>2, MinOfTwo
      <3> DEFINE j == end - offset
      <3>3. j \in Nat /\ n \in Nat /\ 0 + n <= j /\ offset + j <= Len(reader.opened)
            /\ offset + j = end
        BY <2>5, <1>2, <1>3, <1>10
      <3>4. b = SubSeq(reader.opened, offset + 1, offset + j)
        BY <3>1, <3>2, <3>3 DEF b
      <3> HIDE DEF j
      <3>5. /\ Len(b) = j
            /\ SubSeq(b, 0 + 1, 0 + n) = SubSeq(reader.opened, (offset + 0) + 1, (offset + 0) + n)
            /\ Len(SubSeq(b, 0 + 1, 0 + n)) = n
        BY <1>2, <1>3, <1>10, <3>3, <3>4, StretchIs, 0 \in Nat
      <3>6. Min({n, Len(b)}) = n
        BY <3>3, <3>5, MinOfTwo
      <3>7. 0 + 1 = 1 /\ 0 + n = n /\ offset + 0 + 1 = offset + 1 /\ offset + 0 + n = offset + n
        BY <3>3
      <3>8. SubSeq(b, 1, n) = SubSeq(reader.opened, offset + 1, upto) /\ Len(SubSeq(b, 1, n)) = n
        BY <3>5, <3>7, <1>3, <1>10
      <3>9. ResultOf(SubSeq(b, 1, n), n) = SubSeq(b, 1, n)
        BY <3>3, <3>8 DEF ResultOf
      <3>10. Loaded(loaded)
        BY <2>3, <3>3, <3>4, <3>5, <1>2 DEF Loaded, L
      <3> QED
        BY <3>1, <3>4, <3>5, <3>6, <3>8, <3>9, <3>10 DEF j
    <2>7. ReaderShape(loaded)
      <3>1. offset \in 0 .. L
        BY <1>2, <1>3, <1>10
      <3> QED
        BY <2>2, <2>3, <2>6, <3>1, <1>2 DEF ReaderShape, L
    <2>8. loaded.exact => (IF o = None THEN None
                           ELSE ResultOf(SubSeq(loaded.buffer, 1, Min({n, Len(loaded.buffer)})), n))
                          = SubSeq(loaded.opened, offset + 1,
                                   Min({offset + asked, loaded.length}))
      BY <2>3, <2>6 DEF upto, L
    <2> QED
      BY <1>10, <2>7, <2>8, GotIs
  <1>11. CASE /\ n > 0
              /\ reader' = Got([reserved EXCEPT !.start = offset, !.exact = FALSE],
                               offset, asked, None)
    <2> DEFINE q == [reserved EXCEPT !.start = offset, !.exact = FALSE]
    <2>1. Record8(reserved) /\ reserved.capacity \in Nat
          /\ reserved.name = reader.name /\ reserved.length = reader.length
          /\ reserved.opened = reader.opened
      BY <1>9, <1>11
    <2>3. q = [reserved EXCEPT !.start = offset, !.exact = FALSE]
      OBVIOUS
    <2> HIDE DEF q
    <2>4. /\ Record8(q) /\ q.start = offset /\ q.exact = FALSE
          /\ q.name = reader.name /\ q.length = reader.length
          /\ q.opened = reader.opened /\ q.capacity \in Nat
      BY <2>1, <2>3 DEF Record8
    <2>2. offset \in 0 .. L
      BY <1>2, <1>3, <1>11
    <2>5. ReaderShape(q)
      BY <2>4, <2>2, <1>2 DEF ReaderShape, L
    <2>6. ReaderOK(Got(q, offset, asked, None))
      BY <2>4, <2>5, GotIs
    <2> QED
      BY <1>11, <2>6 DEF q
  <1> QED
    BY <1>6, <1>7, <1>8, <1>10, <1>11

LEMMA SaverLeavesReader ==
  ASSUME SaverNext
  PROVE  reader' = reader
  BY DEF SaverNext, Save, WriteFile, AppendChunk, CloseFile, Close, CloseFileFails, CloseFails,
     GiveUp, RenameCopy, RenameDelete, RenameFails, Record, RemoveOldCheckpoint,
     RemoveCheckpoint, RemoveCheckpointFails, AllRemoved, DeleteSpecifiedHistoryVersion,
     Crash, Load, Restart, LoadInvalid

LEMMA CurrentAreSteps ==
  ASSUME NEW s \in Lists
  PROVE  Current(s) \subseteq Steps
  <1>1. s.full \in Steps /\ s.deltas \in Seq(Steps)
    BY ListIs
  <1> QED
    BY <1>1, RangeOfSeq DEF Current

LEMMA ReaderKept ==
  ASSUME FilesInv, ReaderInv, [Next]_vars
  PROVE  ReaderInv'
  <1>1. CASE reader' = reader
    BY <1>1 DEF ReaderInv
  <1>2. CASE Durable # None /\ \E c \in Current(Durable) : NewRandomAccessFile(c)
    <2>1. PICK c \in Steps : NewRandomAccessFile(c)
      BY <1>2, DurableIs, CurrentAreSteps
    <2> DEFINE o == objects[c]
    <2>2. /\ o # None
          /\ reader' = [name |-> c, length |-> Len(o), start |-> 0,
                        buffer |-> <<>>, capacity |-> 0,
                        opened |-> o, exact |-> TRUE, got |-> None]
      BY <2>1 DEF NewRandomAccessFile
    <2>3. o \in Seq(Items) /\ Len(o) \in Nat
      BY <2>2, NamesAre, LenIs DEF FilesInv, Objects, Fit
    <2>4. SubSeq(o, 1, 0) = <<>>
      BY SubSeqEmpty
    <2> HIDE DEF o
    <2>5. Record8(reader')
      BY <2>2 DEF Record8
    <2>6. Loaded(reader') /\ Faithful(reader')
      BY <2>2, <2>3, <2>4 DEF Loaded, Faithful
    <2>7. ReaderShape(reader')
      BY <2>2, <2>3, <2>5, <2>6 DEF ReaderShape
    <2> QED
      BY <2>6, <2>7, ReaderOKIs DEF ReaderInv
  <1>3. CASE \E r \in Reads : ReadFile(r[1], r[2])
    <2>1. PICK r \in Reads : ReadFile(r[1], r[2])
      BY <1>3
    <2>2. r[1] \in Nat /\ r[2] \in Nat \ {0}
      BY CheckpointsAssumption
    <2> QED
      BY <2>1, <2>2, ReadKeepsReader
  <1>4. CASE CloseReader
    BY <1>4 DEF CloseReader, ReaderInv
  <1> QED
    BY <1>1, <1>2, <1>3, <1>4, SaverLeavesReader DEF Next, ReaderNext, vars

LEMMA ReaderIs ==
  ASSUME ReaderInv
  PROVE  ReadsAreFaithful
  BY DEF ReaderInv, ReaderOK, Faithful, ReadsAreFaithful

LEMMA ReaderBegins ==
  ASSUME Init
  PROVE  ReaderInv /\ AckedInv /\ NothingOrphaned
  BY NamesAre DEF Init, ReaderInv, NothingOrphaned, AckedInv

-----------------------------------------------------------------------------
(* The log: which full checkpoint an entry is based on.                    *)

LastFull(log) == Max(Fulls(log))

\* A log begins with a full checkpoint.
Log(log) == log \in Seq(Entries) /\ Len(log) > 0 /\ log[1].kind = "full"

LEMMA MaxIs ==
  ASSUME NEW n \in Nat, NEW S, S \subseteq 1 .. n, S # {}
  PROVE  Max(S) \in S /\ \A x \in S : x <= Max(S)
  <1> DEFINE T == {n - x : x \in S}
  <1>1. T \subseteq Nat /\ T # {}
    <2>1. \A x \in S : x \in Nat /\ n - x \in Nat
      BY SMT
    <2>2. T \subseteq Nat
      BY <2>1, Zenon
    <2>3. PICK x : x \in S
      OBVIOUS
    <2>4. n - x \in T
      BY <2>3, Zenon
    <2> QED
      BY <2>2, <2>4, Zenon
  <1>2. PICK m \in T : \A k \in T : m <= k
    <2> HIDE DEF T
    <2> QED
      BY <1>1, LeastOf
  <1>3. PICK x \in S : m = n - x
    BY <1>2
  <1>4. \A y \in S : x >= y
    <2> TAKE y \in S
    <2>1. m <= n - y
      BY <1>2
    <2> QED
      BY <2>1, <1>3
  <1>5. \E z \in S : \A y \in S : z >= y
    BY <1>4
  <1>6. Max(S) \in S /\ \A y \in S : Max(S) >= y
    BY <1>5, Zenon DEF Max
  <1> QED
    BY <1>6

LEMMA LogIs ==
  ASSUME NEW log, Log(log)
  PROVE  /\ Len(log) \in Nat \ {0} /\ DOMAIN log = 1 .. Len(log)
         /\ \A i \in DOMAIN log : log[i] \in Entries
         /\ Fulls(log) \subseteq 1 .. Len(log)
         /\ \A i \in DOMAIN log : i \in Fulls(log) <=> log[i].kind = "full"
         /\ 1 \in Fulls(log)
  <1>1. Len(log) \in Nat /\ DOMAIN log = 1 .. Len(log)
    BY LenProperties DEF Log
  <1>2. \A i \in DOMAIN log : log[i] \in Entries
    BY ElementOfSeq DEF Log
  <1> QED
    BY <1>1, <1>2 DEF Log, Fulls

LEMMA BaseIs ==
  ASSUME NEW log, Log(log), NEW i \in DOMAIN log
  PROVE  /\ BaseAt(log, i) \in 1 .. i
         /\ BaseAt(log, i) \in Fulls(log)
         /\ \A j \in Fulls(log) : j <= i => j <= BaseAt(log, i)
         /\ i \in Fulls(log) => BaseAt(log, i) = i
  <1> DEFINE S == {j \in 1 .. i : log[j].kind = "full"}
  <1>1. /\ i \in Nat /\ i >= 1 /\ i <= Len(log) /\ Len(log) \in Nat
        /\ DOMAIN log = 1 .. Len(log) /\ Fulls(log) \subseteq 1 .. Len(log)
        /\ \A j \in DOMAIN log : j \in Fulls(log) <=> log[j].kind = "full"
    BY LogIs
  <1>2. S \subseteq 1 .. i /\ 1 \in S
    BY <1>1 DEF Log
  <1>3. S \subseteq Fulls(log) /\ \A j \in Fulls(log) : j <= i => j \in S
    BY <1>1
  <1>4. BaseAt(log, i) = Max(S)
    BY DEF BaseAt
  <1> HIDE DEF S
  <1>5. Max(S) \in S /\ \A x \in S : x <= Max(S)
    BY <1>1, <1>2, MaxIs
  <1> DEFINE m == Max(S)
  <1>6. m \in S /\ m \in Fulls(log) /\ \A x \in S : x <= m
    BY <1>3, <1>5
  <1> HIDE DEF m
  <1>7. m \in 1 .. i
    BY <1>2, <1>6
  <1>8. ASSUME i \in Fulls(log) PROVE m = i
    <2>1. i <= i
      BY <1>1
    <2>2. i \in S
      BY <1>3, <1>8, <2>1
    <2>3. i <= m
      BY <1>6, <2>2
    <2> QED
      BY <1>1, <1>7, <2>3
  <1>9. \A j \in Fulls(log) : j <= i => j <= m
    BY <1>3, <1>6
  <1>10. BaseAt(log, i) = m
    BY <1>4 DEF m
  <1> QED
    BY <1>6, <1>7, <1>8, <1>9, <1>10

LEMMA LastIs ==
  ASSUME NEW log, Log(log)
  PROVE  /\ LastFull(log) \in 1 .. Len(log)
         /\ LastFull(log) \in Fulls(log)
         /\ \A j \in Fulls(log) : j <= LastFull(log)
         /\ \A i \in DOMAIN log : BaseAt(log, i) = LastFull(log) <=> i >= LastFull(log)
  <1> DEFINE m == LastFull(log)
  <1>1. /\ Len(log) \in Nat /\ DOMAIN log = 1 .. Len(log)
        /\ Fulls(log) \subseteq 1 .. Len(log) /\ 1 \in Fulls(log)
    BY LogIs
  <1>2. m \in Fulls(log) /\ \A j \in Fulls(log) : j <= m
    BY <1>1, MaxIs DEF LastFull
  <1> HIDE DEF m
  <1>3. ASSUME NEW i \in DOMAIN log
        PROVE  BaseAt(log, i) = m <=> i >= m
    <2>1. /\ BaseAt(log, i) \in 1 .. i /\ BaseAt(log, i) \in Fulls(log)
          /\ m <= i => m <= BaseAt(log, i)
      BY <1>2, BaseIs
    <2> QED
      BY <1>1, <1>2, <2>1
  <1> QED
    BY <1>1, <1>2, <1>3 DEF m

\* Two logs with the same entries, but for what is kept, up to i.
Alike(a, b, i) ==
  \A j \in 1 .. i : /\ a[j].name = b[j].name /\ a[j].kind = b[j].kind

LEMMA BasesAlike ==
  ASSUME NEW a, NEW b, NEW i \in Nat, NEW k \in 1 .. i, Alike(a, b, i)
  PROVE  BaseAt(a, k) = BaseAt(b, k)
  <1>1. {j \in 1 .. k : a[j].kind = "full"} = {j \in 1 .. k : b[j].kind = "full"}
    BY DEF Alike
  <1> QED
    BY <1>1 DEF BaseAt

-----------------------------------------------------------------------------
(* Names in the order of the log.                                          *)

LEMMA InOrderIs ==
  ASSUME NEW log, NEW P, NEW d
  PROVE  InOrder(log, P, d) <=>
           \E at \in [DOMAIN d -> P] :
             /\ \A x \in P : \E k \in DOMAIN d : at[k] = x
             /\ \A j, k \in DOMAIN d : j < k => at[j] < at[k]
             /\ \A k \in DOMAIN d : d[k] = log[at[k]].name
  <1>1. ASSUME NEW at \in [DOMAIN d -> P]
        PROVE  Range(at) = P <=> \A x \in P : \E k \in DOMAIN d : at[k] = x
    BY DEF Range
  <1> QED
    BY <1>1, Zenon DEF InOrder

LEMMA NoneInOrder ==
  ASSUME NEW log
  PROVE  InOrder(log, {}, <<>>)
  <1>1. DOMAIN <<>> = {}
    OBVIOUS
  <1>2. <<>> \in [DOMAIN <<>> -> {}]
    OBVIOUS
  <1> QED
    BY <1>1, <1>2, InOrderIs

\* What the names are and where.
LEMMA PlacesIs ==
  ASSUME NEW log, NEW P, NEW d, InOrder(log, P, d), NEW c \in Range(d)
  PROVE  \E x \in P : log[x].name = c
  <1>1. PICK k \in DOMAIN d : c = d[k]
    BY DEF Range
  <1>2. PICK at \in [DOMAIN d -> P] : \A j \in DOMAIN d : d[j] = log[at[j]].name
    BY InOrderIs
  <1> QED
    BY <1>1, <1>2

LEMMA InOrderAlike ==
  ASSUME NEW a, NEW b, NEW P, NEW d, \A x \in P : a[x].name = b[x].name, InOrder(a, P, d)
  PROVE  InOrder(b, P, d)
  <1>1. PICK at \in [DOMAIN d -> P] :
             /\ \A x \in P : \E k \in DOMAIN d : at[k] = x
             /\ \A j, k \in DOMAIN d : j < k => at[j] < at[k]
             /\ \A k \in DOMAIN d : d[k] = a[at[k]].name
    BY InOrderIs
  <1>2. \A k \in DOMAIN d : d[k] = b[at[k]].name
    BY <1>1
  <1> QED
    BY <1>1, <1>2, InOrderIs, Zenon

LEMMA OneInOrder ==
  ASSUME NEW log, NEW x
  PROVE  InOrder(log, {x}, <<log[x].name>>)
  <1> DEFINE d == <<log[x].name>>
             at == [k \in {1} |-> x]
  <1>1. DOMAIN d = {1} /\ d[1] = log[x].name
    OBVIOUS
  <1> HIDE DEF d
  <1>2. at \in [DOMAIN d -> {x}] /\ at[1] = x
    BY <1>1
  <1> HIDE DEF at
  <1>3. /\ \A y \in {x} : \E k \in DOMAIN d : at[k] = y
        /\ \A j, k \in DOMAIN d : j < k => at[j] < at[k]
        /\ \A k \in DOMAIN d : d[k] = log[at[k]].name
    BY <1>1, <1>2
  <1> QED
    BY <1>2, <1>3, InOrderIs DEF d

\* One stretch after another.
LEMMA RowsInOrder ==
  ASSUME NEW log, NEW P, NEW Q, P \subseteq Nat, Q \subseteq Nat,
         \A x \in P : \A y \in Q : x < y,
         NEW S, NEW d \in Seq(S), NEW e \in Seq(S), InOrder(log, P, d), InOrder(log, Q, e)
  PROVE  InOrder(log, P \cup Q, d \o e)
  <1> DEFINE n == Len(d)
             m == Len(e)
             r == d \o e
  <1>1. PICK p \in [DOMAIN d -> P] :
             /\ \A x \in P : \E k \in DOMAIN d : p[k] = x
             /\ \A j, k \in DOMAIN d : j < k => p[j] < p[k]
             /\ \A k \in DOMAIN d : d[k] = log[p[k]].name
    BY InOrderIs
  <1>2. PICK q \in [DOMAIN e -> Q] :
             /\ \A x \in Q : \E k \in DOMAIN e : q[k] = x
             /\ \A j, k \in DOMAIN e : j < k => q[j] < q[k]
             /\ \A k \in DOMAIN e : e[k] = log[q[k]].name
    BY InOrderIs
  <1>3. /\ n \in Nat /\ m \in Nat /\ DOMAIN d = 1 .. n /\ DOMAIN e = 1 .. m
        /\ DOMAIN r = 1 .. n + m
        /\ \A k \in 1 .. n : r[k] = d[k]
        /\ \A k \in 1 .. m : r[n + k] = e[k]
    BY ConcatProperties, LenProperties
  <1> HIDE DEF n, m, r
  <1> DEFINE at == [k \in 1 .. n + m |-> IF k <= n THEN p[k] ELSE q[k - n]]
  <1>4. /\ \A k \in 1 .. n : at[k] = p[k] /\ at[k] \in P
        /\ \A k \in 1 .. m : at[n + k] = q[k] /\ at[n + k] \in Q
    BY <1>1, <1>2, <1>3
  <1>5. ASSUME NEW k \in 1 .. n + m
        PROVE  k \in 1 .. n \/ (k - n \in 1 .. m /\ k = n + (k - n) /\ k > n)
    <2>1. n \in Nat /\ m \in Nat
      BY <1>3
    <2> QED
      BY <2>1
  <1>6. DOMAIN at = 1 .. n + m /\ at \in [DOMAIN r -> P \cup Q]
    BY <1>1, <1>2, <1>3
  <1> HIDE DEF at
  <1>7. \A x \in P \cup Q : \E k \in DOMAIN r : at[k] = x
    <2> TAKE x \in P \cup Q
    <2>1. CASE x \in P
      <3>1. PICK k \in 1 .. n : p[k] = x
        BY <1>1, <1>3, <2>1
      <3>2. at[k] = x /\ k \in DOMAIN r
        BY <1>3, <1>4, <3>1
      <3> QED
        BY <3>2
    <2>2. CASE x \in Q
      <3>1. PICK k \in 1 .. m : q[k] = x
        BY <1>2, <1>3, <2>2
      <3>2. at[n + k] = x /\ n + k \in DOMAIN r
        BY <1>3, <1>4, <3>1
      <3> QED
        BY <3>2
    <2> QED
      BY <2>1, <2>2
  <1>8. \A j, k \in DOMAIN r : j < k => at[j] < at[k]
    <2> SUFFICES ASSUME NEW j \in 1 .. n + m, NEW k \in 1 .. n + m, j < k
                 PROVE  at[j] < at[k]
      BY <1>3
    <2>1. CASE k \in 1 .. n
      <3>1. j \in 1 .. n
        BY <2>1, <1>3
      <3> QED
        BY <1>1, <1>3, <1>4, <2>1, <3>1
    <2>2. CASE j \in 1 .. n /\ k \notin 1 .. n
      <3>1. at[j] \in P
        BY <1>4, <2>2
      <3>2. at[k] \in Q
        BY <1>4, <1>5, <2>2
      <3> QED
        BY <3>1, <3>2
    <2>3. CASE j \notin 1 .. n /\ k \notin 1 .. n
      <3> DEFINE a == j - n
                 b == k - n
      <3>1. a \in 1 .. m /\ b \in 1 .. m /\ a < b /\ j = n + a /\ k = n + b
        BY <1>3, <1>5, <2>3
      <3> HIDE DEF a, b
      <3>2. at[j] = q[a] /\ at[k] = q[b]
        BY <1>4, <3>1
      <3> QED
        BY <1>2, <1>3, <3>1, <3>2
    <2> QED
      BY <2>1, <2>2, <2>3, <1>3
  <1>9. \A k \in DOMAIN r : r[k] = log[at[k]].name
    <2> SUFFICES ASSUME NEW k \in 1 .. n + m PROVE r[k] = log[at[k]].name
      BY <1>3
    <2>1. CASE k \in 1 .. n
      BY <1>1, <1>3, <1>4, <2>1
    <2>2. CASE k \notin 1 .. n
      <3> DEFINE b == k - n
      <3>1. b \in 1 .. m /\ k = n + b
        BY <1>5, <2>2
      <3> HIDE DEF b
      <3>2. r[k] = e[b] /\ at[k] = q[b] /\ b \in DOMAIN e
        BY <1>3, <1>4, <3>1
      <3> QED
        BY <1>2, <3>2
    <2> QED
      BY <2>1, <2>2
  <1>10. InOrder(log, P \cup Q, r)
    BY <1>6, <1>7, <1>8, <1>9, InOrderIs, Zenon
  <1> QED
    BY <1>10 DEF r

-----------------------------------------------------------------------------
(* A list is a view of its log.                                            *)

OldOnes(log, f) == {i \in KeptBefore(log) : log[i].name = f}

\* What a list is to its log, and what the log keeps.
ListInv(s) ==
  /\ Log(s.log)
  /\ s.log[LastFull(s.log)].kept
  /\ FollowsLog(s)

LEMMA FollowsIs ==
  ASSUME NEW s
  PROVE  FollowsLog(s) <=>
           /\ s.full = s.log[LastFull(s.log)].name
           /\ InOrder(s.log, DeltasUpon(s.log, {LastFull(s.log)}), s.deltas)
           /\ DOMAIN s.history_versions = {s.log[i].name : i \in KeptBefore(s.log)}
           /\ \A f \in DOMAIN s.history_versions :
                InOrder(s.log, DeltasUpon(s.log, OldOnes(s.log, f)), s.history_versions[f])
  BY DEF FollowsLog, LastFull, OldOnes

LEMMA KeptIs ==
  ASSUME NEW log, Log(log)
  PROVE  /\ \A i \in DOMAIN log :
              i \in KeptBefore(log) <=> log[i].kind = "full" /\ i # LastFull(log) /\ log[i].kept
         /\ KeptBefore(log) \subseteq DOMAIN log
         /\ KeptBefore(log) \subseteq Fulls(log)
         /\ LastFull(log) \notin KeptBefore(log)
         /\ \A i \in KeptBefore(log) : i < LastFull(log)
  <1>1. /\ Len(log) \in Nat /\ DOMAIN log = 1 .. Len(log)
        /\ Fulls(log) \subseteq 1 .. Len(log)
        /\ \A i \in DOMAIN log : i \in Fulls(log) <=> log[i].kind = "full"
    BY LogIs
  <1>2. \A i : i \in KeptBefore(log) <=> i \in Fulls(log) /\ i # LastFull(log) /\ log[i].kept
    BY DEF KeptBefore, LastFull
  <1>3. LastFull(log) \in 1 .. Len(log) /\ \A j \in Fulls(log) : j <= LastFull(log)
    BY LastIs
  <1>4. ASSUME NEW i \in KeptBefore(log)
        PROVE  i \in Fulls(log) /\ i \in DOMAIN log /\ i < LastFull(log)
    <2>1. i \in Fulls(log) /\ i # LastFull(log) /\ i \in 1 .. Len(log)
      BY <1>1, <1>2
    <2>2. i <= LastFull(log)
      BY <1>3, <2>1
    <2> QED
      BY <1>1, <1>3, <2>1, <2>2
  <1> QED
    BY <1>1, <1>2, <1>4

\* Another entry.
\* Recording a checkpoint leaves the earlier ones with their full checkpoints.
LEMMA GrownBases ==
  ASSUME NEW log, Log(log), Recordable(job), NEW b, b = Logged(log)
  PROVE  \A i \in DOMAIN log : BaseAt(b, i) = BaseAt(log, i)
  <1> DEFINE n == Len(log)
  <1>1. /\ log \in Seq(Entries) /\ n > 0 /\ n \in Nat /\ DOMAIN log = 1 .. n
        /\ log[1].kind = "full"
    BY LogIs DEF Log
  <1>2. /\ b \in Seq(Entries) /\ Len(b) = n + 1
        /\ \A i \in 1 .. n : b[i] = log[i]
    BY <1>1, LoggedIs
  <1> HIDE DEF n
  <1>3. Alike(b, log, n)
    BY <1>2 DEF Alike
  <1> QED
    BY <1>1, <1>3, BasesAlike

LEMMA GrownIs ==
  ASSUME NEW log, Log(log), Recordable(job), NEW b, b = Logged(log), NEW n, n = Len(log)
  PROVE  /\ Log(b) /\ n \in Nat /\ n + 1 \in DOMAIN b
         /\ DOMAIN log = 1 .. n /\ DOMAIN b = DOMAIN log \cup {n + 1} /\ n + 1 \notin DOMAIN log
         /\ \A i \in DOMAIN log : b[i] = log[i]
         /\ b[n + 1] = Entry(job)
         /\ job.kind = "full" => /\ LastFull(b) = n + 1 /\ BaseAt(b, n + 1) = n + 1
                                 /\ Fulls(b) = Fulls(log) \cup {n + 1}
         /\ job.kind = "delta" => /\ LastFull(b) = LastFull(log)
                                  /\ BaseAt(b, n + 1) = LastFull(log)
                                  /\ Fulls(b) = Fulls(log)
  <1>1. /\ log \in Seq(Entries) /\ n > 0 /\ n \in Nat /\ DOMAIN log = 1 .. n
        /\ log[1].kind = "full"
    BY LogIs DEF Log
  <1>2. /\ b \in Seq(Entries) /\ Len(b) = n + 1
        /\ \A i \in 1 .. n : b[i] = log[i]
        /\ b[n + 1] = Entry(job) /\ b = Append(log, Entry(job))
    BY <1>1, LoggedIs
  <1> HIDE DEF Entry
  <1>3. /\ DOMAIN b = 1 .. n + 1 /\ DOMAIN b = DOMAIN log \cup {n + 1} /\ n + 1 \notin DOMAIN log
    BY <1>1, <1>2, LenProperties
  <1>4. Log(b)
    <2>1. b[1] = log[1] /\ Len(b) > 0
      BY <1>1, <1>2
    <2> QED
      BY <1>1, <1>2, <2>1 DEF Log
  <1>6. Entry(job).kind = job.kind
    BY DEF Entry
  <1>7. \A i : i \in Fulls(b) <=> i \in Fulls(log) \/ (i = n + 1 /\ job.kind = "full")
    BY <1>1, <1>2, <1>3, <1>6 DEF Fulls
  <1>8. /\ LastFull(b) \in 1 .. n + 1 /\ LastFull(b) \in Fulls(b)
        /\ \A j \in Fulls(b) : j <= LastFull(b)
        /\ \A i \in DOMAIN b : BaseAt(b, i) = LastFull(b) <=> i >= LastFull(b)
    BY <1>2, <1>4, LastIs
  <1>9. /\ LastFull(log) \in 1 .. n /\ LastFull(log) \in Fulls(log)
        /\ \A j \in Fulls(log) : j <= LastFull(log)
    BY LastIs
  <1>10. ASSUME job.kind = "full"
         PROVE  LastFull(b) = n + 1 /\ BaseAt(b, n + 1) = n + 1 /\ Fulls(b) = Fulls(log) \cup {n + 1}
    <2>1. n + 1 \in Fulls(b) /\ Fulls(b) = Fulls(log) \cup {n + 1}
      BY <1>7, <1>10
    <2>2. n + 1 <= LastFull(b)
      BY <1>8, <2>1
    <2>3. LastFull(b) = n + 1
      BY <1>1, <1>8, <2>2
    <2>4. n + 1 >= LastFull(b) /\ n + 1 \in DOMAIN b
      BY <1>1, <1>3, <2>3
    <2> QED
      BY <1>8, <2>1, <2>3, <2>4
  <1>11. ASSUME job.kind = "delta"
         PROVE  /\ LastFull(b) = LastFull(log) /\ BaseAt(b, n + 1) = LastFull(log)
                /\ Fulls(b) = Fulls(log)
    <2>1. Fulls(b) = Fulls(log)
      BY <1>7, <1>11
    <2>2. LastFull(b) <= LastFull(log) /\ LastFull(log) <= LastFull(b)
      BY <1>8, <1>9, <2>1
    <2>3. LastFull(b) = LastFull(log)
      BY <1>1, <1>8, <1>9, <2>2
    <2>4. n + 1 >= LastFull(b) /\ n + 1 \in DOMAIN b
      BY <1>1, <1>3, <1>8
    <2> QED
      BY <1>8, <2>1, <2>3, <2>4
  <1> QED
    BY <1>1, <1>2, <1>3, <1>4, <1>10, <1>11

LEMMA UponIs ==
  ASSUME NEW log, Log(log), NEW B
  PROVE  /\ DeltasUpon(log, B) \subseteq DOMAIN log
         /\ \A i \in DOMAIN log :
              i \in DeltasUpon(log, B) <=> log[i].kind = "delta" /\ BaseAt(log, i) \in B
  BY DEF DeltasUpon

LEMMA FirstFollows ==
  ASSUME Recordable(job), job.kind = "full"
  PROVE  ListInv(UpdateLatestFullCheckpoint(None, job.target))
  <1> DEFINE t == UpdateLatestFullCheckpoint(None, job.target)
             e == Entry(job)
  <1>1. /\ t \in Lists /\ t.full = job.target /\ t.deltas = <<>> /\ t.history_versions = <<>>
        /\ t.log = Logged(<<>>)
    BY FirstListIs DEF Recordable
  <1>2. e.name = job.target /\ e.kind = "full" /\ e.kept = TRUE /\ e \in Entries
    BY DEF Entry, Entries, Recordable
  <1>3. Logged(<<>>) = <<e>>
    BY DEF Logged, Entry
  <1> HIDE DEF t, e
  <1>4. t.log \in Seq(Entries) /\ Len(t.log) = 1 /\ DOMAIN t.log = {1} /\ t.log[1] = e
    <2>1. t.log = <<e>>
      BY <1>1, <1>3
    <2>2. <<e>> \in Seq(Entries) /\ Len(<<e>>) = 1 /\ DOMAIN <<e>> = {1} /\ <<e>>[1] = e
      BY <1>2
    <2> QED
      BY <2>1, <2>2
  <1>5. Log(t.log)
    BY <1>2, <1>4 DEF Log
  <1>6. LastFull(t.log) = 1 /\ Fulls(t.log) \subseteq {1}
    BY <1>4, <1>5, LastIs, LogIs
  <1>7. KeptBefore(t.log) = {}
    BY <1>6 DEF KeptBefore, LastFull
  <1>8. DeltasUpon(t.log, {1}) = {}
    BY <1>2, <1>4 DEF DeltasUpon
  <1>9. DOMAIN t.history_versions = {}
    BY <1>1
  <1>10. FollowsLog(t)
    BY <1>1, <1>2, <1>4, <1>6, <1>7, <1>8, <1>9, NoneInOrder, FollowsIs
  <1> QED
    BY <1>2, <1>4, <1>5, <1>6, <1>10 DEF ListInv, t

LEMMA FullFollows ==
  ASSUME NEW s \in Lists, ListInv(s), Recordable(job), job.kind = "full"
  PROVE  ListInv(UpdateLatestFullCheckpoint(s, job.target))
  <1> DEFINE t == UpdateLatestFullCheckpoint(s, job.target)
             a == s.log
             b == t.log
             n == Len(s.log)
             m == LastFull(s.log)
             g == GetDeltas(s, s.full)
             h == s.history_versions
  <1>1. /\ t \in Lists /\ t.full = job.target /\ t.deltas = <<>>
        /\ t.history_versions = Entered(h, s.full, g \o s.deltas)
        /\ b = Logged(a) /\ g \in Seq(Steps)
    BY FullIs DEF Recordable
  <1>2. s.deltas \in Seq(Steps)
    BY ListIs
  <1>3. Log(a) /\ a[m].kept /\ FollowsLog(s)
    BY DEF ListInv
  <1>4. /\ s.full = a[m].name
        /\ InOrder(a, DeltasUpon(a, {m}), s.deltas)
        /\ DOMAIN h = {a[i].name : i \in KeptBefore(a)}
        /\ \A f \in DOMAIN h : InOrder(a, DeltasUpon(a, OldOnes(a, f)), h[f])
    BY <1>3, FollowsIs
  <1> HIDE DEF t
  <1>5. /\ Log(b) /\ n \in Nat /\ n + 1 \in DOMAIN b
        /\ DOMAIN a = 1 .. n /\ DOMAIN b = DOMAIN a \cup {n + 1} /\ n + 1 \notin DOMAIN a
        /\ \A i \in DOMAIN a : b[i] = a[i]
        /\ b[n + 1] = Entry(job)
        /\ \A i \in DOMAIN a : BaseAt(b, i) = BaseAt(a, i)
        /\ LastFull(b) = n + 1 /\ BaseAt(b, n + 1) = n + 1
        /\ Fulls(b) = Fulls(a) \cup {n + 1}
    <2>1. b = Logged(a) /\ n = Len(a) /\ Log(a)
      BY <1>1, <1>3
    <2> HIDE DEF a, b, n, m, h
    <2>2. Log(b) /\ n \in Nat /\ n + 1 \in DOMAIN b /\ n + 1 \notin DOMAIN a
      BY <2>1, GrownIs, Zenon
    <2>4. DOMAIN a = 1 .. n /\ DOMAIN b = DOMAIN a \cup {n + 1}
      BY <2>1, GrownIs, Zenon
    <2>5. ASSUME NEW i \in DOMAIN a PROVE b[i] = a[i]
      <3>1. i \in 1 .. Len(a) /\ a \in Seq(Entries)
        BY <2>1, <2>4 DEF Log
      <3>2. Logged(a)[i] = a[i]
        BY <3>1, LoggedIs
      <3> QED
        BY <2>1, <3>2
    <2>7. \A i \in DOMAIN a : BaseAt(b, i) = BaseAt(a, i)
      BY <2>1, GrownBases, Zenon
    <2>6. b[n + 1] = Entry(job)
      BY <2>1, GrownIs, Zenon
    <2>3. job.kind = "full" =>
          /\ LastFull(b) = n + 1 /\ BaseAt(b, n + 1) = n + 1
          /\ Fulls(b) = Fulls(a) \cup {n + 1}
      BY <2>1, GrownIs
    <2> QED
      BY <2>2, <2>3, <2>4, <2>5, <2>6, <2>7 DEF m, a
  <1>6. /\ m \in DOMAIN a /\ m \in Fulls(a)
        /\ \A i \in DOMAIN a : BaseAt(a, i) = m <=> i >= m
    BY <1>3, <1>5, LastIs
  <1>7. /\ KeptBefore(a) \subseteq DOMAIN a
        /\ \A i \in KeptBefore(a) : i < m
        /\ m \notin KeptBefore(a)
        /\ \A i \in DOMAIN a : i \in KeptBefore(a) <=> a[i].kind = "full" /\ i # m /\ a[i].kept
    BY <1>3, KeptIs
  <1>8. /\ \A i \in DOMAIN a : i \in Fulls(a) <=> a[i].kind = "full"
        /\ Fulls(a) \subseteq DOMAIN a
    BY <1>3, <1>5, LogIs
  <1>9. Entry(job).name = job.target /\ Entry(job).kind = "full" /\ Entry(job).kept = TRUE
    BY DEF Entry
  <1> HIDE DEF a, b, n, m, g, h
  <1>10. KeptBefore(b) = KeptBefore(a) \cup {m}
    <2>1. \A i : i \in KeptBefore(b) <=> i \in DOMAIN a /\ a[i].kind = "full" /\ a[i].kept
      BY <1>5, <1>8 DEF KeptBefore, LastFull
    <2> QED
      BY <2>1, <1>3, <1>6, <1>7, <1>8
  <1>11. ASSUME NEW f
         PROVE  OldOnes(b, f) = IF f = s.full THEN OldOnes(a, f) \cup {m} ELSE OldOnes(a, f)
    <2>1. \A i \in KeptBefore(a) \cup {m} : b[i].name = a[i].name
      BY <1>5, <1>6, <1>7
    <2> QED
      BY <2>1, <1>4, <1>10 DEF OldOnes
  <1>12. ASSUME NEW B, n + 1 \notin B
         PROVE  DeltasUpon(b, B) = DeltasUpon(a, B)
    BY <1>5, <1>9 DEF DeltasUpon
  <1>13. DeltasUpon(b, {n + 1}) = {}
    <2>1. \A i \in DOMAIN a : BaseAt(a, i) # n + 1
      BY <1>3, <1>5, BaseIs
    <2> QED
      BY <2>1, <1>5, <1>9 DEF DeltasUpon
  <1>14. ASSUME NEW B PROVE DeltasUpon(a, B \cup {m}) = DeltasUpon(a, B) \cup DeltasUpon(a, {m})
    BY DEF DeltasUpon
  <1>15. ASSUME NEW f PROVE OldOnes(a, f) \subseteq KeptBefore(a) /\ n + 1 \notin OldOnes(b, f)
    <2>1. OldOnes(a, f) \subseteq KeptBefore(a)
      BY DEF OldOnes
    <2> QED
      BY <2>1, <1>5, <1>6, <1>7, <1>11
  <1>16. ASSUME NEW B, NEW d, InOrder(a, DeltasUpon(a, B), d)
         PROVE  InOrder(b, DeltasUpon(a, B), d)
    <2>1. \A x \in DeltasUpon(a, B) : a[x].name = b[x].name
      BY <1>5 DEF DeltasUpon
    <2> QED
      BY <1>16, <2>1, InOrderAlike, Zenon
  <1>17. DOMAIN t.history_versions = DOMAIN h \cup {s.full}
    BY <1>1 DEF Entered
  <1>18. DOMAIN t.history_versions = {b[i].name : i \in KeptBefore(b)}
    <2>1. \A i \in KeptBefore(a) \cup {m} : b[i].name = a[i].name
      BY <1>5, <1>6, <1>7
    <2> QED
      BY <2>1, <1>4, <1>10, <1>17
  <1>19. ASSUME NEW f \in DOMAIN t.history_versions
         PROVE  InOrder(b, DeltasUpon(b, OldOnes(b, f)), t.history_versions[f])
    <2>1. CASE f # s.full
      <3>1. t.history_versions[f] = h[f] /\ f \in DOMAIN h
        BY <1>1, <1>17, <1>19, <2>1 DEF Entered
      <3>2. DeltasUpon(b, OldOnes(b, f)) = DeltasUpon(a, OldOnes(a, f))
        BY <2>1, <1>11, <1>12, <1>15
      <3> QED
        BY <3>1, <3>2, <1>4, <1>16
    <2>2. CASE f = s.full
      <3> DEFINE P == DeltasUpon(a, OldOnes(a, f))
                 Q == DeltasUpon(a, {m})
      <3>1. t.history_versions[f] = g \o s.deltas
        BY <1>1, <2>2 DEF Entered
      <3>2. DeltasUpon(b, OldOnes(b, f)) = P \cup Q
        BY <2>2, <1>11, <1>12, <1>14, <1>15
      <3>3. InOrder(a, P, g)
        <4>1. CASE f \in DOMAIN h
          BY <1>4, <2>2, <4>1 DEF GetDeltas, g, h
        <4>2. CASE f \notin DOMAIN h
          <5>1. g = <<>>
            BY <2>2, <4>2 DEF GetDeltas, g, h
          <5>2. OldOnes(a, f) = {}
            BY <4>2, <1>4 DEF OldOnes
          <5>3. P = {}
            BY <5>2 DEF DeltasUpon
          <5> QED
            BY <5>1, <5>3, NoneInOrder
        <4> QED
          BY <4>1, <4>2
      <3>4. P \subseteq DOMAIN a /\ Q \subseteq DOMAIN a
        BY DEF DeltasUpon
      <3>5. \A x \in P : \A y \in Q : x < y
        <4> SUFFICES ASSUME NEW x \in P, NEW y \in Q PROVE x < y
          OBVIOUS
        <4>1. x \in DOMAIN a /\ BaseAt(a, x) \in KeptBefore(a)
          BY <1>15 DEF DeltasUpon
        <4>2. y \in DOMAIN a /\ BaseAt(a, y) = m
          BY DEF DeltasUpon
        <4>3. ~(x >= m) /\ y >= m
          BY <4>1, <4>2, <1>6, <1>7
        <4> QED
          BY <4>1, <4>2, <4>3, <1>5, <1>6
      <3>6. P \subseteq Nat /\ Q \subseteq Nat
        <4>1. DOMAIN a \subseteq Nat
          BY <1>5
        <4> HIDE DEF P, Q
        <4> QED
          BY <3>4, <4>1
      <3>7. InOrder(b, P, g) /\ InOrder(b, Q, s.deltas)
        BY <3>3, <1>4, <1>16
      <3> HIDE DEF P, Q
      <3>8. InOrder(b, P \cup Q, g \o s.deltas)
        BY <3>5, <3>6, <3>7, <1>1, <1>2, RowsInOrder
      <3> QED
        BY <3>1, <3>2, <3>8
    <2> QED
      BY <2>1, <2>2
  <1>20. FollowsLog(t)
    <2>1. t.full = b[LastFull(b)].name
      BY <1>1, <1>5, <1>9
    <2>2. InOrder(b, DeltasUpon(b, {LastFull(b)}), t.deltas)
      BY <1>1, <1>5, <1>13, NoneInOrder, ZenonT(30)
    <2> QED
      BY <2>1, <2>2, <1>18, <1>19, FollowsIs DEF b
  <1> QED
    BY <1>5, <1>9, <1>20 DEF ListInv, t, b

LEMMA DeltaFollows ==
  ASSUME NEW s \in Lists, ListInv(s), Recordable(job), job.kind = "delta"
  PROVE  ListInv(AddDeltaCheckpoint(s, job.target))
  <1> DEFINE t == AddDeltaCheckpoint(s, job.target)
             a == s.log
             b == t.log
             n == Len(s.log)
             m == LastFull(s.log)
             h == s.history_versions
  <1>1. /\ t \in Lists /\ t.full = s.full /\ t.deltas = Append(s.deltas, job.target)
        /\ t.history_versions = h
        /\ b = Logged(a)
    BY DeltaIs DEF Recordable
  <1>2. s.deltas \in Seq(Steps) /\ job.target \in Steps
    BY ListIs DEF Recordable
  <1>3. Log(a) /\ a[m].kept /\ FollowsLog(s)
    BY DEF ListInv
  <1>4. /\ s.full = a[m].name
        /\ InOrder(a, DeltasUpon(a, {m}), s.deltas)
        /\ DOMAIN h = {a[i].name : i \in KeptBefore(a)}
        /\ \A f \in DOMAIN h : InOrder(a, DeltasUpon(a, OldOnes(a, f)), h[f])
    BY <1>3, FollowsIs
  <1> HIDE DEF t
  <1>5. /\ Log(b) /\ n \in Nat /\ n + 1 \in DOMAIN b
        /\ DOMAIN a = 1 .. n /\ DOMAIN b = DOMAIN a \cup {n + 1} /\ n + 1 \notin DOMAIN a
        /\ \A i \in DOMAIN a : b[i] = a[i]
        /\ b[n + 1] = Entry(job)
        /\ \A i \in DOMAIN a : BaseAt(b, i) = BaseAt(a, i)
        /\ LastFull(b) = m /\ BaseAt(b, n + 1) = m
        /\ Fulls(b) = Fulls(a)
    <2>1. b = Logged(a) /\ n = Len(a) /\ Log(a)
      BY <1>1, <1>3
    <2> HIDE DEF a, b, n, m, h
    <2>2. Log(b) /\ n \in Nat /\ n + 1 \in DOMAIN b /\ n + 1 \notin DOMAIN a
      BY <2>1, GrownIs, Zenon
    <2>4. DOMAIN a = 1 .. n /\ DOMAIN b = DOMAIN a \cup {n + 1}
      BY <2>1, GrownIs, Zenon
    <2>5. ASSUME NEW i \in DOMAIN a PROVE b[i] = a[i]
      <3>1. i \in 1 .. Len(a) /\ a \in Seq(Entries)
        BY <2>1, <2>4 DEF Log
      <3>2. Logged(a)[i] = a[i]
        BY <3>1, LoggedIs
      <3> QED
        BY <2>1, <3>2
    <2>7. \A i \in DOMAIN a : BaseAt(b, i) = BaseAt(a, i)
      BY <2>1, GrownBases, Zenon
    <2>6. b[n + 1] = Entry(job)
      BY <2>1, GrownIs, Zenon
    <2>3. job.kind = "delta" =>
          /\ LastFull(b) = LastFull(a) /\ BaseAt(b, n + 1) = LastFull(a)
          /\ Fulls(b) = Fulls(a)
      BY <2>1, GrownIs
    <2> QED
      BY <2>2, <2>3, <2>4, <2>5, <2>6, <2>7 DEF m, a
  <1>6. m \in DOMAIN a
    BY <1>3, <1>5, LastIs
  <1>7. KeptBefore(a) \subseteq DOMAIN a /\ m \notin KeptBefore(a)
    BY <1>3, KeptIs
  <1>8. Fulls(a) \subseteq DOMAIN a
    BY <1>3, <1>5, LogIs
  <1>9. Entry(job).name = job.target /\ Entry(job).kind = "delta"
    BY DEF Entry
  <1> HIDE DEF a, b, n, h
  <1>10. KeptBefore(b) = KeptBefore(a)
    <2>1. \A i \in Fulls(a) : b[i].kept = a[i].kept
      BY <1>5, <1>8
    <2>2. Max(Fulls(b)) = Max(Fulls(a))
      BY <1>5
    <2> QED
      BY <2>1, <2>2, <1>5 DEF KeptBefore
  <1> HIDE DEF m
  <1>11. \A i \in KeptBefore(a) : b[i].name = a[i].name
    BY <1>5, <1>7
  <1>12. ASSUME NEW f
         PROVE  OldOnes(b, f) = OldOnes(a, f) /\ m \notin OldOnes(a, f)
    BY <1>7, <1>10, <1>11 DEF OldOnes
  <1>13. ASSUME NEW B, m \notin B
         PROVE  DeltasUpon(b, B) = DeltasUpon(a, B)
    BY <1>5, <1>13 DEF DeltasUpon
  <1>14. DeltasUpon(b, {m}) = DeltasUpon(a, {m}) \cup {n + 1}
    BY <1>5, <1>9 DEF DeltasUpon
  <1>15. ASSUME NEW B, NEW d, InOrder(a, DeltasUpon(a, B), d)
         PROVE  InOrder(b, DeltasUpon(a, B), d)
    <2>1. \A x \in DeltasUpon(a, B) : a[x].name = b[x].name
      BY <1>5 DEF DeltasUpon
    <2> QED
      BY <1>15, <2>1, InOrderAlike, Zenon
  <1>16. InOrder(b, DeltasUpon(b, {LastFull(b)}), t.deltas)
    <2> DEFINE P == DeltasUpon(a, {m})
               x == n + 1
               e == <<job.target>>
    <2>1. InOrder(b, P, s.deltas)
      BY <1>4, <1>15 DEF m
    <2>2. InOrder(b, {x}, <<b[x].name>>)
      BY OneInOrder
    <2>3. b[x].name = job.target
      BY <1>5, <1>9
    <2>4. P \subseteq Nat /\ x \in Nat /\ \A y \in P : y < x
      <3>1. P \subseteq 1 .. n
        BY <1>5 DEF DeltasUpon
      <3> HIDE DEF P
      <3> QED
        BY <3>1, <1>5
    <2>5. e \in Seq(Steps) /\ t.deltas = s.deltas \o e
      BY <1>1, <1>2, AppendIsConcat
    <2>6. InOrder(b, {x}, e)
      BY <2>2, <2>3
    <2> HIDE DEF P, x, e
    <2>7. \A y \in P : \A z \in {x} : y < z
      BY <2>4
    <2>8. {x} \subseteq Nat
      BY <2>4
    <2>9. InOrder(b, P \cup {x}, s.deltas \o e)
      BY <2>1, <2>4, <2>5, <2>6, <2>7, <2>8, <1>2, RowsInOrder
    <2> QED
      BY <2>5, <2>9, <1>5, <1>14 DEF P, x
  <1>17. DOMAIN t.history_versions = {b[i].name : i \in KeptBefore(b)}
    BY <1>1, <1>4, <1>10, <1>11
  <1>18. ASSUME NEW f \in DOMAIN t.history_versions
         PROVE  InOrder(b, DeltasUpon(b, OldOnes(b, f)), t.history_versions[f])
    <2>1. DeltasUpon(b, OldOnes(b, f)) = DeltasUpon(a, OldOnes(a, f))
      BY <1>12, <1>13
    <2> QED
      BY <2>1, <1>1, <1>4, <1>15, <1>18
  <1>19. FollowsLog(t)
    <2>1. t.full = b[LastFull(b)].name
      BY <1>1, <1>4, <1>5, <1>6 DEF m
    <2> QED
      BY <2>1, <1>16, <1>17, <1>18, FollowsIs DEF b
  <1>20. b[LastFull(b)].kept
    BY <1>3, <1>5, <1>6 DEF m
  <1> QED
    BY <1>5, <1>19, <1>20 DEF ListInv, t, b

LEMMA DropFollows ==
  ASSUME NEW s \in Lists, ListInv(s), NEW f \in DOMAIN s.history_versions
  PROVE  ListInv(DropVersion(s, f))
  <1> DEFINE t == DropVersion(s, f)
             a == s.log
             b == t.log
             n == Len(s.log)
             m == LastFull(s.log)
             h == s.history_versions
  <1>1. f \in Steps
    BY ListIs, HistoryIs
  <1>2. /\ t \in Lists /\ t.full = s.full /\ t.deltas = s.deltas
        /\ t.history_versions = [g \in DOMAIN h \ {f} |-> h[g]]
        /\ DOMAIN b = DOMAIN a /\ Len(b) = n
        /\ \A i \in DOMAIN a :
             /\ b[i].name = a[i].name /\ b[i].kind = a[i].kind
             /\ b[i].kept = (a[i].kept /\ ~OfOldVersion(a, i, f))
    BY <1>1, DropIs
  <1>3. Log(a) /\ a[m].kept /\ FollowsLog(s)
    BY DEF ListInv
  <1>4. /\ s.full = a[m].name
        /\ InOrder(a, DeltasUpon(a, {m}), s.deltas)
        /\ DOMAIN h = {a[i].name : i \in KeptBefore(a)}
        /\ \A g \in DOMAIN h : InOrder(a, DeltasUpon(a, OldOnes(a, g)), h[g])
    BY <1>3, FollowsIs
  <1> HIDE DEF t
  <1>5. n \in Nat /\ DOMAIN a = 1 .. n /\ n > 0 /\ a[1].kind = "full"
    BY <1>3, LogIs DEF Log
  <1>6. Log(b)
    <2>1. b \in Seq(Entries)
      BY <1>2, ListIs
    <2>2. 1 \in DOMAIN a
      BY <1>5
    <2> QED
      BY <2>1, <2>2, <1>2, <1>5 DEF Log
  <1> HIDE DEF b
  <1>7. \A i \in DOMAIN a : BaseAt(b, i) = BaseAt(a, i)
    <2>1. Alike(b, a, n)
      BY <1>2, <1>5 DEF Alike
    <2> QED
      BY <1>5, <2>1, BasesAlike
  <1>8. Fulls(b) = Fulls(a)
    BY <1>2 DEF Fulls
  <1>9. LastFull(b) = m
    BY <1>8 DEF LastFull
  <1>10. /\ m \in DOMAIN a /\ \A i \in DOMAIN a : BaseAt(a, i) = m <=> i >= m
         /\ m \in Fulls(a)
    BY <1>3, <1>5, LastIs
  <1>11. BaseAt(a, n) = m /\ BaseAt(a, m) = m
    <2>1. n >= m /\ m >= m /\ n \in DOMAIN a
      BY <1>5, <1>10
    <2> QED
      BY <2>1, <1>10
  <1>12. ASSUME NEW i \in Fulls(a), i \in DOMAIN a
         PROVE  OfOldVersion(a, i, f) <=> a[i].name = f /\ i # m
    <2>1. BaseAt(a, i) = i
      BY <1>3, <1>12, BaseIs
    <2>2. BaseAt(a, Len(a)) = m
      BY <1>11
    <2> QED
      BY <2>1, <2>2 DEF OfOldVersion
  <1>13. b[m].kept
    BY <1>2, <1>3, <1>10, <1>12
  <1>14. \A i \in DOMAIN a : i \in Fulls(a) <=> a[i].kind = "full"
    BY <1>3, LogIs
  <1>15. \A i \in DOMAIN a : i \in KeptBefore(a) <=> a[i].kind = "full" /\ i # m /\ a[i].kept
    BY <1>3, KeptIs
  <1>16. \A i \in DOMAIN a : i \in KeptBefore(b) <=> b[i].kind = "full" /\ i # m /\ b[i].kept
    BY <1>2, <1>6, <1>9, KeptIs
  <1>17. KeptBefore(a) \subseteq DOMAIN a /\ KeptBefore(b) \subseteq DOMAIN a
    BY <1>2, <1>3, <1>6, KeptIs
  <1> HIDE DEF a, n, m, h
  <1>18. \A i \in DOMAIN a : i \in KeptBefore(b) <=> i \in KeptBefore(a) /\ a[i].name # f
    <2> SUFFICES ASSUME NEW i \in DOMAIN a
                 PROVE  i \in KeptBefore(b) <=> i \in KeptBefore(a) /\ a[i].name # f
      OBVIOUS
    <2>1. b[i].kept <=> a[i].kept /\ ~OfOldVersion(a, i, f)
      BY <1>2, Zenon
    <2>2. b[i].kind = a[i].kind
      BY <1>2
    <2>3. i \in KeptBefore(b) <=> a[i].kind = "full" /\ i # m /\ b[i].kept
      BY <2>2, <1>16
    <2>4. i \in KeptBefore(a) <=> a[i].kind = "full" /\ i # m /\ a[i].kept
      BY <1>15
    <2>5. CASE a[i].kind = "full"
      <3>1. OfOldVersion(a, i, f) <=> a[i].name = f /\ i # m
        BY <2>5, <1>12, <1>14
      <3> QED
        BY <2>1, <2>3, <2>4, <3>1, Zenon
    <2> QED
      BY <2>3, <2>4, <2>5, Zenon
  <1>19. KeptBefore(b) = {i \in KeptBefore(a) : a[i].name # f}
    BY <1>17, <1>18
  <1>20. DOMAIN t.history_versions = {b[i].name : i \in KeptBefore(b)}
    <2>1. DOMAIN t.history_versions = DOMAIN h \ {f}
      BY <1>2
    <2>2. \A i \in KeptBefore(a) : b[i].name = a[i].name
      BY <1>2, <1>17
    <2> QED
      BY <2>1, <2>2, <1>4, <1>19
  <1>21. ASSUME NEW B PROVE DeltasUpon(b, B) = DeltasUpon(a, B)
    BY <1>2, <1>7 DEF DeltasUpon
  <1>22. ASSUME NEW B, NEW d, InOrder(a, DeltasUpon(a, B), d)
         PROVE  InOrder(b, DeltasUpon(b, B), d)
    <2>1. \A x \in DeltasUpon(a, B) : a[x].name = b[x].name
      BY <1>2 DEF DeltasUpon
    <2>2. InOrder(b, DeltasUpon(a, B), d)
      BY <1>22, <2>1, InOrderAlike, Zenon
    <2> QED
      BY <2>2, <1>21
  <1>23. ASSUME NEW g \in DOMAIN t.history_versions
         PROVE  InOrder(b, DeltasUpon(b, OldOnes(b, g)), t.history_versions[g])
    <2>1. g \in DOMAIN h /\ g # f /\ t.history_versions[g] = h[g]
      BY <1>2, <1>23
    <2>2. \A i \in KeptBefore(a) : b[i].name = a[i].name
      BY <1>2, <1>17
    <2>3. OldOnes(b, g) = OldOnes(a, g)
      BY <1>19, <2>1, <2>2 DEF OldOnes
    <2> QED
      BY <2>1, <2>3, <1>4, <1>22
  <1>24. FollowsLog(t)
    <2>1. t.full = b[LastFull(b)].name
      BY <1>2, <1>4, <1>9, <1>10
    <2>2. InOrder(b, DeltasUpon(b, {LastFull(b)}), t.deltas)
      BY <1>2, <1>4, <1>9, <1>22
    <2> QED
      BY <2>1, <2>2, <1>20, <1>23, FollowsIs DEF b
  <1> QED
    BY <1>6, <1>9, <1>13, <1>24 DEF ListInv, t, b

-----------------------------------------------------------------------------
(* Every step keeps that.                                                  *)

\* How the list changes: it is dropped or read again, a checkpoint is
\* recorded, or an old version leaves it.
Unrecorded == state' \in {state, None, Durable}

FullRecorded ==
  /\ job.kind = "full" /\ Recordable(job)
  /\ state' = UpdateLatestFullCheckpoint(state, job.target)

DeltaRecorded ==
  /\ job.kind = "delta" /\ Recordable(job) /\ state # None
  /\ state' = AddDeltaCheckpoint(state, job.target)

VersionDropped ==
  /\ state # None
  /\ \E f \in DOMAIN state.history_versions : state' = DropVersion(state, f)

LEMMA ListChanges ==
  ASSUME FilesInv, [Next]_vars
  PROVE  /\ Unrecorded \/ FullRecorded \/ DeltaRecorded \/ VersionDropped
         /\ Durable' = Durable \/ (Durable' = state /\ state # None)
  <1>1. /\ objects'[StateFile] = objects[StateFile] => Durable' = Durable
        /\ PutInPlace => \/ job.target \in Steps /\ Durable' = Durable
                         \/ /\ job.target = StateFile /\ Durable' = state /\ state' = state
                            /\ state \in Lists /\ state # None
        /\ Deleted => Durable' = Durable
    BY DurableNext
  <1>2. StateFile \in Real
    BY DEF Real
  <1>3. CASE Quiet \/ Ended
    BY <1>1, <1>2, <1>3 DEF Quiet, Ended, Unrecorded
  <1>4. CASE PutInPlace \/ Deleted
    BY <1>1, <1>4 DEF PutInPlace, Deleted, Unrecorded
  <1>5. CASE \E kind \in {"full", "delta"} : Save(kind)
    BY <1>1, <1>5 DEF Save, Unrecorded
  <1>6. CASE Recorded
    <2>1. /\ job.op = "record" /\ ~(job.kind = "delta" /\ state = None)
          /\ objects' = objects
          /\ state' = IF job.kind = "full" THEN UpdateLatestFullCheckpoint(state, job.target)
                      ELSE AddDeltaCheckpoint(state, job.target)
      BY <1>6 DEF Recorded, Record
    <2>2. Recordable(job) /\ job.kind \in {"full", "delta"}
      BY <2>1, RecordIs DEF Recordable
    <2>3. FullRecorded \/ DeltaRecorded
      BY <2>1, <2>2 DEF FullRecorded, DeltaRecorded
    <2> QED
      BY <1>1, <2>1, <2>3
  <1>7. CASE \E f \in Steps : RemoveOldCheckpoint(f) \/ DeleteSpecifiedHistoryVersion(f)
    <2>1. PICK f \in Steps : CanDrop(f) /\ state' = DropVersion(state, f) /\ objects' = objects
      BY <1>7 DEF RemoveOldCheckpoint, DeleteSpecifiedHistoryVersion
    <2> QED
      BY <1>1, <2>1 DEF CanDrop, VersionDropped
  <1>8. CASE AllRemoved
    BY <1>1, <1>8 DEF AllRemoved, Unrecorded
  <1>9. CASE Crash
    BY <1>1, <1>9 DEF Crash, Unrecorded
  <1>10. CASE Load
    BY <1>1, <1>10 DEF Load, Restart, Unrecorded
  <1>11. Steppings
    BY EveryStep
  <1> QED
    BY <1>3, <1>4, <1>5, <1>6, <1>7, <1>8, <1>9, <1>10, <1>11 DEF Steppings

ListsInv ==
  /\ state # None => ListInv(state)
  /\ Durable # None => ListInv(Durable)

LEMMA ListsKept ==
  ASSUME FilesInv, ListsInv, [Next]_vars
  PROVE  ListsInv'
  <1>1. /\ Unrecorded \/ FullRecorded \/ DeltaRecorded \/ VersionDropped
        /\ Durable' = Durable \/ (Durable' = state /\ state # None)
    BY ListChanges
  <1>2. ASSUME NEW s, NEW t, s = t, ListInv(s) PROVE ListInv(t)
    BY <1>2
  <1>3. Durable' # None => ListInv(Durable')
    BY <1>1 DEF ListsInv
  <1>4. state # None => state \in Lists
    BY DEF FilesInv, Types
  <1>5. ASSUME Unrecorded PROVE state' # None => ListInv(state')
    BY <1>5 DEF Unrecorded, ListsInv
  <1>6. ASSUME FullRecorded PROVE ListInv(state')
    BY <1>4, <1>6, FirstFollows, FullFollows DEF FullRecorded, ListsInv
  <1>7. ASSUME DeltaRecorded PROVE ListInv(state')
    BY <1>4, <1>7, DeltaFollows DEF DeltaRecorded, ListsInv
  <1>8. ASSUME VersionDropped PROVE ListInv(state')
    BY <1>4, <1>8, DropFollows DEF VersionDropped, ListsInv
  <1>9. state' # None => ListInv(state')
    BY <1>1, <1>5, <1>6, <1>7, <1>8
  <1> QED
    BY <1>3, <1>9 DEF ListsInv

LEMMA ListsAre ==
  ASSUME ListsInv
  PROVE  ChainFollowsLog
  BY DEF ListsInv, ListInv, ChainFollowsLog

-----------------------------------------------------------------------------
(* Where the checkpoints of a list are in its log.                         *)

LEMMA CurrentPlace ==
  ASSUME NEW s \in Lists, ListInv(s), NEW c \in Current(s)
  PROVE  \E p \in DOMAIN s.log : p >= LastFull(s.log) /\ s.log[p].name = c
  <1> DEFINE a == s.log
             m == LastFull(a)
  <1>1. Log(a) /\ s.full = a[m].name /\ InOrder(a, DeltasUpon(a, {m}), s.deltas)
    BY FollowsIs DEF ListInv
  <1>2. /\ m \in DOMAIN a /\ m \in Nat /\ \A i \in DOMAIN a : BaseAt(a, i) = m <=> i >= m
    BY <1>1, LastIs, LogIs
  <1> HIDE DEF a, m
  <1>3. CASE c = s.full
    <2>1. m >= m
      BY <1>2
    <2> QED
      BY <1>1, <1>2, <1>3, <2>1 DEF a, m
  <1>4. CASE c \in Range(s.deltas)
    <2>1. PICK x \in DeltasUpon(a, {m}) : a[x].name = c
      BY <1>1, <1>4, PlacesIs
    <2>2. x \in DOMAIN a /\ BaseAt(a, x) = m
      BY DEF DeltasUpon
    <2> QED
      BY <1>2, <2>1, <2>2 DEF a, m
  <1> QED
    BY <1>3, <1>4 DEF Current

LEMMA OldPlace ==
  ASSUME NEW s \in Lists, ListInv(s), NEW f \in DOMAIN s.history_versions,
         NEW c \in OfVersion(s, f)
  PROVE  \E p \in DOMAIN s.log : /\ p < LastFull(s.log) /\ s.log[p].name = c
                                 /\ s.log[BaseAt(s.log, p)].name = f
  <1> DEFINE a == s.log
             m == LastFull(a)
             h == s.history_versions
  <1>1. /\ Log(a)
        /\ DOMAIN h = {a[i].name : i \in KeptBefore(a)}
        /\ InOrder(a, DeltasUpon(a, OldOnes(a, f)), h[f])
    BY FollowsIs DEF ListInv
  <1>2. /\ m \in Nat /\ DOMAIN a \subseteq Nat
        /\ \A i \in DOMAIN a : BaseAt(a, i) = m <=> i >= m
    BY <1>1, LastIs, LogIs
  <1>3. /\ KeptBefore(a) \subseteq DOMAIN a /\ KeptBefore(a) \subseteq Fulls(a)
        /\ m \notin KeptBefore(a) /\ \A i \in KeptBefore(a) : i < m
    BY <1>1, KeptIs
  <1> HIDE DEF a, m, h
  <1>4. CASE c = f
    <2>1. PICK i \in KeptBefore(a) : a[i].name = f
      BY <1>1 DEF h
    <2>2. BaseAt(a, i) = i
      BY <1>1, <1>3, BaseIs
    <2> QED
      BY <1>3, <1>4, <2>1, <2>2 DEF a, m
  <1>5. CASE c \in Range(h[f])
    <2>1. PICK x \in DeltasUpon(a, OldOnes(a, f)) : a[x].name = c
      BY <1>1, <1>5, PlacesIs
    <2>2. x \in DOMAIN a /\ BaseAt(a, x) \in OldOnes(a, f)
      BY DEF DeltasUpon
    <2>3. BaseAt(a, x) \in KeptBefore(a) /\ a[BaseAt(a, x)].name = f
      BY <2>2 DEF OldOnes
    <2>4. ~(x >= m)
      BY <1>2, <1>3, <2>2, <2>3
    <2>5. x < m
      BY <1>2, <2>2, <2>4
    <2> QED
      BY <2>1, <2>2, <2>3, <2>5 DEF a, m
  <1> QED
    BY <1>4, <1>5 DEF OfVersion, h

\* The latest checkpoint is the last that was recorded.
LEMMA LatestPlace ==
  ASSUME NEW s \in Lists, ListInv(s)
  PROVE  LatestCheckpoint(s) = s.log[Len(s.log)].name
  <1> DEFINE a == s.log
             m == LastFull(a)
             n == Len(a)
             d == s.deltas
             P == DeltasUpon(a, {m})
  <1>1. Log(a) /\ s.full = a[m].name /\ InOrder(a, P, d)
    BY FollowsIs DEF ListInv
  <1>2. /\ n \in Nat \ {0} /\ DOMAIN a = 1 .. n
        /\ \A i \in DOMAIN a : a[i] \in Entries
        /\ \A i \in DOMAIN a : i \in Fulls(a) <=> a[i].kind = "full"
    BY <1>1, LogIs
  <1>3. /\ m \in 1 .. n /\ m \in Fulls(a) /\ \A j \in Fulls(a) : j <= m
        /\ \A i \in DOMAIN a : BaseAt(a, i) = m <=> i >= m
    BY <1>1, LastIs
  <1>4. d \in Seq(Steps) /\ DOMAIN d = 1 .. Len(d) /\ Len(d) \in Nat
    BY ListIs, LenProperties
  <1> HIDE DEF a, m, n, d
  <1>5. n \in DOMAIN a /\ (n # m => n \in P)
    <2>1. n \in DOMAIN a
      BY <1>2
    <2>2. ASSUME n # m PROVE n \in P
      <3>1. n > m /\ n >= m
        BY <1>2, <1>3, <2>2
      <3>2. n \notin Fulls(a)
        BY <1>2, <1>3, <3>1
      <3>3. a[n].kind = "delta"
        BY <1>2, <2>1, <3>2 DEF Entries
      <3> QED
        BY <1>3, <2>1, <3>1, <3>3 DEF DeltasUpon
    <2> QED
      BY <2>1, <2>2
  <1>6. PICK at \in [DOMAIN d -> P] :
             /\ \A x \in P : \E k \in DOMAIN d : at[k] = x
             /\ \A j, k \in DOMAIN d : j < k => at[j] < at[k]
             /\ \A k \in DOMAIN d : d[k] = a[at[k]].name
    BY <1>1, InOrderIs
  <1>7. \A x \in P : x \in 1 .. n /\ x # m
    <2>1. \A x \in P : x \in DOMAIN a /\ a[x].kind = "delta"
      BY DEF DeltasUpon
    <2>2. a[m].kind = "full"
      BY <1>2, <1>3
    <2> QED
      BY <1>2, <2>1, <2>2
  <1> HIDE DEF P
  <1>8. CASE d = <<>>
    <2>1. P = {}
      BY <1>4, <1>6, <1>8
    <2>2. n = m
      BY <1>5, <2>1
    <2> QED
      BY <1>1, <1>8, <2>2 DEF LatestCheckpoint, d, a, n
  <1>9. CASE d # <<>>
    <2> DEFINE k == Len(d)
    <2>1. k \in DOMAIN d
      BY <1>4, <1>9
    <2> HIDE DEF k
    <2>2. at[k] \in P
      BY <1>6, <2>1
    <2>3. n \in P
      <3>1. CASE n = m
        <4>1. at[k] \in 1 .. n /\ at[k] # m
          BY <1>7, <2>2
        <4>2. at[k] \in DOMAIN a /\ BaseAt(a, at[k]) = m
          BY <2>2 DEF P, DeltasUpon
        <4>3. at[k] >= m
          BY <1>3, <4>2
        <4> QED
          BY <1>2, <3>1, <4>1, <4>3
      <3> QED
        BY <1>5, <3>1
    <2>4. PICK j \in DOMAIN d : at[j] = n
      BY <1>6, <2>3
    <2>5. j <= k /\ j \in Nat /\ k \in Nat
      BY <1>4, <2>1 DEF k
    <2>6. CASE j = k
      <3>1. d[k] = a[n].name
        BY <1>6, <2>1, <2>4, <2>6
      <3>2. Last(d) = d[k]
        BY DEF Last, k
      <3> QED
        BY <1>9, <3>1, <3>2 DEF LatestCheckpoint, d, a, n
    <2>7. CASE j < k
      <3>1. at[j] < at[k]
        BY <1>6, <2>1, <2>7
      <3>2. at[k] \in 1 .. n
        BY <1>7, <2>2
      <3> QED
        BY <1>2, <2>4, <3>1, <3>2
    <2> QED
      BY <2>5, <2>6, <2>7
  <1> QED
    BY <1>8, <1>9

-----------------------------------------------------------------------------
(* The names in a log, which are steps of training.                        *)

Ordered(log) == \A i, j \in DOMAIN log : i <= j => log[i].name <= log[j].name

Strictly(log) == \A i, j \in DOMAIN log : i < j => log[i].name < log[j].name

UpTo(log, x) == \A i \in DOMAIN log : log[i].name <= x

Below(log, x) == \A i \in DOMAIN log : log[i].name < x

\* One log begins as the other.
Begins(a, b) ==
  /\ Len(a) <= Len(b)
  /\ \A i \in DOMAIN a : a[i].name = b[i].name /\ a[i].kind = b[i].kind

LEMMA GrownOrder ==
  ASSUME NEW log \in Seq(Entries), Recordable(job)
  PROVE  /\ Ordered(log) /\ UpTo(log, job.target) =>
              Ordered(Logged(log)) /\ UpTo(Logged(log), job.target)
         /\ Strictly(log) /\ Below(log, job.target) => Strictly(Logged(log))
         /\ \A d \in Seq(Entries) : Begins(d, log) => Begins(d, Logged(log))
  <1> DEFINE b == Logged(log)
             n == Len(log)
             x == job.target
  <1>1. /\ n \in Nat /\ DOMAIN log = 1 .. n /\ DOMAIN b = 1 .. n + 1
        /\ \A i \in 1 .. n : b[i] = log[i] /\ log[i].name \in Nat
        /\ Len(b) = n + 1
    <2>1. b \in Seq(Entries) /\ Len(b) = n + 1 /\ \A i \in 1 .. n : b[i] = log[i]
      BY LoggedIs
    <2>2. \A i \in 1 .. n : log[i] \in Entries
      BY ElementOfSeq
    <2>3. \A e \in Entries : e.name \in Nat
      BY DEF Entries, Steps
    <2> QED
      BY <2>1, <2>2, <2>3, LenProperties
  <1>2. b[n + 1].name = x /\ x \in Nat
    BY LoggedIs DEF Recordable, Entry, Steps
  <1> HIDE DEF b, n, x
  <1>3. ASSUME NEW i \in DOMAIN b
        PROVE  i \in 1 .. n \/ i = n + 1
    BY <1>1
  <1>4. ASSUME Ordered(log), UpTo(log, x)
        PROVE  Ordered(b) /\ UpTo(b, x)
    <2>1. UpTo(b, x)
      <3> SUFFICES ASSUME NEW i \in DOMAIN b PROVE b[i].name <= x
        BY DEF UpTo
      <3>1. CASE i \in 1 .. n
        BY <1>1, <1>4, <3>1 DEF UpTo
      <3>2. CASE i = n + 1
        BY <1>2, <3>2
      <3> QED
        BY <1>3, <3>1, <3>2
    <2>2. Ordered(b)
      <3> SUFFICES ASSUME NEW i \in DOMAIN b, NEW j \in DOMAIN b, i <= j
                   PROVE  b[i].name <= b[j].name
        BY DEF Ordered
      <3>1. CASE j \in 1 .. n
        <4>1. i \in 1 .. n
          BY <1>1, <1>3, <3>1
        <4>2. b[i] = log[i] /\ b[j] = log[j]
          BY <1>1, <3>1, <4>1
        <4> QED
          BY <1>1, <1>4, <3>1, <4>1, <4>2 DEF Ordered
      <3>2. CASE j = n + 1
        BY <1>2, <2>1, <3>2 DEF UpTo
      <3> QED
        BY <1>3, <3>1, <3>2
    <2> QED
      BY <2>1, <2>2
  <1>5. ASSUME Strictly(log), Below(log, x)
        PROVE  Strictly(b)
    <2> SUFFICES ASSUME NEW i \in DOMAIN b, NEW j \in DOMAIN b, i < j
                 PROVE  b[i].name < b[j].name
      BY DEF Strictly
    <2>1. i \in 1 .. n
      BY <1>1, <1>3
    <2>2. b[i] = log[i]
      BY <1>1, <2>1
    <2>3. CASE j \in 1 .. n
      <3>1. b[j] = log[j]
        BY <1>1, <2>3
      <3> QED
        BY <1>1, <1>5, <2>1, <2>2, <2>3, <3>1 DEF Strictly
    <2>4. CASE j = n + 1
      BY <1>1, <1>2, <1>5, <2>1, <2>2, <2>4 DEF Below
    <2> QED
      BY <1>3, <2>3, <2>4
  <1>6. ASSUME NEW d \in Seq(Entries), Begins(d, log)
        PROVE  Begins(d, b)
    <2>1. Len(d) \in Nat /\ DOMAIN d = 1 .. Len(d)
      BY LenProperties
    <2>2. Len(d) <= n
      BY <1>6 DEF Begins, n
    <2>3. \A i \in DOMAIN d : b[i] = log[i]
      BY <1>1, <2>1, <2>2
    <2> QED
      BY <1>1, <1>6, <2>1, <2>2, <2>3 DEF Begins
  <1> QED
    BY <1>4, <1>5, <1>6 DEF b, x

\* Dropping a version changes no name.
LEMMA DroppedOrder ==
  ASSUME NEW s \in Lists, NEW f \in Steps, NEW t, t = DropVersion(s, f)
  PROVE  /\ Ordered(t.log) <=> Ordered(s.log)
         /\ Strictly(t.log) <=> Strictly(s.log)
         /\ \A x : UpTo(t.log, x) <=> UpTo(s.log, x)
         /\ \A x : Below(t.log, x) <=> Below(s.log, x)
         /\ \A d \in Seq(Entries) : Begins(d, s.log) => Begins(d, t.log)
  <1>1. /\ DOMAIN t.log = DOMAIN s.log /\ Len(t.log) = Len(s.log)
        /\ \A i \in DOMAIN s.log : t.log[i].name = s.log[i].name /\ t.log[i].kind = s.log[i].kind
    BY DropIs
  <1>2. ASSUME NEW d \in Seq(Entries), Begins(d, s.log) PROVE Begins(d, t.log)
    <2>1. Len(d) \in Nat /\ DOMAIN d = 1 .. Len(d) /\ Len(d) <= Len(s.log)
      BY <1>2, LenProperties DEF Begins
    <2>2. s.log \in Seq(Entries)
      BY ListIs
    <2>3. DOMAIN d \subseteq DOMAIN s.log
      BY <2>1, <2>2, LenProperties
    <2> QED
      BY <1>1, <1>2, <2>1, <2>3 DEF Begins
  <1>3. Ordered(t.log) <=> Ordered(s.log)
    BY <1>1 DEF Ordered
  <1>4. Strictly(t.log) <=> Strictly(s.log)
    BY <1>1 DEF Strictly
  <1>5. /\ \A x : UpTo(t.log, x) <=> UpTo(s.log, x)
        /\ \A x : Below(t.log, x) <=> Below(s.log, x)
    BY <1>1 DEF UpTo, Below
  <1> QED
    BY <1>2, <1>3, <1>4, <1>5

-----------------------------------------------------------------------------
(* Saving goes on from the latest checkpoint: names and lineage.           *)

\* What is being saved is the last save, of the step training is at.
SavingInv ==
  job.target \in Steps => job.save = saves /\ job.target = step /\ ~fresh

OrderInv ==
  /\ state # None => Ordered(state.log) /\ UpTo(state.log, step)
  /\ Durable # None => Ordered(Durable.log)

\* Names do not go down as checkpoints are recorded.  The list in
\* memory goes on where checkpoint_ext ends, or began anew, as checkpoint_ext
\* could not be read, and has one checkpoint of each step.
Anew(log, f, target) ==
  /\ Strictly(log)
  /\ ~f
  /\ target \in Steps => Below(log, target)

LineInv ==
  (up /\ state # None /\ Durable # None) =>
    Begins(Durable.log, state.log) \/ Anew(state.log, fresh, job.target)

NamesInv == SavingInv /\ OrderInv /\ LineInv

LEMMA FirstOrder ==
  ASSUME Recordable(job)
  PROVE  /\ Ordered(Logged(<<>>)) /\ UpTo(Logged(<<>>), job.target)
         /\ Strictly(Logged(<<>>))
  <1> DEFINE e == <<>>
  <1>1. e \in Seq(Entries) /\ DOMAIN e = {}
    OBVIOUS
  <1> HIDE DEF e
  <1>2. Ordered(e) /\ UpTo(e, job.target) /\ Strictly(e) /\ Below(e, job.target)
    BY <1>1 DEF Ordered, UpTo, Strictly, Below
  <1>3. /\ Ordered(Logged(e)) /\ UpTo(Logged(e), job.target) /\ Strictly(Logged(e))
    BY <1>1, <1>2, GrownOrder
  <1> QED
    BY <1>3 DEF e

\* Training goes on, and a save begins.
LEMMA SaveKeepsNames ==
  ASSUME FilesInv, NamesInv, NEW kind \in {"full", "delta"}, Save(kind)
  PROVE  NamesInv'
  <1>1. PICK name \in Steps \cap {step + 1, IF fresh THEN step ELSE step + 1} :
           /\ job' = [op |-> "write", target |-> name, kind |-> kind, save |-> saves + 1,
                      queue |-> <<>>]
           /\ step' = name
    BY DEF Save
  <1>2. /\ saves' = saves + 1 /\ fresh' = FALSE /\ objects' = objects
        /\ state' = state /\ up' = up /\ job = Idle
    BY DEF Save
  <1>3. job'.target = name /\ job'.save = saves + 1
    BY <1>1
  <1>4. SavingInv'
    BY <1>1, <1>2, <1>3 DEF SavingInv
  <1>5. step \in Nat /\ name \in Nat /\ name >= step /\ (~fresh => name > step)
    BY DEF FilesInv, Types, Steps
  <1>6. Durable' = Durable
    BY <1>2 DEF Durable
  <1>7. state # None => \A i \in DOMAIN state.log : state.log[i].name \in Nat
    <2> SUFFICES ASSUME state # None PROVE \A i \in DOMAIN state.log : state.log[i].name \in Nat
      OBVIOUS
    <2>1. state.log \in Seq(Entries)
      BY ListIs DEF FilesInv, Types
    <2>2. \A e \in Entries : e.name \in Nat
      BY DEF Entries, Steps
    <2> QED
      BY <2>1, <2>2, ElementOfSeq
  <1>8. state # None => UpTo(state.log, name) /\ (~fresh => Below(state.log, name))
    BY <1>5, <1>7 DEF NamesInv, OrderInv, UpTo, Below
  <1>9. OrderInv'
    BY <1>1, <1>2, <1>6, <1>8 DEF NamesInv, OrderInv
  <1>10. LineInv'
    BY <1>2, <1>3, <1>6, <1>8 DEF NamesInv, LineInv, Anew
  <1> QED
    BY <1>4, <1>9, <1>10 DEF NamesInv

\* What was saved is recorded.
LEMMA RecordKeepsNames ==
  ASSUME FilesInv, NamesInv, Recorded
  PROVE  NamesInv'
  <1>1. /\ job.op = "record" /\ ~(job.kind = "delta" /\ state = None)
        /\ objects' = objects /\ up' = up /\ step' = step /\ fresh' = fresh /\ saves' = saves
        /\ state' = IF job.kind = "full" THEN UpdateLatestFullCheckpoint(state, job.target)
                    ELSE AddDeltaCheckpoint(state, job.target)
        /\ job' = [Idle EXCEPT !.op = "write", !.target = StateFile]
    BY DEF Recorded, Record, UpdateCheckpointStateExt
  <1>2. Recordable(job) /\ job.target \in Steps
    BY <1>1, RecordIs
  <1>3. state' \in Lists /\ state'.log = Logged(IF state = None THEN <<>> ELSE state.log)
    BY <1>1, RecordedList
  <1>4. job'.target = StateFile /\ StateFile \notin Steps
    BY <1>1, NamesAre DEF Idle
  <1>5. job.target = step /\ ~fresh
    BY <1>2 DEF NamesInv, SavingInv
  <1>6. Durable' = Durable
    BY <1>1 DEF Durable
  <1>7. Durable # None => Durable.log \in Seq(Entries)
    BY DurableIs, ListIs
  <1>8. CASE state = None
    <2>1. state'.log = Logged(<<>>)
      BY <1>3, <1>8
    <2>2. Ordered(state'.log) /\ UpTo(state'.log, step) /\ Strictly(state'.log)
      BY <2>1, <1>2, <1>5, FirstOrder
    <2> QED
      BY <1>1, <1>4, <1>5, <1>6, <2>2 DEF NamesInv, SavingInv, OrderInv, LineInv, Anew
  <1>9. CASE state # None
    <2>1. state.log \in Seq(Entries) /\ state'.log = Logged(state.log)
      BY <1>3, <1>9, ListIs DEF FilesInv, Types
    <2>2. Ordered(state'.log) /\ UpTo(state'.log, step)
      BY <2>1, <1>2, <1>5, <1>9, GrownOrder DEF NamesInv, OrderInv
    <2>3. up /\ Durable # None =>
             Begins(Durable.log, state'.log) \/ Strictly(state'.log)
      <3>1. up /\ Durable # None =>
               Begins(Durable.log, state.log) \/ Anew(state.log, fresh, job.target)
        BY <1>9 DEF NamesInv, LineInv
      <3>2. Anew(state.log, fresh, job.target) => Strictly(state'.log)
        BY <2>1, <1>2, GrownOrder DEF Anew
      <3>3. Durable # None /\ Begins(Durable.log, state.log) => Begins(Durable.log, state'.log)
        BY <2>1, <1>2, <1>7, GrownOrder
      <3> QED
        BY <3>1, <3>2, <3>3
    <2> QED
      BY <1>1, <1>4, <1>5, <1>6, <2>2, <2>3 DEF NamesInv, SavingInv, OrderInv, LineInv, Anew
  <1> QED
    BY <1>8, <1>9

\* A version leaves the list.
LEMMA DropKeepsNames ==
  ASSUME FilesInv, NamesInv, NEW f \in Steps, CanDrop(f), state' = DropVersion(state, f),
         objects' = objects, up' = up, step' = step, fresh' = fresh, saves' = saves,
         job'.target \notin Steps
  PROVE  NamesInv'
  <1>1. job = Idle /\ state \in Lists /\ state # None /\ job.target \notin Steps
    BY ToDropIs, IdleIs, NamesAre DEF CanDrop
  <1>2. Durable' = Durable /\ (Durable # None => Durable.log \in Seq(Entries))
    BY DurableIs, ListIs DEF Durable
  <1>3. /\ Ordered(state'.log) <=> Ordered(state.log)
        /\ Strictly(state'.log) <=> Strictly(state.log)
        /\ UpTo(state'.log, step) <=> UpTo(state.log, step)
        /\ \A d \in Seq(Entries) : Begins(d, state.log) => Begins(d, state'.log)
    BY <1>1, DroppedOrder, Zenon
  <1>4. SavingInv' /\ OrderInv'
    BY <1>1, <1>2, <1>3 DEF NamesInv, SavingInv, OrderInv
  <1>5. LineInv'
    BY <1>1, <1>2, <1>3 DEF NamesInv, LineInv, Anew
  <1> QED
    BY <1>4, <1>5 DEF NamesInv

\* The list is read again.
LEMMA LoadKeepsNames ==
  ASSUME FilesInv, ListsInv, NamesInv, Load
  PROVE  NamesInv'
  <1>1. PICK s \in {Durable, None} : Restart(s)
    BY DEF Load
  <1>2. /\ state' = s /\ objects' = objects /\ job' = job
        /\ step' = IF s = None THEN 0 ELSE LatestCheckpoint(s)
    BY <1>1 DEF Restart
  <1>3. ~up /\ job.target \notin Steps
    BY IdleIs, NamesAre DEF Load, FilesInv, JobOK
  <1>4. Durable' = Durable
    BY <1>2 DEF Durable
  <1>5. SavingInv'
    BY <1>2, <1>3 DEF SavingInv
  <1>6. CASE s = None
    BY <1>2, <1>4, <1>5, <1>6 DEF NamesInv, OrderInv, LineInv
  <1>7. CASE s # None
    <2>1. s = Durable /\ Durable \in Lists /\ ListInv(s) /\ Ordered(s.log)
      BY <1>7, DurableIs DEF ListsInv, NamesInv, OrderInv
    <2>2. step' = s.log[Len(s.log)].name
      BY <1>2, <1>7, <2>1, LatestPlace
    <2>3. Len(s.log) \in Nat \ {0} /\ DOMAIN s.log = 1 .. Len(s.log)
      BY <2>1, LogIs DEF ListInv
    <2>4. UpTo(s.log, step')
      <3> SUFFICES ASSUME NEW i \in DOMAIN s.log PROVE s.log[i].name <= s.log[Len(s.log)].name
        BY <2>2 DEF UpTo
      <3>1. i <= Len(s.log) /\ Len(s.log) \in DOMAIN s.log
        BY <2>3
      <3> QED
        BY <2>1, <3>1 DEF Ordered
    <2>5. OrderInv'
      BY <1>2, <1>4, <2>1, <2>4 DEF OrderInv
    <2>6. Begins(s.log, s.log)
      BY <2>3 DEF Begins
    <2>7. LineInv'
      BY <1>2, <1>4, <2>1, <2>6 DEF LineInv
    <2> QED
      BY <1>5, <2>5, <2>7 DEF NamesInv
  <1> QED
    BY <1>6, <1>7

LEMMA NamesKept ==
  ASSUME FilesInv, ListsInv, NamesInv, [Next]_vars
  PROVE  NamesInv'
  <1>1. /\ objects'[StateFile] = objects[StateFile] => Durable' = Durable
        /\ PutInPlace => \/ job.target \in Steps /\ Durable' = Durable
                         \/ /\ job.target = StateFile /\ Durable' = state /\ state' = state
                            /\ state \in Lists /\ state # None
        /\ Deleted => Durable' = Durable
    BY DurableNext
  <1>2. StateFile \in Real
    BY DEF Real
  <1>3. Idle.target \notin Steps
    BY IdleIs, NamesAre
  <1>4. ASSUME state' = state, Durable' = Durable, UNCHANGED <<up, step, fresh, saves>>,
               \/ job'.target = job.target /\ job'.save = job.save
               \/ job'.target \notin Steps
        PROVE  NamesInv'
    BY <1>4 DEF NamesInv, SavingInv, OrderInv, LineInv, Anew
  <1>5. CASE Quiet \/ Ended
    BY <1>1, <1>2, <1>3, <1>4, <1>5 DEF Quiet, Ended
  <1>6. CASE PutInPlace /\ job.target \in Steps
    BY <1>1, <1>3, <1>4, <1>6, NamesAre DEF PutInPlace
  <1>7. CASE PutInPlace /\ job.target = StateFile
    <2>1. /\ Durable' = state /\ state' = state /\ state \in Lists /\ state # None
          /\ job'.target \notin Steps
          /\ UNCHANGED <<up, step, fresh, saves>>
      BY <1>1, <1>3, <1>7, NamesAre DEF PutInPlace
    <2>2. Begins(state.log, state.log)
      <3>1. state.log \in Seq(Entries)
        BY <2>1, ListIs
      <3> QED
        BY <3>1, LenIs DEF Begins
    <2> QED
      BY <2>1, <2>2 DEF NamesInv, SavingInv, OrderInv, LineInv
  <1>8. CASE Deleted
    BY <1>1, <1>3, <1>4, <1>8 DEF Deleted
  <1>9. CASE \E kind \in {"full", "delta"} : Save(kind)
    BY <1>9, SaveKeepsNames
  <1>10. CASE Recorded
    BY <1>10, RecordKeepsNames
  <1>11. CASE \E f \in Steps : RemoveOldCheckpoint(f)
    <2>1. PICK f \in Steps : RemoveOldCheckpoint(f)
      BY <1>11
    <2>2. /\ CanDrop(f) /\ state' = DropVersion(state, f) /\ objects' = objects
          /\ UNCHANGED <<up, step, fresh, saves>>
          /\ job' = [Idle EXCEPT !.op = "remove", !.queue = ToBeRemoved(state, f)]
      BY <2>1 DEF RemoveOldCheckpoint
    <2>3. job'.target \notin Steps
      BY <2>2, <1>3 DEF Idle
    <2> QED
      BY <2>2, <2>3, DropKeepsNames
  <1>12. CASE AllRemoved
    <2>1. /\ state' = state /\ objects' = objects /\ UNCHANGED <<up, step, fresh, saves>>
          /\ job' = [Idle EXCEPT !.op = "write", !.target = StateFile]
      BY <1>12 DEF AllRemoved, UpdateCheckpointStateExt
    <2>2. job'.target \notin Steps
      BY <2>1, NamesAre DEF Idle
    <2> QED
      BY <1>1, <1>4, <2>1, <2>2
  <1>13. CASE \E f \in Steps : DeleteSpecifiedHistoryVersion(f)
    <2>1. PICK f \in Steps : DeleteSpecifiedHistoryVersion(f)
      BY <1>13
    <2>2. /\ CanDrop(f) /\ state' = DropVersion(state, f) /\ objects' = objects
          /\ UNCHANGED <<up, step, fresh, saves>>
          /\ job' = [Idle EXCEPT !.op = "write", !.target = StateFile]
      BY <2>1 DEF DeleteSpecifiedHistoryVersion, UpdateCheckpointStateExt
    <2>3. job'.target \notin Steps
      BY <2>2, NamesAre DEF Idle
    <2> QED
      BY <2>2, <2>3, DropKeepsNames
  <1>14. CASE Crash
    <2>1. /\ state' = None /\ objects' = objects /\ UNCHANGED <<step, fresh, saves>>
          /\ job' = Idle
      BY <1>14 DEF Crash
    <2> QED
      BY <1>1, <1>3, <2>1 DEF NamesInv, SavingInv, OrderInv, LineInv
  <1>15. CASE Load
    BY <1>15, LoadKeepsNames
  <1>16. Steppings
    BY EveryStep
  <1>17. PutInPlace => job.target \in Steps \/ job.target = StateFile
    BY <1>1
  <1> QED
    BY <1>5, <1>6, <1>7, <1>8, <1>9, <1>10, <1>11, <1>12, <1>13, <1>14, <1>15, <1>16, <1>17
       DEF Steppings

-----------------------------------------------------------------------------
(* The objects of the checkpoints in a list.                               *)

Twice(log, c) == \E i, j \in DOMAIN log : i # j /\ log[i].name = c /\ log[j].name = c

\* The object is of the last save that was recorded under the name, or of a later one.
Newest(log, o, c) ==
  o # None /\ \A i \in DOMAIN log : log[i].name = c => o[1][1] >= log[i].save

Good(log, o, c) == Twice(log, c) \/ Newest(log, o, c)

GoodAt(s, o, hidden, except) ==
  /\ \A c \in Current(s) \ hidden : Good(s.log, o[c], c)
  /\ \A c \in Listed(s) \ except : Good(s.log, o[c], c)

GoodInv ==
  /\ state # None => GoodAt(state, objects, exposed, interrupted)
  /\ Durable # None => GoodAt(Durable, objects, exposed, interrupted \cup dropped)

\* What is being removed is not needed.
QueueInv ==
  job.op = "remove" =>
    \A c \in Range(job.queue) :
      /\ state # None
      /\ c \notin Listed(state) \/ Twice(state.log, c)
      /\ Durable # None => c \notin Current(Durable) \/ c \in exposed \/ Twice(Durable.log, c)

LEMMA ListedAreSteps ==
  ASSUME NEW s \in Lists
  PROVE  /\ Current(s) \subseteq Steps /\ Listed(s) \subseteq Steps
         /\ Listed(s) = Current(s) \cup History(s)
         /\ Current(s) \subseteq Listed(s)
  <1>1. Current(s) \subseteq Steps
    BY CurrentAreSteps
  <1>2. s.history_versions \in Histories
    BY ListIs
  <1>3. \A f \in DOMAIN s.history_versions : OfVersion(s, f) \subseteq Steps
    <2> SUFFICES ASSUME NEW f \in DOMAIN s.history_versions PROVE OfVersion(s, f) \subseteq Steps
      OBVIOUS
    <2>1. f \in Steps /\ s.history_versions[f] \in Seq(Steps)
      BY <1>2, HistoryIs
    <2> QED
      BY <2>1, RangeOfSeq DEF OfVersion
  <1>4. History(s) \subseteq Steps
    BY <1>3 DEF History
  <1>5. Listed(s) = Current(s) \cup History(s)
    BY NotNone DEF Listed
  <1> QED
    BY <1>1, <1>4, <1>5

LEMMA StillGood ==
  ASSUME NEW s \in Lists, NEW o, NEW hidden, NEW except, GoodAt(s, o, hidden, except),
         NEW p, \A c \in Steps : p[c] = o[c],
         NEW h, hidden \subseteq h, NEW e, \A c \in Listed(s) : c \in except => c \in e
  PROVE  GoodAt(s, p, h, e)
  <1>1. Current(s) \subseteq Steps /\ Listed(s) \subseteq Steps
    BY ListedAreSteps
  <1>2. \A c \in Current(s) \ h : Good(s.log, p[c], c)
    BY <1>1 DEF GoodAt
  <1>3. \A c \in Listed(s) \ e : Good(s.log, p[c], c)
    BY <1>1 DEF GoodAt
  <1> QED
    BY <1>2, <1>3 DEF GoodAt

\* An object is put in the place of a checkpoint.
LEMMA GoodPlaced ==
  ASSUME NEW s \in Lists, NEW o, NEW hidden, NEW except, GoodAt(s, o, hidden, except),
         NEW p, NEW t, \A c \in Steps \ {t} : p[c] = o[c], Newest(s.log, p[t], t)
  PROVE  GoodAt(s, p, hidden, except \ {t})
  <1>1. Current(s) \subseteq Steps /\ Listed(s) \subseteq Steps
    BY ListedAreSteps
  <1>2. Good(s.log, p[t], t)
    BY DEF Good
  <1>3. \A c \in Current(s) \ hidden : Good(s.log, p[c], c)
    BY <1>1, <1>2 DEF GoodAt
  <1>4. \A c \in Listed(s) \ (except \ {t}) : Good(s.log, p[c], c)
    BY <1>1, <1>2 DEF GoodAt
  <1> QED
    BY <1>3, <1>4 DEF GoodAt

\* An object is deleted.
LEMMA GoodDeleted ==
  ASSUME NEW s \in Lists, NEW o, NEW hidden, NEW except, GoodAt(s, o, hidden, except),
         NEW p, NEW t, \A c \in Steps \ {t} : p[c] = o[c], NEW e, except \subseteq e,
         t \notin Current(s) \/ t \in hidden \/ Twice(s.log, t),
         t \notin Listed(s) \/ t \in e \/ Twice(s.log, t)
  PROVE  GoodAt(s, p, hidden, e)
  <1>1. Current(s) \subseteq Steps /\ Listed(s) \subseteq Steps
    BY ListedAreSteps
  <1>2. Twice(s.log, t) => Good(s.log, p[t], t)
    BY DEF Good
  <1>3. \A c \in Current(s) \ hidden : Good(s.log, p[c], c)
    BY <1>1, <1>2 DEF GoodAt
  <1>4. \A c \in Listed(s) \ e : Good(s.log, p[c], c)
    BY <1>1, <1>2 DEF GoodAt
  <1> QED
    BY <1>3, <1>4 DEF GoodAt

\* The object of a save that is over.
LEMMA SavedObject ==
  ASSUME FilesInv, job.target \in Steps, job.op \in {"rename", "unlink", "record"}
  PROVE  LET o == Whole(Data(job, state)) IN o # None /\ o[1][1] = job.save
  <1> DEFINE d == Data(job, state)
             v == job.save
  <1>1. job.target # None /\ job.target # StateFile
    BY NamesAre
  <1>2. Len(d) > 0 /\ d \in Seq(Items) /\ Whole(d) # None
    BY <1>1, DataIs DEF FilesInv, Held
  <1>3. d = Bytes(v)
    BY <1>1 DEF Data
  <1>4. v \in 1 .. Len(Chunks)
    <2>1. v \in 1 .. saves /\ saves \in 0 .. Len(Chunks)
      BY DEF FilesInv, Types, JobOK
    <2>2. Len(Chunks) \in Nat
      BY CheckpointsAssumption, LenIs
    <2> QED
      BY <2>1, <2>2
  <1>5. Chunks[v] \in Nat /\ Len(d) = Chunks[v] /\ \A i \in 1 .. Chunks[v] : d[i] = <<v, i>>
    BY <1>3, <1>4, BytesAre
  <1> HIDE DEF d, v
  <1>6. d[1] = <<v, 1>>
    BY <1>2, <1>5
  <1>7. Whole(d)[1] = d[1]
    BY <1>2, WholeIs
  <1> QED
    BY <1>2, <1>6, <1>7 DEF d, v

LEMMA SavedIsNewest ==
  ASSUME NEW s \in Lists, NEW n \in Nat, SavedBy(s, n), NEW o, o # None, o[1][1] = n, NEW c
  PROVE  Newest(s.log, o, c)
  BY DEF SavedBy, Newest

LEMMA GoodGrown ==
  ASSUME NEW log \in Seq(Entries), Recordable(job), NEW o, NEW c, Good(log, o, c),
         c # job.target
  PROVE  Good(Logged(log), o, c)
  <1> DEFINE b == Logged(log)
             n == Len(log)
  <1>1. /\ n \in Nat /\ DOMAIN log = 1 .. n /\ DOMAIN b = 1 .. n + 1
        /\ \A i \in 1 .. n : b[i] = log[i]
        /\ b[n + 1] = Entry(job)
    BY LoggedIs, LenProperties
  <1>2. b[n + 1].name # c
    BY <1>1 DEF Entry
  <1> HIDE DEF b, n
  <1>3. Twice(log, c) => Twice(b, c)
    BY <1>1 DEF Twice
  <1>4. Newest(log, o, c) => Newest(b, o, c)
    BY <1>1, <1>2 DEF Newest
  <1> QED
    BY <1>3, <1>4 DEF Good, b

\* What recording a checkpoint puts in the list.
LEMMA ListedFrom ==
  ASSUME NEW s \in Lists, Recordable(job), NEW name \in Steps
  PROVE  /\ Current(UpdateLatestFullCheckpoint(s, name)) = {name}
         /\ Listed(UpdateLatestFullCheckpoint(s, name)) \subseteq Listed(s) \cup {name}
         /\ Current(AddDeltaCheckpoint(s, name)) = Current(s) \cup {name}
         /\ Listed(AddDeltaCheckpoint(s, name)) \subseteq Listed(s) \cup {name}
  <1>1. /\ s.full \in Steps /\ s.deltas \in Seq(Steps) /\ s.history_versions \in Histories
    BY ListIs
  <1>2. Listed(s) = Current(s) \cup History(s)
    BY NotNone DEF Listed
  <1>3. /\ Current(UpdateLatestFullCheckpoint(s, name)) = {name}
        /\ Listed(UpdateLatestFullCheckpoint(s, name)) \subseteq Listed(s) \cup {name}
    <2> DEFINE t == UpdateLatestFullCheckpoint(s, name)
               g == GetDeltas(s, s.full)
               h == s.history_versions
    <2>1. /\ t \in Lists /\ t.full = name /\ g \in Seq(Steps) /\ t.deltas = <<>>
          /\ t.history_versions = Entered(h, s.full, g \o s.deltas)
      BY FullIs
    <2> HIDE DEF t
    <2>2. Listed(t) = Current(t) \cup History(t)
      BY <2>1, NotNone DEF Listed
    <2>3. Current(t) = {name}
      BY <2>1 DEF Current, Range
    <2>4. DOMAIN t.history_versions = DOMAIN h \cup {s.full}
      BY <2>1 DEF Entered
    <2>5. Range(g \o s.deltas) = Range(g) \cup Range(s.deltas)
      BY <1>1, <2>1, RangeConcatenation
    <2>6. OfVersion(t, s.full) = {s.full} \cup Range(g) \cup Range(s.deltas)
      BY <2>1, <2>5 DEF OfVersion, Entered
    <2>7. Range(g) \subseteq History(s)
      <3>1. CASE s.full \in DOMAIN h
        BY <3>1 DEF GetDeltas, History, OfVersion
      <3>2. CASE s.full \notin DOMAIN h
        BY <3>2 DEF GetDeltas, Range
      <3> QED
        BY <3>1, <3>2
    <2>8. OfVersion(t, s.full) \subseteq Listed(s)
      BY <1>2, <2>6, <2>7 DEF Current
    <2>9. ASSUME NEW f \in DOMAIN h, f # s.full PROVE OfVersion(t, f) \subseteq Listed(s)
      <3>1. t.history_versions[f] = h[f]
        BY <2>1, <2>9 DEF Entered
      <3> QED
        BY <1>2, <3>1 DEF OfVersion, History
    <2>10. History(t) \subseteq Listed(s)
      BY <2>4, <2>8, <2>9 DEF History
    <2> QED
      BY <2>2, <2>3, <2>10 DEF t
  <1>4. /\ Current(AddDeltaCheckpoint(s, name)) = Current(s) \cup {name}
        /\ Listed(AddDeltaCheckpoint(s, name)) \subseteq Listed(s) \cup {name}
    <2> DEFINE t == AddDeltaCheckpoint(s, name)
    <2>1. /\ t \in Lists /\ t.full = s.full /\ t.deltas = Append(s.deltas, name)
          /\ t.history_versions = s.history_versions
      BY DeltaIs
    <2> HIDE DEF t
    <2>2. Listed(t) = Current(t) \cup History(t)
      BY <2>1, NotNone DEF Listed
    <2>3. Range(t.deltas) = Range(s.deltas) \cup {name}
      <3>1. t.deltas = s.deltas \o <<name>> /\ <<name>> \in Seq(Steps)
        BY <1>1, <2>1, AppendIsConcat
      <3>2. Range(<<name>>) = {name}
        BY DEF Range
      <3>3. Range(s.deltas \o <<name>>) = Range(s.deltas) \cup Range(<<name>>)
        BY <1>1, <3>1, RangeConcatenation, ZenonT(30)
      <3> QED
        BY <3>1, <3>2, <3>3
    <2>4. History(t) = History(s)
      BY <2>1 DEF History, OfVersion
    <2>5. Current(t) = Current(s) \cup {name}
      BY <2>1, <2>3 DEF Current
    <2> QED
      BY <1>2, <2>2, <2>4, <2>5 DEF t
  <1> QED
    BY <1>3, <1>4

LEMMA GoodDropped ==
  ASSUME NEW s \in Lists, NEW f \in Steps, f \in DOMAIN s.history_versions,
         NEW t, t = DropVersion(s, f)
  PROVE  /\ \A c : Twice(t.log, c) <=> Twice(s.log, c)
         /\ \A o, hidden, except : GoodAt(s, o, hidden, except) => GoodAt(t, o, hidden, except)
  <1>1. /\ DOMAIN t.log = DOMAIN s.log
        /\ \A i \in DOMAIN s.log : t.log[i].name = s.log[i].name /\ t.log[i].save = s.log[i].save
    BY DropIs
  <1>2. Listed(t) \subseteq Listed(s) /\ Current(t) = Current(s)
    BY ListedAfterDrop
  <1>3. \A c : Twice(t.log, c) <=> Twice(s.log, c)
    BY <1>1 DEF Twice
  <1>4. \A o, c : Newest(t.log, o, c) <=> Newest(s.log, o, c)
    BY <1>1 DEF Newest
  <1>5. \A o, c : Good(t.log, o, c) <=> Good(s.log, o, c)
    BY <1>3, <1>4 DEF Good
  <1> QED
    BY <1>2, <1>3, <1>5 DEF GoodAt

-----------------------------------------------------------------------------
(* What remove_old_checkpoint removes is not in what stays.                *)

LEMMA NamesAreNat ==
  ASSUME NEW log \in Seq(Entries)
  PROVE  /\ \A i \in DOMAIN log : log[i].name \in Nat
         /\ DOMAIN log = 1 .. Len(log) /\ Len(log) \in Nat
  <1>1. \A e \in Entries : e.name \in Nat
    BY DEF Entries, Steps
  <1> QED
    BY <1>1, ElementOfSeq, LenProperties

LEMMA OldIsTwice ==
  ASSUME NEW s \in Lists, ListInv(s), NEW f \in Steps, f \in DOMAIN s.history_versions,
         NEW c \in OfVersion(s, f), c \in Listed(DropVersion(s, f))
  PROVE  Twice(s.log, c)
  <1> DEFINE t == DropVersion(s, f)
             a == s.log
             m == LastFull(a)
             h == s.history_versions
  <1>1. PICK p \in DOMAIN a : p < m /\ a[p].name = c /\ a[BaseAt(a, p)].name = f
    BY OldPlace
  <1>2. /\ t \in Lists /\ t.full = s.full /\ t.deltas = s.deltas
        /\ t.history_versions = [g \in DOMAIN h \ {f} |-> h[g]]
    BY DropIs
  <1>3. m \in Nat /\ DOMAIN a \subseteq Nat
    BY LastIs, LogIs DEF ListInv
  <1>4. c \in Current(t) \/ c \in History(t)
    BY <1>2, ListedAreSteps
  <1> HIDE DEF t
  <1>5. CASE c \in Current(t)
    <2>1. c \in Current(s)
      BY <1>2, <1>5 DEF Current
    <2>2. PICK q \in DOMAIN a : q >= m /\ a[q].name = c
      BY <2>1, CurrentPlace
    <2>3. p # q
      BY <1>1, <1>3, <2>2
    <2> QED
      BY <1>1, <2>2, <2>3 DEF Twice
  <1>6. CASE c \in History(t)
    <2>1. PICK g \in DOMAIN h \ {f} : c \in OfVersion(t, g)
      BY <1>2, <1>6 DEF History
    <2>2. c \in OfVersion(s, g)
      BY <1>2, <2>1 DEF OfVersion
    <2>3. PICK q \in DOMAIN a : a[q].name = c /\ a[BaseAt(a, q)].name = g
      BY <2>1, <2>2, OldPlace
    <2>4. p # q
      BY <1>1, <2>1, <2>3
    <2> QED
      BY <1>1, <2>3, <2>4 DEF Twice
  <1> QED
    BY <1>4, <1>5, <1>6

\* An old checkpoint of the list in memory that is current in
\* checkpoint_ext, upon the full checkpoint that is current in memory.
LEMMA DurableIsTwice ==
  ASSUME NEW s \in Lists, ListInv(s), NEW d \in Lists, ListInv(d),
         Ordered(s.log), Ordered(d.log), d.full = s.full,
         Begins(d.log, s.log) \/ Strictly(s.log),
         NEW f \in DOMAIN s.history_versions, f # s.full,
         NEW c \in OfVersion(s, f), c \in Current(d)
  PROVE  Twice(d.log, c)
  <1> DEFINE a == s.log
             m == LastFull(a)
             b == d.log
             k == LastFull(b)
             n == Len(b)
  <1>1. PICK p \in DOMAIN a : p < m /\ a[p].name = c /\ a[BaseAt(a, p)].name = f
    BY OldPlace
  <1>2. PICK q \in DOMAIN b : q >= k /\ b[q].name = c
    BY CurrentPlace
  <1>3. /\ a \in Seq(Entries) /\ b \in Seq(Entries)
        /\ a[m].name = s.full /\ b[k].name = s.full
        /\ Log(a) /\ Log(b)
    BY FollowsIs DEF ListInv, Log
  <1>4. /\ m \in DOMAIN a /\ m \in Nat /\ DOMAIN a \subseteq Nat
        /\ \A i \in DOMAIN a : a[i].name \in Nat
        /\ \A i \in DOMAIN a : i \in Fulls(a) <=> a[i].kind = "full"
    BY <1>3, LastIs, LogIs, NamesAreNat
  <1>5. /\ k \in DOMAIN b /\ k \in Nat /\ n \in Nat /\ DOMAIN b = 1 .. n
        /\ \A i \in DOMAIN b : b[i].name \in Nat
        /\ k \in Fulls(b) /\ b[k].kind = "full"
    BY <1>3, LastIs, LogIs, NamesAreNat
  <1> HIDE DEF a, b, m, k, n
  <1>6. CASE Strictly(a)
    <2>1. a[p].name < a[m].name
      BY <1>1, <1>4, <1>6 DEF Strictly
    <2>2. b[k].name <= b[q].name
      BY <1>2, <1>5 DEF Ordered, b
    <2>3. c < s.full /\ s.full <= c
      BY <1>1, <1>2, <1>3, <2>1, <2>2
    <2>4. c \in Nat /\ s.full \in Nat
      BY <1>1, <1>3, <1>4
    <2> QED
      BY <2>3, <2>4
  <1>7. CASE Begins(b, a)
    <2>1. \A i \in DOMAIN b : b[i].name = a[i].name /\ b[i].kind = a[i].kind
      BY <1>7 DEF Begins
    <2>2. DOMAIN b \subseteq DOMAIN a
      <3>1. n <= Len(a) /\ Len(a) \in Nat /\ DOMAIN a = 1 .. Len(a)
        BY <1>3, <1>7, NamesAreNat DEF Begins, n
      <3> QED
        BY <3>1, <1>5
    <2>3. CASE p \in DOMAIN b
      <3>1. BaseAt(b, p) = BaseAt(a, p) /\ BaseAt(b, p) \in DOMAIN b
        <4>1. Alike(b, a, n)
          BY <1>5, <2>1 DEF Alike
        <4>2. BaseAt(b, p) = BaseAt(a, p)
          BY <1>5, <2>3, <4>1, BasesAlike
        <4>3. BaseAt(b, p) \in 1 .. p
          BY <1>3, <2>3, BaseIs
        <4> QED
          BY <1>5, <2>3, <4>2, <4>3
      <3>2. b[BaseAt(b, p)].name = f
        BY <1>1, <2>1, <3>1
      <3>3. BaseAt(b, p) # k
        BY <1>3, <3>2
      <3>4. ~(p >= k)
        BY <1>3, <2>3, <3>3, LastIs DEF k
      <3>5. p # q
        BY <1>2, <1>5, <2>3, <3>4
      <3>6. b[p].name = c
        BY <1>1, <2>1, <2>3
      <3> QED
        BY <1>2, <2>3, <3>5, <3>6 DEF Twice, b
    <2>4. CASE p \notin DOMAIN b
      <3>1. k <= p
        <4>1. p \in Nat /\ p >= 1
          BY <1>3, NamesAreNat
        <4> QED
          BY <4>1, <1>5, <2>4
      <3>2. k \in Fulls(a) /\ k \in DOMAIN a
        BY <1>4, <1>5, <2>1, <2>2
      <3>3. BaseAt(a, p) \in 1 .. p /\ k <= BaseAt(a, p) /\ BaseAt(a, p) \in Fulls(a)
        BY <1>1, <1>3, <3>1, <3>2, BaseIs
      <3> DEFINE x == BaseAt(a, p)
      <3>4. x \in DOMAIN a /\ k <= x /\ x <= m
        <4>1. Fulls(a) \subseteq DOMAIN a
          BY <1>3, LogIs
        <4>2. x \in DOMAIN a /\ x \in 1 .. p /\ k <= x
          BY <3>3, <4>1 DEF x
        <4> QED
          BY <1>1, <1>4, <4>2
      <3>7. a[x].name = f
        BY <1>1
      <3> HIDE DEF x
      <3>5. a[k].name <= a[x].name /\ a[x].name <= a[m].name
        BY <1>4, <3>2, <3>4 DEF Ordered, a
      <3>6. a[k].name = s.full
        BY <1>3, <1>5, <2>1
      <3>8. s.full <= f /\ f <= s.full /\ s.full \in Nat /\ f \in Nat
        BY <1>3, <1>4, <3>4, <3>5, <3>6, <3>7
      <3> QED
        BY <3>8
    <2> QED
      BY <2>3, <2>4
  <1> QED
    BY <1>6, <1>7 DEF a, b

LEMMA RemovalQueued ==
  ASSUME FilesInv, ListsInv, NamesInv, NEW f \in Steps, RemoveOldCheckpoint(f)
  PROVE  QueueInv'
  <1>1. /\ CanDrop(f) /\ f # state.full
        /\ state' = DropVersion(state, f) /\ objects' = objects
        /\ job' = [Idle EXCEPT !.op = "remove", !.queue = ToBeRemoved(state, f)]
        /\ exposed' = IF Durable # None /\ Durable.full # state.full
                      THEN exposed \cup (Range(ToBeRemoved(state, f)) \cap Current(Durable))
                      ELSE exposed
    BY DEF RemoveOldCheckpoint
  <1>2. /\ up /\ state \in Lists /\ state # None /\ f \in DOMAIN state.history_versions
        /\ Range(ToBeRemoved(state, f)) = OfVersion(state, f)
        /\ job.target \notin Steps
    BY <1>1, ToDropIs, IdleIs, NamesAre DEF CanDrop
  <1>3. job'.queue = ToBeRemoved(state, f)
    BY <1>1 DEF Idle
  <1>4. state' \in Lists /\ state' # None
    BY <1>1, <1>2, DropIs, NotNone
  <1>5. Durable' = Durable
    BY <1>1 DEF Durable
  <1>6. ListInv(state) /\ Ordered(state.log)
    BY <1>2 DEF ListsInv, NamesInv, OrderInv
  <1>7. \A c : Twice(state'.log, c) <=> Twice(state.log, c)
    BY <1>1, <1>2, GoodDropped
  <1>8. ASSUME NEW c \in OfVersion(state, f)
        PROVE  c \notin Listed(state') \/ Twice(state'.log, c)
    BY <1>1, <1>2, <1>6, <1>7, OldIsTwice
  <1>9. ASSUME NEW c \in OfVersion(state, f), Durable # None
        PROVE  c \notin Current(Durable) \/ c \in exposed' \/ Twice(Durable.log, c)
    <2>1. CASE Durable.full # state.full
      BY <1>1, <1>2, <1>9, <2>1
    <2>2. CASE Durable.full = state.full
      <3>1. Durable \in Lists /\ ListInv(Durable) /\ Ordered(Durable.log)
        BY <1>9, DurableIs DEF ListsInv, NamesInv, OrderInv
      <3>2. Begins(Durable.log, state.log) \/ Strictly(state.log)
        BY <1>2, <1>9 DEF NamesInv, LineInv, Anew
      <3> QED
        BY <1>1, <1>2, <1>6, <2>2, <3>1, <3>2, DurableIsTwice
    <2> QED
      BY <2>1, <2>2
  <1>10. ASSUME NEW c \in Range(job'.queue) PROVE c \in OfVersion(state, f)
    BY <1>2, <1>3, <1>10
  <1> QED
    BY <1>4, <1>5, <1>8, <1>9, <1>10 DEF QueueInv

-----------------------------------------------------------------------------
(* The steps that change the objects or the list.                          *)

\* Where nothing changes in an object of a checkpoint.
LEMMA GoodStays ==
  ASSUME FilesInv, GoodInv, \A c \in Steps : objects'[c] = objects[c],
         state' \in {state, None}, Durable' = Durable, exposed \subseteq exposed',
         interrupted' = interrupted, dropped' = dropped
  PROVE  GoodInv'
  <1>1. state # None => state \in Lists
    BY DEF FilesInv, Types
  <1>2. Durable # None => Durable \in Lists
    BY DurableIs
  <1>3. state' # None => GoodAt(state', objects', exposed', interrupted')
    <2> SUFFICES ASSUME state' # None PROVE GoodAt(state, objects', exposed', interrupted)
      OBVIOUS
    <2> QED
      BY <1>1, StillGood DEF GoodInv
  <1>4. Durable' # None => GoodAt(Durable', objects', exposed', interrupted' \cup dropped')
    <2> SUFFICES ASSUME Durable # None
                 PROVE  GoodAt(Durable, objects', exposed', interrupted \cup dropped)
      OBVIOUS
    <2> QED
      BY <1>2, StillGood DEF GoodInv
  <1> QED
    BY <1>3, <1>4 DEF GoodInv

LEMMA PlacedIsGood ==
  ASSUME FilesInv, NamesInv, GoodInv, PutInPlace
  PROVE  GoodInv'
  <1>1. /\ job.op \in {"rename", "unlink"}
        /\ objects'[job.target] = Whole(Data(job, state))
        /\ \A n \in Real \ {job.target} : objects'[n] = objects[n]
        /\ state' = state /\ interrupted' = interrupted /\ exposed' = exposed
        /\ dropped' = dropped \ {job.target}
    BY DEF PutInPlace
  <1>2. \/ job.target \in Steps /\ Durable' = Durable
        \/ /\ job.target = StateFile /\ Durable' = state /\ state \in Lists /\ state # None
    BY DurableNext
  <1>3. state # None => state \in Lists /\ SavedBy(state, saves)
    BY DEF FilesInv, Types, JobOK
  <1>4. Durable # None => Durable \in Lists /\ SavedBy(Durable, saves)
    BY DurableIs
  <1>5. CASE job.target \in Steps /\ Durable' = Durable
    <2> DEFINE t == job.target
               o == objects'[t]
    <2>1. o # None /\ o[1][1] = saves /\ saves \in Nat
      <3>1. Whole(Data(job, state)) # None /\ Whole(Data(job, state))[1][1] = job.save
        BY <1>1, <1>5, SavedObject
      <3>2. job.save = saves /\ saves \in Nat
        BY <1>5 DEF NamesInv, SavingInv, FilesInv, Types
      <3> QED
        BY <1>1, <3>1, <3>2
    <2>2. \A c \in Steps \ {t} : objects'[c] = objects[c]
      BY <1>1 DEF Real
    <2> HIDE DEF o
    <2>3. state # None => Newest(state.log, o, t)
      BY <1>3, <2>1, SavedIsNewest
    <2>4. Durable # None => Newest(Durable.log, o, t)
      BY <1>4, <2>1, SavedIsNewest
    <2>5. state # None => GoodAt(state, objects', exposed, interrupted)
      <3> SUFFICES ASSUME state # None PROVE GoodAt(state, objects', exposed, interrupted)
        OBVIOUS
      <3>1. GoodAt(state, objects', exposed, interrupted \ {t})
        BY <1>3, <2>2, <2>3, GoodPlaced DEF GoodInv, o
      <3> QED
        BY <1>3, <3>1, StillGood
    <2>6. Durable # None => GoodAt(Durable, objects', exposed, interrupted \cup (dropped \ {t}))
      <3> SUFFICES ASSUME Durable # None
                   PROVE  GoodAt(Durable, objects', exposed, interrupted \cup (dropped \ {t}))
        OBVIOUS
      <3>1. GoodAt(Durable, objects', exposed, (interrupted \cup dropped) \ {t})
        BY <1>4, <2>2, <2>4, GoodPlaced DEF GoodInv, o
      <3> QED
        BY <1>4, <3>1, StillGood
    <2> QED
      BY <1>1, <1>5, <2>5, <2>6 DEF GoodInv
  <1>6. CASE job.target = StateFile /\ Durable' = state /\ state \in Lists /\ state # None
    <2>1. \A c \in Steps : objects'[c] = objects[c]
      BY <1>1, <1>6, NamesAre DEF Real
    <2>2. GoodAt(state, objects', exposed, interrupted)
      BY <1>6, <2>1, StillGood DEF GoodInv
    <2>3. GoodAt(state, objects', exposed, interrupted \cup dropped')
      BY <1>6, <2>2, StillGood
    <2> QED
      BY <1>1, <1>6, <2>2, <2>3 DEF GoodInv
  <1> QED
    BY <1>2, <1>5, <1>6

LEMMA DeletedIsGood ==
  ASSUME FilesInv, GoodInv, QueueInv, Deleted
  PROVE  GoodInv' /\ QueueInv'
  <1> DEFINE t == Head(job.queue)
  <1>1. /\ job.op = "remove" /\ job.queue # <<>>
        /\ \A n \in Real \ {t} : objects'[n] = objects[n]
        /\ dropped' = dropped \cup {t}
        /\ state' = state /\ interrupted' = interrupted /\ exposed' = exposed
        /\ \/ job'.queue = Tail(job.queue) /\ job'.op = "remove"
           \/ job' = Idle
    BY DEF Deleted
  <1>2. t \in Steps /\ Range(job.queue) = {t} \cup Range(Tail(job.queue))
    BY <1>1, RemovingIs
  <1>3. Durable' = Durable
    BY DurableNext
  <1>4. state # None => state \in Lists
    BY DEF FilesInv, Types
  <1>5. Durable # None => Durable \in Lists
    BY DurableIs
  <1>6. /\ state # None
        /\ t \notin Listed(state) \/ Twice(state.log, t)
        /\ Durable # None => t \notin Current(Durable) \/ t \in exposed \/ Twice(Durable.log, t)
    BY <1>1, <1>2 DEF QueueInv
  <1>7. \A c \in Steps \ {t} : objects'[c] = objects[c]
    BY <1>1 DEF Real
  <1> HIDE DEF t
  <1>8. GoodAt(state, objects', exposed, interrupted)
    <2>1. t \notin Current(state) \/ t \in exposed \/ Twice(state.log, t)
      BY <1>4, <1>6, ListedAreSteps
    <2> QED
      BY <1>4, <1>6, <1>7, <2>1, GoodDeleted DEF GoodInv
  <1>9. Durable # None => GoodAt(Durable, objects', exposed, interrupted \cup dropped')
    <2> SUFFICES ASSUME Durable # None
                 PROVE  GoodAt(Durable, objects', exposed, interrupted \cup dropped')
      OBVIOUS
    <2> DEFINE e == interrupted \cup dropped
               g == interrupted \cup dropped'
    <2>1. e \subseteq g /\ t \in g
      BY <1>1
    <2>2. GoodAt(Durable, objects, exposed, e)
      BY DEF GoodInv
    <2> HIDE DEF e, g
    <2>3. GoodAt(Durable, objects', exposed, g)
      BY <1>5, <1>6, <1>7, <2>1, <2>2, GoodDeleted
    <2> QED
      BY <2>3 DEF g
  <1>10. GoodInv'
    BY <1>1, <1>3, <1>8, <1>9 DEF GoodInv
  <1>11. QueueInv'
    <2>1. CASE job' = Idle
      BY <2>1, IdleIs DEF QueueInv
    <2>2. CASE job'.queue = Tail(job.queue)
      BY <1>1, <1>2, <1>3, <2>2 DEF QueueInv
    <2> QED
      BY <1>1, <2>1, <2>2
  <1> QED
    BY <1>10, <1>11

LEMMA RecordedIsGood ==
  ASSUME FilesInv, NamesInv, GoodInv, Recorded
  PROVE  GoodInv'
  <1>1. /\ job.op = "record" /\ ~(job.kind = "delta" /\ state = None)
        /\ objects' = objects
        /\ interrupted' = interrupted /\ exposed' = exposed /\ dropped' = dropped
        /\ state' = IF job.kind = "full" THEN UpdateLatestFullCheckpoint(state, job.target)
                    ELSE AddDeltaCheckpoint(state, job.target)
    BY DEF Recorded, Record, ghosts
  <1> DEFINE t == job.target
             s == state'
             o == objects[t]
  <1>2. Recordable(job) /\ t \in Steps
    BY <1>1, RecordIs
  <1>3. /\ s \in Lists /\ SavedBy(s, saves) /\ s # None
        /\ s.log = Logged(IF state = None THEN <<>> ELSE state.log)
    BY <1>1, RecordedList, NotNone
  <1>4. Durable' = Durable
    BY <1>1 DEF Durable
  <1>5. o # None /\ o[1][1] = saves /\ saves \in Nat
    <2>1. Whole(Data(job, state)) # None /\ Whole(Data(job, state))[1][1] = job.save
      BY <1>1, <1>2, SavedObject
    <2>2. o = Whole(Data(job, state))
      BY <1>1 DEF FilesInv, Held
    <2>3. job.save = saves /\ saves \in Nat
      BY <1>2 DEF NamesInv, SavingInv, FilesInv, Types
    <2> QED
      BY <2>1, <2>2, <2>3
  <1>6. Good(s.log, o, t)
    BY <1>3, <1>5, SavedIsNewest DEF Good
  <1>7. CASE state = None
    <2>1. job.kind = "full"
      BY <1>1, <1>2, <1>7 DEF Recordable
    <2>2. s = UpdateLatestFullCheckpoint(None, t)
      BY <1>1, <1>7, <2>1
    <2>3. s.full = t /\ s.deltas = <<>> /\ s.history_versions = <<>>
      BY <1>2, <2>2, FirstListIs
    <2>4. Current(s) = {t} /\ History(s) = {}
      BY <2>3 DEF Current, History, Range
    <2>5. Listed(s) = {t}
      BY <1>3, <2>4, ListedAreSteps
    <2>6. GoodAt(s, objects, exposed, interrupted)
      BY <1>6, <2>4, <2>5 DEF GoodAt
    <2> QED
      BY <1>1, <1>4, <2>6 DEF GoodInv
  <1>8. CASE state # None
    <2>1. state \in Lists /\ state.log \in Seq(Entries) /\ s.log = Logged(state.log)
      BY <1>3, <1>8, ListIs DEF FilesInv, Types
    <2>2. Current(s) \subseteq Current(state) \cup {t} /\ Listed(s) \subseteq Listed(state) \cup {t}
      BY <1>1, <1>2, <1>8, <2>1, ListedFrom
    <2>3. GoodAt(state, objects, exposed, interrupted)
      BY <1>8 DEF GoodInv
    <2>4. ASSUME NEW c, c # t, Good(state.log, objects[c], c)
          PROVE  Good(s.log, objects[c], c)
      BY <1>2, <2>1, <2>4, GoodGrown
    <2> HIDE DEF s, t
    <2>5. \A c \in Current(s) \ exposed : Good(s.log, objects[c], c)
      BY <1>6, <2>2, <2>3, <2>4 DEF GoodAt
    <2>6. \A c \in Listed(s) \ interrupted : Good(s.log, objects[c], c)
      BY <1>6, <2>2, <2>3, <2>4 DEF GoodAt
    <2>7. GoodAt(s, objects, exposed, interrupted)
      BY <2>5, <2>6 DEF GoodAt
    <2> QED
      BY <1>1, <1>4, <2>7 DEF GoodInv, s
  <1> QED
    BY <1>7, <1>8

LEMMA DroppedIsGood ==
  ASSUME FilesInv, GoodInv, NEW f \in Steps, CanDrop(f), state' = DropVersion(state, f),
         objects' = objects, exposed \subseteq exposed',
         interrupted' = interrupted, dropped' = dropped
  PROVE  GoodInv'
  <1>1. state \in Lists /\ state # None /\ f \in DOMAIN state.history_versions
    BY ToDropIs DEF CanDrop
  <1>2. Durable' = Durable
    BY DEF Durable
  <1>3. Durable # None => Durable \in Lists
    BY DurableIs
  <1>4. state' \in Lists
    BY <1>1, DropIs
  <1>5. GoodAt(state', objects, exposed, interrupted)
    BY <1>1, GoodDropped DEF GoodInv
  <1>6. GoodAt(state', objects', exposed', interrupted')
    BY <1>4, <1>5, StillGood
  <1>7. Durable # None => GoodAt(Durable, objects', exposed', interrupted \cup dropped)
    BY <1>3, StillGood DEF GoodInv
  <1> QED
    BY <1>2, <1>6, <1>7 DEF GoodInv

LEMMA LoadedIsGood ==
  ASSUME FilesInv, GoodInv, Load
  PROVE  GoodInv'
  <1>1. PICK s \in {Durable, None} : Restart(s)
    BY DEF Load
  <1>2. /\ state' = s /\ objects' = objects /\ exposed' = exposed /\ dropped' = dropped
        /\ interrupted' = interrupted \cup (dropped \cap Listed(s))
    BY <1>1 DEF Restart
  <1>3. Durable' = Durable
    BY <1>2 DEF Durable
  <1>4. Durable # None => Durable \in Lists /\ GoodAt(Durable, objects, exposed, interrupted \cup dropped)
    BY DurableIs DEF GoodInv
  <1>5. Durable # None => GoodAt(Durable, objects, exposed, interrupted' \cup dropped)
    <2> DEFINE e == interrupted \cup dropped
               g == interrupted' \cup dropped
    <2>1. e \subseteq g
      BY <1>2
    <2> HIDE DEF e, g
    <2>2. Durable # None => GoodAt(Durable, objects, exposed, g)
      BY <1>4, <2>1, StillGood DEF e
    <2> QED
      BY <2>2 DEF g
  <1>6. s # None => GoodAt(s, objects, exposed, interrupted')
    <2> SUFFICES ASSUME s # None PROVE GoodAt(Durable, objects, exposed, interrupted')
      BY <1>1
    <2>1. s = Durable /\ Durable # None
      OBVIOUS
    <2>2. \A c \in Listed(Durable) : c \in interrupted \cup dropped => c \in interrupted'
      BY <1>2, <2>1
    <2> QED
      BY <1>4, <2>1, <2>2, StillGood
  <1> QED
    BY <1>2, <1>3, <1>5, <1>6 DEF GoodInv

\* What is in the list stays good, whatever is done.
LEMMA GoodKept ==
  ASSUME FilesInv, ListsInv, NamesInv, GoodInv, QueueInv, [Next]_vars
  PROVE  GoodInv' /\ QueueInv'
  <1>1. \A c \in Steps : c \in Real /\ c # StateFile
    BY NamesAre DEF Real
  <1>2. StateFile \in Real
    BY DEF Real
  <1>3. objects'[StateFile] = objects[StateFile] => Durable' = Durable
    BY DurableNext
  <1>4. Idle.op = "idle" /\ Idle.target \notin Steps
    BY IdleIs, NamesAre
  <1>5. ASSUME job'.op # "remove" PROVE QueueInv'
    BY <1>5 DEF QueueInv
  <1>6. ASSUME objects' = objects, state' \in {state, None}, exposed' = exposed,
               interrupted' = interrupted, dropped' = dropped, job'.op # "remove"
        PROVE  GoodInv' /\ QueueInv'
    BY <1>3, <1>5, <1>6, GoodStays
  <1>7. CASE Quiet
    <2>1. /\ \A c \in Steps : objects'[c] = objects[c]
          /\ Durable' = Durable /\ state' = state /\ exposed' = exposed
          /\ interrupted' = interrupted /\ dropped' = dropped
          /\ job'.queue = job.queue /\ (job'.op = "remove" <=> job.op = "remove")
      BY <1>1, <1>2, <1>3, <1>7 DEF Quiet, ghosts
    <2>2. GoodInv'
      BY <2>1, GoodStays
    <2>3. QueueInv'
      BY <2>1 DEF QueueInv
    <2> QED
      BY <2>2, <2>3
  <1>8. CASE Ended
    <2>1. /\ \A c \in Steps : objects'[c] = objects[c]
          /\ Durable' = Durable /\ state' = state /\ exposed' = exposed
          /\ interrupted' = interrupted /\ dropped' = dropped
          /\ job' = Idle
      BY <1>1, <1>2, <1>3, <1>8 DEF Ended
    <2>2. GoodInv'
      BY <2>1, GoodStays
    <2> QED
      BY <1>4, <1>5, <2>1, <2>2
  <1>9. CASE PutInPlace
    <2>1. job'.op # "remove"
      BY <1>4, <1>9 DEF PutInPlace
    <2> QED
      BY <1>5, <1>9, <2>1, PlacedIsGood
  <1>10. CASE Deleted
    BY <1>10, DeletedIsGood
  <1>11. CASE \E kind \in {"full", "delta"} : Save(kind)
    <2>1. PICK kind \in {"full", "delta"} : Save(kind)
      BY <1>11
    <2>2. /\ objects' = objects /\ state' = state /\ exposed' = exposed
          /\ interrupted' = interrupted /\ dropped' = dropped /\ job'.op = "write"
      BY <2>1 DEF Save
    <2> QED
      BY <1>6, <2>2
  <1>12. CASE Recorded
    <2>1. job'.op = "write"
      BY <1>12, <1>4 DEF Recorded, Record, UpdateCheckpointStateExt, Idle
    <2> QED
      BY <1>5, <1>12, <2>1, RecordedIsGood
  <1>13. CASE \E f \in Steps : RemoveOldCheckpoint(f)
    <2>1. PICK f \in Steps : RemoveOldCheckpoint(f)
      BY <1>13
    <2>2. /\ CanDrop(f) /\ state' = DropVersion(state, f) /\ objects' = objects
          /\ exposed \subseteq exposed' /\ interrupted' = interrupted /\ dropped' = dropped
      BY <2>1 DEF RemoveOldCheckpoint
    <2>3. GoodInv'
      BY <2>2, DroppedIsGood
    <2>4. QueueInv'
      BY <2>1, RemovalQueued
    <2> QED
      BY <2>3, <2>4
  <1>14. CASE AllRemoved
    <2>1. /\ objects' = objects /\ state' = state /\ exposed' = exposed
          /\ interrupted' = interrupted /\ dropped' = dropped /\ job'.op = "write"
      BY <1>14 DEF AllRemoved, UpdateCheckpointStateExt, Idle, ghosts
    <2> QED
      BY <1>6, <2>1
  <1>15. CASE \E f \in Steps : DeleteSpecifiedHistoryVersion(f)
    <2>1. PICK f \in Steps : DeleteSpecifiedHistoryVersion(f)
      BY <1>15
    <2>2. /\ CanDrop(f) /\ state' = DropVersion(state, f) /\ objects' = objects
          /\ exposed' = exposed /\ interrupted' = interrupted /\ dropped' = dropped
          /\ job'.op = "write"
      BY <2>1 DEF DeleteSpecifiedHistoryVersion, UpdateCheckpointStateExt, Idle
    <2>3. GoodInv'
      BY <2>2, DroppedIsGood
    <2> QED
      BY <1>5, <2>2, <2>3
  <1>16. CASE Crash
    <2>1. /\ objects' = objects /\ state' = None /\ exposed' = exposed
          /\ interrupted' = interrupted /\ dropped' = dropped /\ job'.op # "remove"
      BY <1>4, <1>16 DEF Crash, ghosts
    <2> QED
      BY <1>6, <2>1
  <1>17. CASE Load
    <2>1. job'.op # "remove"
      <3>1. job = Idle
        BY <1>17 DEF Load, FilesInv, JobOK
      <3>2. job' = job
        BY <1>17 DEF Load, Restart
      <3> QED
        BY <1>4, <3>1, <3>2
    <2> QED
      BY <1>5, <1>17, <2>1, LoadedIsGood
  <1>18. Steppings
    BY EveryStep
  <1> QED
    BY <1>7, <1>8, <1>9, <1>10, <1>11, <1>12, <1>13, <1>14, <1>15, <1>16, <1>17, <1>18
       DEF Steppings

-----------------------------------------------------------------------------
(* What the invariants say of the properties.                              *)

LEMMA TwiceIsMore ==
  ASSUME NEW s \in Lists, NEW c, Twice(s.log, c)
  PROVE  Cardinality(Named(s, c)) > 1
  <1> DEFINE S == Named(s, c)
  <1>1. PICK i, j \in DOMAIN s.log : i # j /\ s.log[i].name = c /\ s.log[j].name = c
    BY DEF Twice
  <1>2. {i, j} \subseteq S
    BY <1>1 DEF Named
  <1>3. IsFiniteSet(S)
    <2>1. DOMAIN s.log = 1 .. Len(s.log) /\ Len(s.log) \in Nat
      BY ListIs, NamesAreNat
    <2>2. IsFiniteSet(1 .. Len(s.log))
      BY <2>1, FS_Interval
    <2>3. S \subseteq 1 .. Len(s.log)
      BY <2>1 DEF Named
    <2> QED
      BY <2>2, <2>3, FS_Subset
  <1> HIDE DEF S
  <1>4. Cardinality(S) \in Nat
    BY <1>3, FS_CardinalityType
  <1>5. Cardinality(S) # 0
    BY <1>2, <1>3, FS_EmptySet
  <1>6. Cardinality(S) # 1
    BY <1>1, <1>2, <1>3, FS_Singleton
  <1>7. Cardinality(S) > 1
    BY <1>4, <1>5, <1>6
  <1> QED
    BY <1>7 DEF S

LEMMA GoodIsSound ==
  ASSUME FilesInv, NEW s \in Lists, NEW c \in Steps, Good(s.log, objects[c], c)
  PROVE  Sound(s, c)
  <1>1. CASE Twice(s.log, c)
    BY <1>1, TwiceIsMore DEF Sound
  <1>2. CASE Newest(s.log, objects[c], c)
    <2> DEFINE o == objects[c]
    <2>1. o # None /\ \A i \in DOMAIN s.log : s.log[i].name = c => o[1][1] >= s.log[i].save
      BY <1>2 DEF Newest
    <2>2. OfSave(o, saves)
      BY <2>1, NamesAre DEF FilesInv, Objects, Fit
    <2>3. PICK v \in 1 .. saves : Chunks[v] > 0 /\ o = Whole(Bytes(v))
      BY <2>2 DEF OfSave
    <2>4. v \in 1 .. Len(Chunks)
      <3>1. saves \in 0 .. Len(Chunks) /\ Len(Chunks) \in Nat
        BY CheckpointsAssumption, LenIs DEF FilesInv, Types
      <3> QED
        BY <3>1
    <2>5. /\ Chunks[v] \in Nat /\ Bytes(v) \in Seq(Items) /\ Len(Bytes(v)) = Chunks[v]
          /\ Bytes(v)[1] = <<v, 1>>
      BY <2>3, <2>4, BytesAre
    <2>6. /\ Whole(Bytes(v))[1] = Bytes(v)[1]
          /\ Len(Bytes(v)) <= PartSize * MaxListed => Whole(Bytes(v)) = Bytes(v)
      BY <2>3, <2>5, WholeIs
    <2>7. o[1][1] = v
      BY <2>3, <2>5, <2>6
    <2>8. PartSize * MaxListed \in Nat
      BY SizesAre
    <2>9. o = Bytes(v) \/ Chunks[v] > PartSize * MaxListed
      BY <2>3, <2>5, <2>6, <2>8
    <2>10. \A i \in Named(s, c) : o[1][1] >= s.log[i].save
      BY <2>1 DEF Named
    <2> QED
      BY <2>1, <2>7, <2>9, <2>10 DEF Sound
  <1> QED
    BY <1>1, <1>2 DEF Good

\* The type invariant, from what is kept.
LEMMA TypesAre ==
  ASSUME FilesInv, ReaderInv, AckedInv
  PROVE  TypeOK
  <1>1. \A n \in Names : objects[n] = None \/ Len(objects[n]) > 0
    BY DEF FilesInv, Objects, Fit
  <1>2. file # None => file.name \in Range(Temp) /\ Len(file.buffer) <= PartSize
    <2> SUFFICES ASSUME file # None PROVE file.name \in Range(Temp) /\ Len(file.buffer) <= PartSize
      OBVIOUS
    <2>1. /\ file.name = Temp[job.target] /\ job.op = "write" /\ job.target # None
          /\ Lost(file) \/ Writing(file, Data(job, state))
      BY DEF FilesInv, FileOK, JobOK
    <2>2. job.target \in Steps \cup {StateFile}
      BY <2>1, DataIs DEF FilesInv
    <2>3. DOMAIN Temp = Steps \cup {StateFile}
      BY CheckpointsAssumption
    <2>4. file.name \in Range(Temp)
      BY <2>1, <2>2, <2>3 DEF Range
    <2>5. Len(file.buffer) <= PartSize
      <3>1. CASE Lost(file)
        <4>1. Len(file.buffer) = 0
          BY <3>1 DEF Lost
        <4> QED
          BY <4>1, SizesAre
      <3>2. CASE Writing(file, Data(job, state))
        BY <3>2 DEF Writing
      <3> QED
        BY <2>1, <3>1, <3>2
    <2> QED
      BY <2>4, <2>5
  <1>3. reader # None => reader.name \in Steps /\ reader.start \in 0 .. reader.length
    BY ReaderOKIs DEF ReaderInv, ReaderShape
  <1>4. job.op \in {"idle", "write", "rename", "unlink", "record", "remove"} /\ job.save \in Nat
    BY DEF FilesInv, Types, JobType
  <1>5. Listed(state) \subseteq Steps
    <2>1. CASE state = None
      BY <2>1 DEF Listed
    <2>2. CASE state # None
      BY <2>2, ListedAreSteps DEF FilesInv, Types
    <2> QED
      BY <2>1, <2>2
  <1>6. saves \in Nat
    BY CheckpointsAssumption, LenIs DEF FilesInv, Types
  <1>7. job.save \in 0 .. saves
    BY <1>4, <1>6 DEF FilesInv, JobOK
  <1>8. acked \subseteq 0 .. saves
    <2> SUFFICES ASSUME NEW v \in acked PROVE v \in 0 .. saves
      OBVIOUS
    <2>1. Durable # None /\ acked \subseteq SavesOf(Durable)
      BY DEF AckedInv
    <2>2. SavedBy(Durable, saves)
      BY <2>1, DurableIs
    <2>3. v \in 1 .. saves
      BY <2>1, <2>2 DEF SavesOf, SavedBy
    <2> QED
      BY <1>6, <2>3
  <1>9. UNION {acked, {job.save}} \subseteq 0 .. saves
    BY <1>7, <1>8
  <1>10. /\ UNION {orphans, dropped, interrupted, exposed} \subseteq Steps
         /\ faults \in 0 .. MaxFaults /\ crashes \in 0 .. MaxCrashes
    BY DEF FilesInv, Types
  <1> QED
    BY <1>1, <1>2, <1>3, <1>4, <1>5, <1>9, <1>10 DEF TypeOK

LEMMA GoodIs ==
  ASSUME FilesInv, GoodInv, TypeOK
  PROVE  CurrentIsComplete /\ HistoryIsComplete
  <1>1. state # None => state \in Lists
    BY DEF FilesInv, Types
  <1>2. Durable # None => Durable \in Lists
    BY DurableIs
  <1>3. ASSUME NEW s \in {state, Durable} \ {None}, NEW c \in Current(s) \ exposed
        PROVE  Sound(s, c)
    <2>1. s \in Lists
      BY <1>1, <1>2
    <2>2. c \in Steps
      BY <2>1, ListedAreSteps
    <2>3. Good(s.log, objects[c], c)
      BY DEF GoodInv, GoodAt
    <2> QED
      BY <2>1, <2>2, <2>3, GoodIsSound
  <1>4. ASSUME state # None, NEW c \in History(state) \ interrupted
        PROVE  Sound(state, c)
    <2>1. state \in Lists
      BY <1>1, <1>4
    <2>2. c \in Steps /\ c \in Listed(state)
      BY <2>1, ListedAreSteps
    <2>3. Good(state.log, objects[c], c)
      BY <1>4, <2>2 DEF GoodInv, GoodAt
    <2> QED
      BY <2>1, <2>2, <2>3, GoodIsSound
  <1> QED
    BY <1>3, <1>4 DEF CurrentIsComplete, HistoryIsComplete

LEMMA ListsBegin ==
  ASSUME Init
  PROVE  ListsInv /\ NamesInv /\ GoodInv /\ QueueInv
  <1>1. state = None /\ Durable = None /\ job = Idle
    BY NamesAre DEF Init, Durable
  <1>2. job.op = "idle" /\ job.target \notin Steps
    BY <1>1, IdleIs, NamesAre
  <1>3. ListsInv
    BY <1>1 DEF ListsInv
  <1>4. NamesInv
    BY <1>1, <1>2 DEF NamesInv, SavingInv, OrderInv, LineInv
  <1>5. GoodInv /\ QueueInv
    BY <1>1, <1>2 DEF GoodInv, QueueInv
  <1> QED
    BY <1>3, <1>4, <1>5

-----------------------------------------------------------------------------
(* The theorems.                                                           *)

\* What is kept of the list.
ChainsInv == ListsInv /\ NamesInv /\ GoodInv /\ QueueInv

\* Whatever fails and wherever the process crashes, the object of a
\* checkpoint is the first parts of the data of one save, the object of
\* checkpoint_ext is one whole list (update_checkpiont_state_ext), what has
\* been renamed is what was written, and a file that is being written holds
\* its data part by part or has lost its upload (OSSWritableFile).
THEOREM FilesAreKept == Spec => []FilesInv
  <1>1. Init => FilesInv
    BY FilesBegin
  <1>2. FilesInv /\ [Next]_vars => FilesInv'
    BY FilesKept
  <1> QED
    BY <1>1, <1>2, PTL DEF Spec

\* The types of the files and of CheckpointStateManager: a file being written
\* buffers at most a part, a reader stays in its object, only steps are named.
THEOREM FilesAreTyped == Spec => []TypeOK
  <1>1. Init => ReaderInv /\ AckedInv
    BY ReaderBegins
  <1>2. FilesInv /\ ReaderInv /\ [Next]_vars => ReaderInv'
    BY ReaderKept
  <1>3. FilesInv /\ AckedInv /\ [Next]_vars => AckedInv'
    BY AckedKept
  <1>4. FilesInv /\ ReaderInv /\ AckedInv => TypeOK
    BY TypesAre
  <1> QED
    BY <1>1, <1>2, <1>3, <1>4, FilesAreKept, PTL DEF Spec

\* The list in memory and the one in checkpoint_ext are views of their logs
\* (ListsInv), the names go up with training and memory goes on where
\* checkpoint_ext ends or began anew (NamesInv), the objects in the list are
\* of the last save under their name (GoodInv), and what
\* remove_old_checkpoint is about to delete is not needed (QueueInv).
THEOREM ChainsAreKept == Spec => []ChainsInv
  <1>1. Init => ChainsInv
    BY ListsBegin DEF ChainsInv
  <1>2. FilesInv /\ ChainsInv /\ [Next]_vars => ChainsInv'
    <2> SUFFICES ASSUME FilesInv, ChainsInv, [Next]_vars PROVE ChainsInv'
      OBVIOUS
    <2>1. ListsInv'
      BY ListsKept DEF ChainsInv
    <2>2. NamesInv'
      BY NamesKept DEF ChainsInv
    <2>3. GoodInv' /\ QueueInv'
      BY GoodKept DEF ChainsInv
    <2> QED
      BY <2>1, <2>2, <2>3 DEF ChainsInv
  <1> QED
    BY <1>1, <1>2, FilesAreKept, PTL DEF Spec

\* update_latest_full_checkpoint, add_delta_checkpoint and the removals keep
\* the list as the log has it, in memory and in checkpoint_ext.
THEOREM ChainsFollow == Spec => []ChainFollowsLog
  <1>1. ChainsInv => ChainFollowsLog
    BY ListsAre DEF ChainsInv
  <1> QED
    BY <1>1, ChainsAreKept, PTL

\* Every current checkpoint of either list is there and complete, across failed
\* requests, crashes and removals, but for the versions removed as old ones while
\* checkpoint_ext had them as current, the names recorded twice and the saves of
\* more parts than a listing returns.
THEOREM CurrentStaysComplete == Spec => []CurrentIsComplete
  <1>1. FilesInv /\ ChainsInv /\ TypeOK => CurrentIsComplete
    BY GoodIs DEF ChainsInv
  <1> QED
    BY <1>1, FilesAreKept, ChainsAreKept, FilesAreTyped, PTL

\* So is every old version in the list in memory, with the same excuses for
\* names and parts, unless its removal was cut short and a restart found it.
THEOREM HistoryStaysComplete == Spec => []HistoryIsComplete
  <1>1. FilesInv /\ ChainsInv /\ TypeOK => HistoryIsComplete
    BY GoodIs DEF ChainsInv
  <1> QED
    BY <1>1, FilesAreKept, ChainsAreKept, FilesAreTyped, PTL

\* No object of a checkpoint is left that neither the list nor the caller
\* knows of, but for errors, crashes and forgotten versions.
THEOREM OrphansAreKnown == Spec => []NothingOrphaned
  <1>1. Init => NothingOrphaned
    BY ReaderBegins
  <1>2. FilesInv /\ NothingOrphaned /\ [Next]_vars => NothingOrphaned'
    BY OrphansKept
  <1> QED
    BY <1>1, <1>2, FilesAreKept, PTL DEF Spec

\* A checkpoint whose recording returned without an error stays in
\* checkpoint_ext until a restart could not read it.
THEOREM RecordingsSurvive == Spec => []RecordedSurvives
  <1>1. Init => AckedInv
    BY ReaderBegins
  <1>2. FilesInv /\ AckedInv /\ [Next]_vars => AckedInv'
    BY AckedKept
  <1>3. FilesInv /\ AckedInv => RecordedSurvives
    BY AckedIs
  <1> QED
    BY <1>1, <1>2, <1>3, FilesAreKept, PTL DEF Spec

\* OSSRandomAccessFile::Read returns the chunks at its offset as they were
\* when the file was opened.
THEOREM FaithfulReads == Spec => []ReadsAreFaithful
  <1>1. Init => ReaderInv
    BY ReaderBegins
  <1>2. FilesInv /\ ReaderInv /\ [Next]_vars => ReaderInv'
    BY ReaderKept
  <1>3. ReaderInv => ReadsAreFaithful
    BY ReaderIs
  <1> QED
    BY <1>1, <1>2, <1>3, FilesAreKept, PTL DEF Spec
=============================================================================
