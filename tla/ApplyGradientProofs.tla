------------------------ MODULE ApplyGradientProofs ------------------------
(***************************************************************************)
(* Two inductive invariants for any number of shards and rows, and every   *)
(* kernel class that is as KernelsSound says.  IInv is about the row that  *)
(* the shards share: what an optimizer changes is marked, and what is      *)
(* large enough to be exported is not under the cut-off.  TextInv relates  *)
(* what a shard has done of its row to the text of its kernel.             *)
(***************************************************************************)
EXTENDS ApplyGradient, TLAPS

Fields == {"at", "bad", "left", "pc", "mine", "reads", "spoiled", "wrote", "freed", "marks"}

ShapeOK ==
  /\ kernel \in Kernels
  /\ table \in Names(kernel.tables)
  /\ row \in Row \cup {Absent}
  /\ kernel.kind # "kv" => row # Absent
  /\ DOMAIN worker = Workers
  /\ \A w \in Workers :
       /\ DOMAIN worker[w] = Fields
       /\ worker[w].pc \in Nat \ {0}
       /\ worker[w].mine \in BOOLEAN
       /\ worker[w].marks \in Seq(STRING)

\* The row of the watched table is there once a worker has found it.
RowFound ==
  kernel.kind = "kv" =>
    \A w \in Workers : \A i \in DOMAIN Steps :
      /\ worker[w].at = "row" /\ i < worker[w].pc
      /\ Steps[i].do = "find" /\ Steps[i].sure /\ Watched(Steps[i].t)
      => row # Absent

\* The reader lacks nothing that is not listed.
Settled ==
  \/ row = Absent \/ listed \/ copy = "same" \/ row.rare
  \/ copy = "none" /\ row.under /\ ~row.black

\* A worker that has begun a row, or ended one, marks the table later.
WillMark(w) ==
  \/ worker[w].at = "row" /\ (worker[w].mine \/ worker[w].pc > 1)
  \/ /\ worker[w].at = "marking" /\ worker[w].mine
     /\ \E i \in DOMAIN worker[w].marks : Watched(worker[w].marks[i])

ChangesMarked ==
  kernel.kind = "kv" /\ kernel.op \notin Exempt.chain =>
    Settled \/ \E w \in Workers : WillMark(w)

\* The row's flag agrees with its values.
Judged == row # Absent => (row.big /\ ~row.black => ~row.under)

WillRefresh(w) ==
  /\ worker[w].at = "row"
  /\ \E j \in DOMAIN Steps :
       /\ worker[w].pc <= j
       /\ Steps[j].do = "cover" /\ Steps[j].sure /\ Watched(Steps[j].t)
  /\ worker[w].pc > 1

FlagsRefreshed ==
  kernel.kind = "kv" /\ <<kernel.op, table>> \notin Exempt.cutoff =>
    Judged \/ \E w \in Workers : WillRefresh(w)

\* The inductive invariant.
IInv == ShapeOK /\ RowFound /\ ChangesMarked /\ FlagsRefreshed

-----------------------------------------------------------------------------
(* How a worker moves. *)

Goes(w, at, pc, mine, marks) ==
  /\ DOMAIN worker' = Workers
  /\ \A x \in Workers : x # w => worker'[x] = worker[x]
  /\ DOMAIN worker'[w] = Fields
  /\ worker'[w].at = at /\ worker'[w].pc = pc
  /\ worker'[w].mine = mine /\ worker'[w].marks = marks

\* One step forward in the row.
Forward(w) == Goes(w, worker[w].at, worker[w].pc + 1, worker[w].mine, worker[w].marks)

LEMMA WorkerFacts ==
  ASSUME ShapeOK, NEW w \in Workers
  PROVE  /\ DOMAIN worker = Workers /\ DOMAIN worker[w] = Fields
         /\ worker[w].pc \in Nat \ {0} /\ worker[w].mine \in BOOLEAN
         /\ worker[w].marks \in Seq(STRING)
  BY DEF ShapeOK

LEMMA Replaced ==
  ASSUME ShapeOK, NEW w \in Workers, NEW x, worker' = [worker EXCEPT ![w] = x],
         DOMAIN x = Fields
  PROVE  Goes(w, x.at, x.pc, x.mine, x.marks)
  <1>1. DOMAIN worker = Workers
    BY DEF ShapeOK
  <1>2. worker'[w] = x /\ DOMAIN worker' = Workers
    BY <1>1
  <1>3. \A y \in Workers : y # w => worker'[y] = worker[y]
    BY <1>1
  <1> QED
    BY <1>2, <1>3 DEF Goes

LEMMA Advances ==
  ASSUME ShapeOK, NEW w \in Workers, Advance(w)
  PROVE  Forward(w)
  <1> DEFINE x == [worker[w] EXCEPT !.pc = @ + 1, !.bad = None]
  <1>1. DOMAIN worker[w] = Fields /\ DOMAIN worker = Workers
    BY WorkerFacts
  <1>2. worker' = [worker EXCEPT ![w] = x]
    BY <1>1 DEF Advance
  <1>3. /\ DOMAIN x = Fields /\ x.at = worker[w].at /\ x.pc = worker[w].pc + 1
        /\ x.mine = worker[w].mine /\ x.marks = worker[w].marks
    BY <1>1 DEF Fields
  <1> HIDE DEF x
  <1> QED
    BY <1>2, <1>3, Replaced DEF Forward

LEMMA AssignedFacts ==
  ASSUME NEW x, DOMAIN x = Fields, NEW t
  PROVE  LET y == Assigned(x, t)
         IN /\ DOMAIN y = Fields /\ y.at = x.at /\ y.pc = x.pc + 1
            /\ y.mine = x.mine /\ y.marks = x.marks
  BY DEF Assigned, Fields

LEMMA AssignedForward ==
  ASSUME ShapeOK, NEW w \in Workers, NEW t, worker' = [worker EXCEPT ![w] = Assigned(@, t)]
  PROVE  Forward(w)
  <1> DEFINE x == Assigned(worker[w], t)
  <1>1. DOMAIN worker[w] = Fields /\ worker' = [worker EXCEPT ![w] = x]
    BY WorkerFacts
  <1>2. /\ DOMAIN x = Fields /\ x.at = worker[w].at /\ x.pc = worker[w].pc + 1
        /\ x.mine = worker[w].mine /\ x.marks = worker[w].marks
    BY <1>1, AssignedFacts
  <1> HIDE DEF x
  <1>3. Goes(w, x.at, x.pc, x.mine, x.marks)
    BY <1>1, <1>2, Replaced
  <1> QED
    BY <1>2, <1>3 DEF Forward

LEMMA NameForward ==
  ASSUME ShapeOK, NEW w \in Workers, Name(w)
  PROVE  Forward(w)
  <1> DEFINE s == Current(w)
             u == {<<s.t, r>> : r \in RowsRead(w, s.reads)}
             x == [worker[w] EXCEPT !.pc = @ + 1, !.reads = @ \cup u]
  <1>1. worker' = [worker EXCEPT ![w].pc = @ + 1, ![w].reads = @ \cup u]
    BY DEF Name
  <1> HIDE DEF u
  <1>2. DOMAIN worker[w] = Fields /\ DOMAIN worker = Workers
    BY WorkerFacts
  <1>3. worker' = [worker EXCEPT ![w] = x]
    BY <1>1, <1>2 DEF Fields
  <1>4. /\ DOMAIN x = Fields /\ x.at = worker[w].at /\ x.pc = worker[w].pc + 1
        /\ x.mine = worker[w].mine /\ x.marks = worker[w].marks
    BY <1>2 DEF Fields
  <1> HIDE DEF x
  <1> QED
    BY <1>3, <1>4, Replaced DEF Forward

LEMMA DropForward ==
  ASSUME ShapeOK, NEW w \in Workers, DropRow(w)
  PROVE  Forward(w)
  <1> DEFINE x == [worker[w] EXCEPT !.pc = @ + 1, !.freed = TRUE]
  <1>1. worker' = [worker EXCEPT ![w].pc = @ + 1, ![w].freed = TRUE]
    BY DEF DropRow
  <1>2. DOMAIN worker[w] = Fields /\ DOMAIN worker = Workers
    BY WorkerFacts
  <1>3. worker' = [worker EXCEPT ![w] = x]
    BY <1>1, <1>2 DEF Fields
  <1>4. /\ DOMAIN x = Fields /\ x.at = worker[w].at /\ x.pc = worker[w].pc + 1
        /\ x.mine = worker[w].mine /\ x.marks = worker[w].marks
    BY <1>2 DEF Fields
  <1> HIDE DEF x
  <1> QED
    BY <1>3, <1>4, Replaced DEF Forward

LEMMA NextRowFacts ==
  ASSUME NEW x, DOMAIN x = Fields
  PROVE  LET y == NextRow(x)
         IN /\ DOMAIN y = Fields /\ y.pc = 1 /\ y.mine = x.mine
            /\ \/ y.at = x.at /\ y.marks = x.marks
               \/ y.at = "marking" /\ y.marks = kernel.marks
  <1> DEFINE f == FreshRow(x)
  <1>1. /\ DOMAIN f = Fields /\ f.at = x.at /\ f.pc = 1
        /\ f.mine = x.mine /\ f.marks = x.marks
    BY DEF FreshRow, Fields
  <1> HIDE DEF f
  <1>2. CASE x.left > 1
    <2> DEFINE y == [f EXCEPT !.left = @ - 1]
    <2>1. NextRow(x) = y
      BY <1>2 DEF NextRow, f
    <2>2. /\ DOMAIN y = Fields /\ y.at = f.at /\ y.pc = f.pc
          /\ y.mine = f.mine /\ y.marks = f.marks
      BY <1>1 DEF Fields
    <2> HIDE DEF y
    <2> QED
      BY <1>1, <2>1, <2>2
  <1>3. CASE ~(x.left > 1)
    <2> DEFINE y == [f EXCEPT !.left = 0, !.at = "marking", !.marks = kernel.marks]
    <2>1. NextRow(x) = y
      BY <1>3 DEF NextRow, f
    <2>2. /\ DOMAIN y = Fields /\ y.at = "marking" /\ y.pc = f.pc
          /\ y.mine = f.mine /\ y.marks = kernel.marks
      BY <1>1 DEF Fields
    <2> HIDE DEF y
    <2> QED
      BY <1>1, <2>1, <2>2
  <1> QED
    BY <1>2, <1>3

-----------------------------------------------------------------------------
(* Kernels. *)

LEMMA KernelFacts ==
  ASSUME ShapeOK
  PROVE  /\ Len(Steps) \in Nat /\ DOMAIN Steps = 1 .. Len(Steps)
         /\ kernel.marks \in Seq(STRING)
         /\ Watched(table)
  <1>1. Steps \in Seq(AnyStep) /\ kernel.marks \in Seq(STRING)
    BY KernelsAssumption DEF ShapeOK, Steps
  <1>2. Len(Steps) \in Nat /\ DOMAIN Steps = 1 .. Len(Steps)
    BY <1>1
  <1>3. Watched(table)
    BY DEF ShapeOK, Watched, TableOf, Holder
  <1> QED
    BY <1>1, <1>2, <1>3

LEMMA RowPlace ==
  ASSUME ShapeOK, NEW w \in Workers, AtRow(w)
  PROVE  worker[w].at = "row" /\ worker[w].pc \in DOMAIN Steps /\ Current(w) = Steps[worker[w].pc]
  BY KernelFacts, WorkerFacts DEF AtRow, Current

\* What KernelsSound says of the class that is run.
LEMMA SoundFacts ==
  ASSUME KernelsSound, ShapeOK, kernel.kind = "kv"
  PROVE  /\ \A i \in DOMAIN Steps :
              /\ Steps[i].do # "bound"
              /\ Steps[i].do = "find" /\ Steps[i].t = "var" => i = 1
              /\ Steps[i].do = "lasso" => Steps[i].t = "var"
              /\ Steps[i].do \in {"write", "cover", "lasso"} =>
                   \E j \in DOMAIN Steps :
                     /\ j < i /\ Steps[j].do = "find" /\ Steps[j].sure
                     /\ TableOf(Steps[j].t) = TableOf(Steps[i].t)
         /\ kernel.op \notin Exempt.chain => \E i \in DOMAIN kernel.marks : Watched(kernel.marks[i])
         /\ <<kernel.op, table>> \notin Exempt.cutoff =>
              \A i \in DOMAIN Steps :
                Steps[i].do = "write" /\ Watched(Steps[i].t) =>
                  \E j \in DOMAIN Steps :
                    /\ j > i /\ Steps[j].do = "cover" /\ Steps[j].sure
                    /\ Watched(Steps[j].t)
  <1>1. kernel \in Kernels /\ table \in Names(kernel.tables)
    BY DEF ShapeOK
  <1>2. WellOrdered(kernel)
    BY <1>1 DEF KernelsSound
  <1>3. kernel.op \notin Exempt.chain => MarksItsTables(kernel)
    BY <1>1 DEF KernelsSound
  <1>4. kernel.op \notin Exempt.chain => \E i \in DOMAIN kernel.marks : kernel.marks[i] = table
    BY <1>1, <1>3 DEF MarksItsTables, Names
  <1>5. <<kernel.op, table>> \notin Exempt.cutoff => RefreshesTable(kernel, table)
    BY <1>1 DEF KernelsSound
  <1>6. Watched(table)
    BY KernelFacts
  <1> QED
    BY <1>1, <1>2, <1>4, <1>5, <1>6, KernelsAssumption DEF WellOrdered, RefreshesTable, Watched, TableOf, Steps

\* A row that is touched has been found.
LEMMA TouchedIsThere ==
  ASSUME KernelsSound, IInv, NEW w \in Workers, AtRow(w),
         Current(w).do \in {"write", "cover", "lasso"}, Watched(Current(w).t)
  PROVE  row \in Row /\ row # Absent
  <1>1. CASE kernel.kind # "kv"
    BY <1>1 DEF IInv, ShapeOK
  <1>2. CASE kernel.kind = "kv"
    <2>1. /\ worker[w].at = "row" /\ worker[w].pc \in DOMAIN Steps
          /\ Current(w) = Steps[worker[w].pc]
      BY RowPlace DEF IInv
    <2>2. PICK j \in DOMAIN Steps :
            /\ j < worker[w].pc /\ Steps[j].do = "find" /\ Steps[j].sure
            /\ TableOf(Steps[j].t) = TableOf(Steps[worker[w].pc].t)
      BY <1>2, <2>1, SoundFacts DEF IInv
    <2>3. Watched(Steps[j].t)
      BY <2>1, <2>2 DEF Watched
    <2>4. row # Absent
      BY <1>2, <2>1, <2>2, <2>3 DEF IInv, RowFound
    <2> QED
      BY <2>4 DEF IInv, ShapeOK
  <1> QED
    BY <1>1, <1>2

-----------------------------------------------------------------------------
(* Steps on a row. *)

LEMMA GoesShape ==
  ASSUME ShapeOK, NEW w \in Workers, NEW at, NEW pc \in Nat \ {0}, NEW mine \in BOOLEAN,
         NEW marks \in Seq(STRING), Goes(w, at, pc, mine, marks),
         kernel' = kernel, table' = table, row' \in Row \cup {Absent},
         row # Absent => row' # Absent
  PROVE  ShapeOK'
  BY DEF ShapeOK, Goes

\* A step forward finds what it should, refreshes what it should, and leaves a
\* row unjudged only if it writes it.
LEMMA ForwardKeeps ==
  ASSUME KernelsSound, IInv, NEW w \in Workers, AtRow(w), Forward(w),
         kernel' = kernel, table' = table, row' \in Row \cup {Absent},
         row # Absent => row' # Absent,
         kernel.kind = "kv" /\ Current(w).do = "find" /\ Current(w).sure
           /\ Watched(Current(w).t) => row' # Absent,
         kernel.kind = "kv" /\ Current(w).do = "cover" /\ Current(w).sure
           /\ Watched(Current(w).t) => Judged',
         kernel.kind = "kv" /\ Judged =>
           Judged' \/ (Current(w).do = "write" /\ Watched(Current(w).t))
  PROVE  IInv'
  <1>1. ShapeOK /\ RowFound /\ ChangesMarked /\ FlagsRefreshed
    BY DEF IInv
  <1>2. /\ worker[w].at = "row" /\ worker[w].pc \in DOMAIN Steps
        /\ Current(w) = Steps[worker[w].pc]
    BY <1>1, RowPlace
  <1>3. /\ worker'[w].at = "row" /\ worker'[w].pc = worker[w].pc + 1
        /\ \A x \in Workers : x # w => worker'[x] = worker[x]
    BY <1>2 DEF Forward, Goes
  <1>4. worker[w].pc \in Nat \ {0} /\ worker[w].pc + 1 > 1
    BY <1>1, WorkerFacts
  <1>5. ShapeOK'
    BY <1>1, <1>4, WorkerFacts, GoesShape DEF Forward
  <1>6. Steps' = Steps /\ \A t : Watched(t)' <=> Watched(t)
    BY DEF Steps, Watched, TableOf
  <1>7. RowFound'
    <2> SUFFICES ASSUME kernel.kind = "kv", NEW x \in Workers, NEW i \in DOMAIN Steps,
                        worker'[x].at = "row", i < worker'[x].pc,
                        Steps[i].do = "find", Steps[i].sure, Watched(Steps[i].t)
                 PROVE  row' # Absent
      BY <1>6 DEF RowFound
    <2>1. CASE x # w
      BY <1>1, <1>3, <2>1 DEF RowFound
    <2>2. CASE x = w /\ i < worker[w].pc
      BY <1>1, <1>2, <2>2 DEF RowFound
    <2>3. CASE x = w /\ i = worker[w].pc
      BY <1>2, <2>3
    <2>4. i \in Nat
      BY <1>1, KernelFacts
    <2> QED
      BY <1>3, <1>4, <2>1, <2>2, <2>3, <2>4
  <1>8. WillMark(w)'
    BY <1>3, <1>4 DEF WillMark
  <1>9. ChangesMarked'
    BY <1>8 DEF ChangesMarked
  <1>10. ASSUME kernel.kind = "kv", <<kernel.op, table>> \notin Exempt.cutoff
         PROVE  Judged' \/ \E x \in Workers : WillRefresh(x)'
    <2>1. CASE Current(w).do = "write" /\ Watched(Current(w).t)
      <3>1. PICK j \in DOMAIN Steps :
              /\ j > worker[w].pc /\ Steps[j].do = "cover" /\ Steps[j].sure
              /\ Watched(Steps[j].t)
        BY <1>1, <1>2, <1>10, <2>1, SoundFacts
      <3>2. j \in Nat
        BY <1>1, KernelFacts
      <3>3. worker'[w].pc <= j
        BY <1>3, <1>4, <3>1, <3>2
      <3>4. WillRefresh(w)'
        BY <1>3, <1>4, <1>6, <3>1, <3>3 DEF WillRefresh
      <3> QED
        BY <3>4
    <2>2. CASE Judged /\ ~(Current(w).do = "write" /\ Watched(Current(w).t))
      BY <1>10, <2>2
    <2>3. ASSUME NEW x \in Workers, WillRefresh(x), x # w
          PROVE  WillRefresh(x)'
      BY <1>3, <1>6, <2>3 DEF WillRefresh
    <2>4. ASSUME WillRefresh(w)
          PROVE  Judged' \/ WillRefresh(w)'
      <3>1. PICK j \in DOMAIN Steps :
              /\ worker[w].pc <= j
              /\ Steps[j].do = "cover" /\ Steps[j].sure /\ Watched(Steps[j].t)
        BY <2>4 DEF WillRefresh
      <3>2. CASE j = worker[w].pc
        BY <1>2, <1>10, <3>1, <3>2
      <3>3. CASE j # worker[w].pc
        <4>1. j \in Nat
          BY <1>1, KernelFacts
        <4>2. worker'[w].pc <= j
          BY <1>3, <1>4, <3>1, <3>3, <4>1
        <4> QED
          BY <1>3, <1>4, <1>6, <3>1, <4>2 DEF WillRefresh
      <3> QED
        BY <3>2, <3>3
    <2> QED
      BY <1>1, <1>10, <2>1, <2>2, <2>3, <2>4 DEF FlagsRefreshed
  <1>11. FlagsRefreshed'
    BY <1>10 DEF FlagsRefreshed
  <1> QED
    BY <1>5, <1>7, <1>9, <1>11 DEF IInv

\* Steps forward that leave the row as it is and are no refresh.
LEMMA QuietForward ==
  ASSUME KernelsSound, IInv, NEW w \in Workers, AtRow(w), Forward(w),
         UNCHANGED <<kernel, table, row>>,
         ~(kernel.kind = "kv" /\ Current(w).do \in {"find", "cover"} /\ Current(w).sure
           /\ Watched(Current(w).t))
  PROVE  IInv'
  <1>1. row' \in Row \cup {Absent}
    BY DEF IInv, ShapeOK
  <1>2. Judged' <=> Judged
    BY DEF Judged
  <1> QED
    BY <1>1, <1>2, ForwardKeeps

LEMMA NewRowFacts ==
  ASSUME NEW big \in BOOLEAN, NEW rare \in BOOLEAN
  PROVE  LET r == NewRow(big, rare)
         IN r \in Row /\ r # Absent /\ r.under = ~r.big
  <1> DEFINE u == ~big
             r == [big |-> big, black |-> FALSE, under |-> u, rare |-> rare]
  <1>1. u \in BOOLEAN
    OBVIOUS
  <1>2. NewRow(big, rare) = r
    BY DEF NewRow
  <1>3. r.big = big /\ r.under = u
    OBVIOUS
  <1>4. u = ~big
    OBVIOUS
  <1> HIDE DEF u
  <1>5. r \in Row
    BY <1>1 DEF Row
  <1> HIDE DEF r
  <1> QED
    BY <1>2, <1>3, <1>4, <1>5, AbsentAssumption

LEMMA RefreshedFacts ==
  ASSUME NEW r \in Row
  PROVE  LET x == Refreshed(r)
         IN x \in Row /\ x # Absent /\ (x.big /\ ~x.black => ~x.under)
  <1> DEFINE u == r.black \/ ~r.big
             x == [r EXCEPT !.under = u]
  <1>1. u \in BOOLEAN
    OBVIOUS
  <1>2. r.big /\ ~r.black => u = FALSE
    OBVIOUS
  <1>3. Refreshed(r) = x
    BY DEF Refreshed
  <1> HIDE DEF u
  <1>4. x \in Row /\ x.big = r.big /\ x.black = r.black /\ x.under = u
    BY <1>1 DEF Row
  <1> HIDE DEF x
  <1> QED
    BY <1>2, <1>3, <1>4, AbsentAssumption

LEMMA FindInv ==
  ASSUME KernelsSound, IInv, NEW w \in Workers, FindVar(w) \/ FindSlot(w)
  PROVE  IInv'
  <1>1. ShapeOK /\ row \in Row \cup {Absent}
    BY DEF IInv, ShapeOK
  <1>2. /\ AtRow(w) /\ Advance(w) /\ kernel' = kernel /\ table' = table
        /\ Current(w).do = "find"
    BY DEF FindVar, FindSlot, AtStep
  <1>3. Forward(w)
    BY <1>1, <1>2, Advances
  <1>4. row # Absent =>
          Revived \in Row /\ (Revived.big /\ ~Revived.black => Revived = row)
    <2>1. CASE row \in Row /\ row.black
      <3> DEFINE x == [row EXCEPT !.big = FALSE, !.black = FALSE, !.under = TRUE]
      <3>1. x \in Row /\ x.big = FALSE
        BY <2>1 DEF Row
      <3>2. Revived = x
        BY <2>1 DEF Revived
      <3> HIDE DEF x
      <3> QED
        BY <3>1, <3>2
    <2>2. CASE row \in Row /\ ~row.black
      BY <2>2 DEF Revived
    <2> QED
      BY <1>1, <2>1, <2>2
  <1>5. /\ row' \in Row \cup {Absent}
        /\ row # Absent => row' # Absent
        /\ Watched(Current(w).t) => row' # Absent
        /\ Judged => Judged'
    <2>1. CASE /\ row = Absent
               /\ \E big, rare \in BOOLEAN : row' = NewRow(big, rare)
      <3>1. row' \in Row /\ row' # Absent /\ row'.under = ~row'.big
        BY <2>1, NewRowFacts
      <3> QED
        BY <2>1, <3>1 DEF Judged
    <2>2. CASE row # Absent /\ row' = Revived
      <3>1. row' \in Row /\ row' # Absent /\ (row'.big /\ ~row'.black => row' = row)
        BY <1>4, <2>2, AbsentAssumption
      <3> QED
        BY <2>2, <3>1 DEF Judged
    <2>3. CASE row' = row /\ (Watched(Current(w).t) => row # Absent)
      BY <1>1, <2>3 DEF Judged
    <2>4. CASE FindVar(w)
      BY <2>1, <2>2, <2>3, <2>4 DEF FindVar, AtStep
    <2>5. CASE FindSlot(w)
      BY <2>1, <2>3, <2>5 DEF FindSlot
    <2> QED
      BY <2>4, <2>5
  <1> QED
    BY <1>2, <1>3, <1>5, ForwardKeeps

LEMMA AssignInv ==
  ASSUME KernelsSound, IInv, NEW w \in Workers, Assign(w)
  PROVE  IInv'
  <1>1. /\ AtRow(w) /\ kernel' = kernel /\ table' = table /\ Current(w).do = "write"
    BY DEF Assign, AtStep
  <1>2. Forward(w)
    BY AssignedForward DEF Assign, IInv
  <1>3. row \in Row \cup {Absent}
    BY DEF IInv, ShapeOK
  <1>4. CASE kernel.kind = "kv" /\ Watched(Current(w).t)
    <2>1. row \in Row
      BY <1>1, <1>4, TouchedIsThere
    <2>2. PICK big \in BOOLEAN : row' = [row EXCEPT !.big = big]
      BY <1>4 DEF Assign
    <2>3. row' \in Row
      BY <2>1, <2>2 DEF Row
    <2> QED
      BY <1>1, <1>2, <1>4, <2>3, AbsentAssumption, ForwardKeeps
  <1>5. CASE ~(kernel.kind = "kv" /\ Watched(Current(w).t))
    <2>1. row' = row
      BY <1>5 DEF Assign
    <2> QED
      BY <1>1, <1>2, <2>1, QuietForward
  <1> QED
    BY <1>4, <1>5

LEMMA RefreshInv ==
  ASSUME KernelsSound, IInv, NEW w \in Workers, Refresh(w)
  PROVE  IInv'
  <1>1. /\ AtRow(w) /\ kernel' = kernel /\ table' = table /\ Current(w).do = "cover"
    BY DEF Refresh, AtStep
  <1>2. Forward(w)
    BY Advances DEF Refresh, IInv
  <1>3. CASE Watched(Current(w).t)
    <2>1. row \in Row
      BY <1>1, <1>3, TouchedIsThere
    <2>2. row' = Refreshed(row)
      BY <1>3 DEF Refresh
    <2>3. row' \in Row /\ row' # Absent /\ (row'.big /\ ~row'.black => ~row'.under)
      BY <2>1, <2>2, RefreshedFacts
    <2>4. Judged'
      BY <2>3 DEF Judged
    <2> QED
      BY <1>1, <1>2, <2>3, <2>4, ForwardKeeps
  <1>4. CASE ~Watched(Current(w).t)
    <2>1. row' = row
      BY <1>4 DEF Refresh
    <2> QED
      BY <1>1, <1>2, <1>4, <2>1, QuietForward
  <1> QED
    BY <1>3, <1>4

LEMMA LassoRow ==
  ASSUME NEW w, KeepRow(w) \/ DropRow(w), Watched("var"), row \in Row
  PROVE  row' \in Row /\ row' # Absent /\ (row'.big /\ ~row'.black => ~row'.under)
  <1>1. CASE KeepRow(w)
    <2>1. PICK big \in BOOLEAN : row' = Refreshed([row EXCEPT !.big = big])
      BY <1>1 DEF KeepRow
    <2>2. [row EXCEPT !.big = big] \in Row
      BY DEF Row
    <2> QED
      BY <2>1, <2>2, RefreshedFacts
  <1>2. CASE DropRow(w)
    <2>1. row' = [row EXCEPT !.big = FALSE, !.black = TRUE, !.under = TRUE]
      BY <1>2 DEF DropRow
    <2>2. row' \in Row /\ row'.big = FALSE
      BY <2>1 DEF Row
    <2> QED
      BY <2>2, AbsentAssumption
  <1> QED
    BY <1>1, <1>2

LEMMA LassoInv ==
  ASSUME KernelsSound, IInv, NEW w \in Workers, KeepRow(w) \/ DropRow(w)
  PROVE  IInv'
  <1>1. /\ AtRow(w) /\ kernel' = kernel /\ table' = table /\ Current(w).do = "lasso"
    BY DEF KeepRow, DropRow, AtStep
  <1>2. Forward(w)
    BY AssignedForward, DropForward DEF KeepRow, IInv
  <1>3. CASE Watched("var") /\ kernel.kind = "kv"
    <2>1. Current(w).t = "var"
      BY <1>1, <1>3, RowPlace, SoundFacts DEF IInv
    <2>2. row \in Row
      BY <1>1, <1>3, <2>1, TouchedIsThere
    <2>3. row' \in Row /\ row' # Absent /\ (row'.big /\ ~row'.black => ~row'.under)
      BY <1>3, <2>2, LassoRow
    <2>4. Judged'
      BY <2>3 DEF Judged
    <2> QED
      BY <1>1, <1>2, <2>3, <2>4, ForwardKeeps
  <1>4. CASE Watched("var") /\ kernel.kind # "kv"
    <2>1. row \in Row
      BY <1>4 DEF IInv, ShapeOK
    <2>2. row' \in Row /\ row' # Absent
      BY <1>4, <2>1, LassoRow
    <2> QED
      BY <1>1, <1>2, <1>4, <2>2, ForwardKeeps
  <1>5. CASE ~Watched("var")
    <2>1. row' = row
      BY <1>5 DEF KeepRow, DropRow
    <2> QED
      BY <1>1, <1>2, <2>1, QuietForward
  <1> QED
    BY <1>3, <1>4, <1>5

LEMMA OtherForwardInv ==
  ASSUME KernelsSound, IInv, NEW w \in Workers, Name(w) \/ Use(w) \/ Skip(w) \/ InBounds(w)
  PROVE  IInv'
  <1>1. AtRow(w) /\ UNCHANGED <<kernel, table, row>>
    BY DEF Name, Use, Skip, InBounds, AtStep
  <1>2. Forward(w)
    BY NameForward, Advances DEF Use, Skip, InBounds, IInv
  <1>3. ~(Current(w).do \in {"find", "cover"} /\ Current(w).sure)
    BY DEF Name, Use, Skip, InBounds, AtStep
  <1> QED
    BY <1>1, <1>2, <1>3, QuietForward

-----------------------------------------------------------------------------
(* Steps that begin or end a row, or an op. *)

\* Workers that are in no row have found, touched and refreshed nothing.
LEMMA PlaceKeeps ==
  ASSUME KernelsSound, IInv, NEW w \in Workers, NEW at, NEW pc \in Nat \ {0},
         NEW mine \in BOOLEAN, NEW marks \in Seq(STRING), Goes(w, at, pc, mine, marks),
         UNCHANGED <<kernel, table, row, copy>>, listed => listed',
         at = "row" => pc = 1,
         WillRefresh(w) => Judged \/ kernel.kind # "kv",
         kernel.kind = "kv" /\ kernel.op \notin Exempt.chain /\ WillMark(w) =>
           WillMark(w)' \/ listed'
  PROVE  IInv'
  <1>1. ShapeOK /\ RowFound /\ ChangesMarked /\ FlagsRefreshed
    BY DEF IInv
  <1>2. ShapeOK'
    BY <1>1, GoesShape DEF ShapeOK
  <1>3. Steps' = Steps /\ \A t : Watched(t)' <=> Watched(t)
    BY DEF Steps, Watched, TableOf
  <1>4. /\ worker'[w].at = at /\ worker'[w].pc = pc
        /\ \A x \in Workers : x # w => worker'[x] = worker[x]
    BY DEF Goes
  <1>5. \A i \in DOMAIN Steps : i \in Nat /\ i >= 1
    BY <1>1, KernelFacts
  <1>6. RowFound'
    BY <1>1, <1>3, <1>4, <1>5 DEF RowFound
  <1>7. \A x \in Workers : x # w => /\ WillMark(x) => WillMark(x)'
                                    /\ WillRefresh(x) => WillRefresh(x)'
    BY <1>3, <1>4 DEF WillMark, WillRefresh
  <1>8. (Settled => Settled') /\ (Judged <=> Judged')
    BY DEF Settled, Judged
  <1>9. listed' => Settled'
    BY DEF Settled
  <1>10. ChangesMarked'
    BY <1>1, <1>7, <1>8, <1>9 DEF ChangesMarked
  <1>11. FlagsRefreshed'
    BY <1>1, <1>7, <1>8 DEF FlagsRefreshed
  <1> QED
    BY <1>2, <1>6, <1>10, <1>11 DEF IInv

LEMMA StartInv ==
  ASSUME KernelsSound, IInv, NEW w \in Workers, NEW bad, Start(w, bad)
  PROVE  IInv'
  <1>1. PICK n \in 1 .. MaxRows :
          worker' = [worker EXCEPT ![w] = [Idle EXCEPT !.at = "row", !.bad = bad, !.left = n]]
    BY DEF Start
  <1> DEFINE x == [Idle EXCEPT !.at = "row", !.bad = bad, !.left = n]
  <1>2. /\ DOMAIN x = Fields /\ x.at = "row" /\ x.pc = 1 /\ x.mine = FALSE /\ x.marks = <<>>
    BY DEF Idle, Fields
  <1>3. worker' = [worker EXCEPT ![w] = x]
    BY <1>1
  <1> HIDE DEF x
  <1>4. Goes(w, "row", 1, FALSE, <<>>)
    BY <1>2, <1>3, Replaced DEF IInv
  <1>5. UNCHANGED <<kernel, table, row, listed, copy>> /\ worker[w].at = "idle"
    BY DEF Start
  <1>6. ~WillMark(w) /\ ~WillRefresh(w)
    BY <1>5 DEF WillMark, WillRefresh
  <1> DEFINE none == <<>>
  <1>7. none \in Seq(STRING)
    OBVIOUS
  <1>8. Goes(w, "row", 1, FALSE, none)
    BY <1>4
  <1>9. 1 \in Nat \ {0} /\ FALSE \in BOOLEAN
    OBVIOUS
  <1> HIDE DEF none
  <1> QED
    BY <1>5, <1>6, <1>7, <1>8, <1>9, PlaceKeeps

\* The next row, or the marks.
LEMMA NextRowKeeps ==
  ASSUME KernelsSound, IInv, NEW w \in Workers, NEW x, worker' = [worker EXCEPT ![w] = NextRow(x)],
         DOMAIN x = Fields, x.at = "row", x.marks \in Seq(STRING), x.mine \in BOOLEAN,
         UNCHANGED <<kernel, table, row, listed, copy>>,
         ~WillRefresh(w), WillMark(w) => x.mine
  PROVE  IInv'
  <1> DEFINE y == NextRow(x)
  <1>1. /\ DOMAIN y = Fields /\ y.pc = 1 /\ y.mine = x.mine
        /\ \/ y.at = "row" /\ y.marks = x.marks
           \/ y.at = "marking" /\ y.marks = kernel.marks
    BY NextRowFacts
  <1> HIDE DEF y
  <1>2. Goes(w, y.at, 1, x.mine, y.marks)
    BY <1>1, Replaced DEF IInv, y
  <1>3. y.marks \in Seq(STRING)
    BY <1>1, KernelFacts DEF IInv
  <1>4. \A t : Watched(t)' <=> Watched(t)
    BY DEF Watched, TableOf
  <1>5. ASSUME kernel.kind = "kv", kernel.op \notin Exempt.chain, WillMark(w)
        PROVE  WillMark(w)'
    <2>1. worker'[w].at = y.at /\ worker'[w].mine = TRUE /\ worker'[w].marks = y.marks
      BY <1>2, <1>5 DEF Goes
    <2>2. CASE y.at = "row"
      BY <2>1, <2>2 DEF WillMark
    <2>3. CASE y.at = "marking" /\ y.marks = kernel.marks
      <3>1. \E i \in DOMAIN kernel.marks : Watched(kernel.marks[i])
        BY <1>5, SoundFacts DEF IInv
      <3> QED
        BY <1>4, <2>1, <2>3, <3>1 DEF WillMark
    <2> QED
      BY <1>1, <2>2, <2>3
  <1> QED
    BY <1>2, <1>3, <1>5, PlaceKeeps

LEMMA FilterInv ==
  ASSUME KernelsSound, IInv, NEW w \in Workers, Filter(w)
  PROVE  IInv'
  <1>1. /\ AtRow(w) /\ UNCHANGED <<kernel, table, row, listed, copy>>
        /\ Current(w).do = "find" /\ Current(w).t = "var"
        /\ worker' = [worker EXCEPT ![w] = NextRow(worker[w])]
    BY DEF Filter, AtStep
  <1>2. /\ DOMAIN worker[w] = Fields /\ worker[w].at = "row"
        /\ worker[w].marks \in Seq(STRING) /\ worker[w].mine \in BOOLEAN
    BY <1>1, WorkerFacts, RowPlace DEF IInv
  <1>3. kernel.kind = "kv" => worker[w].pc = 1
    BY <1>1, RowPlace, SoundFacts DEF IInv
  <1>4. CASE kernel.kind = "kv"
    <2>1. ~WillRefresh(w) /\ (WillMark(w) => worker[w].mine)
      BY <1>2, <1>3, <1>4 DEF WillRefresh, WillMark
    <2> QED
      BY <1>1, <1>2, <2>1, NextRowKeeps
  <1>5. CASE kernel.kind # "kv"
    <2> DEFINE y == NextRow(worker[w])
    <2>1. /\ DOMAIN y = Fields /\ y.pc = 1 /\ y.mine = worker[w].mine
          /\ \/ y.marks = worker[w].marks
             \/ y.marks = kernel.marks
      BY <1>2, NextRowFacts
    <2> HIDE DEF y
    <2>2. Goes(w, y.at, 1, worker[w].mine, y.marks)
      BY <1>1, <2>1, Replaced DEF IInv, y
    <2>3. y.marks \in Seq(STRING)
      BY <1>2, <2>1, KernelFacts DEF IInv
    <2> QED
      BY <1>1, <1>2, <1>5, <2>2, <2>3, PlaceKeeps
  <1> QED
    BY <1>4, <1>5

LEMMA EndRowInv ==
  ASSUME KernelsSound, IInv, NEW w \in Workers, EndRow(w)
  PROVE  IInv'
  <1> DEFINE x == [worker[w] EXCEPT !.mine = TRUE]
  <1>1. /\ worker[w].at = "row" /\ worker[w].pc > Len(Steps)
        /\ UNCHANGED <<kernel, table, row, listed, copy>>
        /\ worker' = [worker EXCEPT ![w] = NextRow(x)]
    BY DEF EndRow
  <1>2. DOMAIN worker[w] = Fields /\ worker[w].marks \in Seq(STRING) /\ worker[w].pc \in Nat
    BY WorkerFacts DEF IInv
  <1>3. /\ DOMAIN x = Fields /\ x.at = "row" /\ x.marks = worker[w].marks /\ x.mine = TRUE
    BY <1>1, <1>2 DEF Fields
  <1> HIDE DEF x
  <1>4. ~WillRefresh(w)
    BY <1>1, <1>2, KernelFacts DEF WillRefresh, IInv
  <1> QED
    BY <1>1, <1>2, <1>3, <1>4, NextRowKeeps

LEMMA MarkInv ==
  ASSUME KernelsSound, IInv, NEW w \in Workers, Mark(w)
  PROVE  IInv'
  <1> DEFINE x == [worker[w] EXCEPT !.marks = Tail(@)]
             s == worker[w].marks
  <1>1. /\ worker[w].at = "marking" /\ s # <<>>
        /\ UNCHANGED <<kernel, table, row, copy>>
        /\ listed' = (listed \/ (worker[w].mine /\ Watched(Head(s))))
        /\ worker' = [worker EXCEPT ![w].marks = Tail(@)]
    BY DEF Mark
  <1>2. /\ DOMAIN worker = Workers /\ DOMAIN worker[w] = Fields
        /\ s \in Seq(STRING) /\ worker[w].pc \in Nat \ {0} /\ worker[w].mine \in BOOLEAN
    BY WorkerFacts DEF IInv
  <1>3. worker' = [worker EXCEPT ![w] = x]
    BY <1>1, <1>2 DEF Fields
  <1>4. /\ DOMAIN x = Fields /\ x.at = "marking" /\ x.pc = worker[w].pc
        /\ x.mine = worker[w].mine /\ x.marks = Tail(s)
    BY <1>1, <1>2 DEF Fields
  <1> HIDE DEF x, s
  <1>5. Goes(w, "marking", worker[w].pc, worker[w].mine, Tail(s))
    BY <1>3, <1>4, Replaced DEF IInv
  <1>6. Tail(s) \in Seq(STRING)
    BY <1>1, <1>2
  <1>7. ~WillRefresh(w)
    BY <1>1 DEF WillRefresh
  <1>8. ASSUME WillMark(w)
        PROVE  WillMark(w)' \/ listed'
    <2>1. PICK i \in DOMAIN s : worker[w].mine /\ Watched(s[i])
      BY <1>1, <1>8 DEF WillMark, s
    <2>2. CASE i = 1
      <3>1. Head(s) = s[i]
        BY <1>1, <1>2, <2>2
      <3>2. Watched(Head(s))
        BY <2>1, <3>1
      <3> QED
        BY <1>1, <2>1, <3>2
    <2>3. CASE i # 1
      <3>1. i - 1 \in DOMAIN Tail(s) /\ Tail(s)[i - 1] = s[i]
        BY <1>1, <1>2, <2>3
      <3>2. Watched(Tail(s)[i - 1])
        BY <2>1, <3>1
      <3>3. worker'[w].at = "marking" /\ worker'[w].mine /\ worker'[w].marks = Tail(s)
        BY <1>5, <2>1 DEF Goes
      <3>4. /\ i - 1 \in DOMAIN worker'[w].marks
            /\ Watched(worker'[w].marks[i - 1])
        BY <3>1, <3>2, <3>3
      <3> QED
        BY <1>1, <3>3, <3>4 DEF WillMark, Watched, TableOf
    <2> QED
      BY <2>2, <2>3
  <1> QED
    BY <1>1, <1>2, <1>5, <1>6, <1>7, <1>8, PlaceKeeps

LEMMA StopInv ==
  ASSUME KernelsSound, IInv, NEW w \in Workers, Finish(w) \/ OutOfBounds(w)
  PROVE  IInv'
  <1>1. UNCHANGED <<kernel, table, row, listed, copy>>
    BY DEF Finish, OutOfBounds
  <1>2. CASE Finish(w)
    <2>1. /\ worker' = [worker EXCEPT ![w] = Idle]
          /\ worker[w].at = "failed" \/ (worker[w].at = "marking" /\ worker[w].marks = <<>>)
      BY <1>2 DEF Finish
    <2>2. /\ DOMAIN Idle = Fields /\ Idle.at = "idle" /\ Idle.pc = 1
          /\ Idle.mine = FALSE /\ Idle.marks = <<>>
      BY DEF Idle, Fields
    <2>3. Goes(w, "idle", 1, FALSE, <<>>)
      BY <2>1, <2>2, Replaced DEF IInv
    <2>4. ~WillMark(w) /\ ~WillRefresh(w)
      BY <2>1 DEF WillMark, WillRefresh
    <2> DEFINE none == <<>>
    <2>5. none \in Seq(STRING)
      OBVIOUS
    <2>6. Goes(w, "idle", 1, FALSE, none)
      BY <2>3
    <2>7. 1 \in Nat \ {0} /\ FALSE \in BOOLEAN
      OBVIOUS
    <2> HIDE DEF none
    <2> QED
      BY <1>1, <2>4, <2>5, <2>6, <2>7, PlaceKeeps
  <1>3. CASE OutOfBounds(w)
    <2> DEFINE x == [worker[w] EXCEPT !.at = "failed"]
    <2>1. /\ AtRow(w) /\ Current(w).do = "bound"
          /\ worker' = [worker EXCEPT ![w].at = "failed"]
      BY <1>3 DEF OutOfBounds, AtStep
    <2>2. kernel.kind # "kv"
      BY <2>1, RowPlace, SoundFacts DEF IInv
    <2>3. /\ DOMAIN worker = Workers /\ DOMAIN worker[w] = Fields
          /\ worker[w].marks \in Seq(STRING)
          /\ worker[w].pc \in Nat \ {0} /\ worker[w].mine \in BOOLEAN
      BY WorkerFacts DEF IInv
    <2>4. worker' = [worker EXCEPT ![w] = x]
      BY <2>1, <2>3 DEF Fields
    <2>5. /\ DOMAIN x = Fields /\ x.at = "failed" /\ x.pc = worker[w].pc
          /\ x.mine = worker[w].mine /\ x.marks = worker[w].marks
      BY <2>3 DEF Fields
    <2> HIDE DEF x
    <2>6. Goes(w, "failed", worker[w].pc, worker[w].mine, worker[w].marks)
      BY <2>4, <2>5, Replaced DEF IInv
    <2> QED
      BY <1>1, <2>2, <2>3, <2>6, PlaceKeeps
  <1> QED
    BY <1>2, <1>3

-----------------------------------------------------------------------------
(* Others at the table. *)

LEMMA OthersInv ==
  ASSUME KernelsSound, IInv, Gather \/ DeltaExport \/ FullExport
  PROVE  IInv'
  <1>1. ShapeOK /\ RowFound /\ ChangesMarked /\ FlagsRefreshed
    BY DEF IInv
  <1>2. UNCHANGED <<kernel, table, worker>>
    BY DEF Gather, DeltaExport, FullExport
  <1>3. /\ row' \in Row \cup {Absent}
        /\ row # Absent => row' # Absent
        /\ Judged => Judged'
        /\ Settled => Settled'
    <2>1. CASE Gather
      <3>1. row' \in Row /\ row' # Absent /\ (row'.big /\ ~row'.black => ~row'.under)
        <4>1. CASE row = Absent
          <5>1. PICK big \in BOOLEAN : \E rare \in BOOLEAN : row' = NewRow(big, rare)
            BY <2>1, <4>1 DEF Gather
          <5>2. row' \in Row /\ row' # Absent /\ row'.under = ~row'.big
            BY <5>1, NewRowFacts
          <5> QED
            BY <5>2
        <4>2. CASE row # Absent
          <5>1. row \in Row
            BY <1>1, <4>2 DEF ShapeOK
          <5>2. PICK rare \in {FALSE, row.rare} : row' = Refreshed([row EXCEPT !.rare = rare])
            BY <2>1, <4>2 DEF Gather
          <5>3. rare \in BOOLEAN
            BY <5>1 DEF Row
          <5>4. [row EXCEPT !.rare = rare] \in Row
            BY <5>1, <5>3 DEF Row
          <5> QED
            BY <5>2, <5>4, RefreshedFacts
        <4> QED
          BY <4>1, <4>2
      <3>2. listed' = TRUE
        BY <2>1 DEF Gather
      <3> QED
        BY <3>1, <3>2 DEF Judged, Settled
    <2>2. CASE DeltaExport
      <3>1. row' = row /\ copy' = IF listed /\ row # Absent /\ ~row.rare THEN "same" ELSE copy
        BY <2>2 DEF DeltaExport
      <3> QED
        BY <1>1, <3>1 DEF Judged, Settled, ShapeOK
    <2>3. CASE FullExport
      <3>1. /\ row' = row
            /\ copy' = IF row.black \/ ~(row.under \/ row.rare) THEN "same" ELSE "none"
        BY <2>3 DEF FullExport
      <3> QED
        BY <1>1, <3>1 DEF Judged, Settled, ShapeOK
    <2> QED
      BY <2>1, <2>2, <2>3
  <1>4. ShapeOK'
    BY <1>1, <1>2, <1>3 DEF ShapeOK
  <1>5. Steps' = Steps /\ \A t : Watched(t)' <=> Watched(t)
    BY <1>2 DEF Steps, Watched, TableOf
  <1>6. RowFound'
    BY <1>1, <1>2, <1>3, <1>5 DEF RowFound
  <1>7. \A w \in Workers : (WillMark(w)' <=> WillMark(w)) /\ (WillRefresh(w)' <=> WillRefresh(w))
    BY <1>2, <1>5 DEF WillMark, WillRefresh
  <1>8. ChangesMarked' /\ FlagsRefreshed'
    BY <1>1, <1>2, <1>3, <1>7 DEF ChangesMarked, FlagsRefreshed
  <1> QED
    BY <1>4, <1>6, <1>8 DEF IInv

-----------------------------------------------------------------------------
LEMMA InitHolds ==
  ASSUME Init
  PROVE  IInv
  <1> DEFINE none == <<>>
  <1>1. \A w \in Workers : worker[w] = Idle
    BY DEF Init
  <1>2. /\ DOMAIN Idle = Fields /\ Idle.at = "idle" /\ Idle.pc = 1
        /\ Idle.mine = FALSE /\ Idle.marks = none
    BY DEF Idle, Fields
  <1>3. none \in Seq(STRING)
    OBVIOUS
  <1> HIDE DEF none
  <1>4. row \in Row \cup {Absent} /\ (kernel.kind = "kv" => row = Absent)
        /\ (kernel.kind # "kv" => row # Absent)
    BY NewRowFacts DEF Init
  <1>5. ShapeOK
    <2>1. kernel \in Kernels /\ table \in Names(kernel.tables) /\ DOMAIN worker = Workers
      BY DEF Init
    <2>2. 1 \in Nat \ {0} /\ FALSE \in BOOLEAN
      OBVIOUS
    <2>3. \A w \in Workers : /\ DOMAIN worker[w] = Fields
                             /\ worker[w].pc \in Nat \ {0} /\ worker[w].mine \in BOOLEAN
                             /\ worker[w].marks \in Seq(STRING)
      BY <1>1, <1>2, <1>3, <2>2
    <2> QED
      BY <1>4, <2>1, <2>3 DEF ShapeOK
  <1>6. RowFound
    BY <1>1, <1>2 DEF RowFound
  <1>7. ChangesMarked /\ FlagsRefreshed
    BY <1>4 DEF ChangesMarked, FlagsRefreshed, Settled, Judged
  <1> QED
    BY <1>5, <1>6, <1>7 DEF IInv

LEMMA StepKeepsInvariant ==
  ASSUME KernelsSound, IInv, [Next]_vars
  PROVE  IInv'
  <1>1. ASSUME NEW w \in Workers, RowStep(w)
        PROVE  IInv'
    <2>1. CASE FindVar(w) \/ FindSlot(w)
      BY <2>1, FindInv
    <2>2. CASE Filter(w)
      BY <2>2, FilterInv
    <2>3. CASE Assign(w)
      BY <2>3, AssignInv
    <2>4. CASE Refresh(w)
      BY <2>4, RefreshInv
    <2>5. CASE KeepRow(w) \/ DropRow(w)
      BY <2>5, LassoInv
    <2>6. CASE Name(w) \/ Use(w) \/ Skip(w) \/ InBounds(w)
      BY <2>6, OtherForwardInv
    <2>7. CASE OutOfBounds(w)
      BY <2>7, StopInv
    <2>8. CASE EndRow(w)
      BY <2>8, EndRowInv
    <2> QED
      BY <1>1, <2>1, <2>2, <2>3, <2>4, <2>5, <2>6, <2>7, <2>8 DEF RowStep
  <1>2. ASSUME NEW w \in Workers, WorkerStep(w)
        PROVE  IInv'
    BY <1>1, <1>2, StartInv, MarkInv, StopInv DEF WorkerStep
  <1>3. CASE Gather \/ DeltaExport \/ FullExport
    BY <1>3, OthersInv
  <1>4. CASE UNCHANGED vars
    <2>1. UNCHANGED <<kernel, table, row, listed, copy, worker>>
      BY <1>4 DEF vars
    <2> QED
      BY <2>1 DEF IInv, ShapeOK, RowFound, ChangesMarked, FlagsRefreshed, Settled, Judged,
         WillMark, WillRefresh, Steps, Watched, TableOf
  <1> QED
    BY <1>2, <1>3, <1>4 DEF Next

LEMMA InvariantHolds ==
  ASSUME KernelsSound
  PROVE  Spec => []IInv
  <1>1. Init => IInv
    BY InitHolds
  <1>2. IInv /\ [Next]_vars => IInv'
    BY StepKeepsInvariant
  <1> QED
    BY <1>1, <1>2, PTL DEF Spec

LEMMA QuietFacts ==
  ASSUME Quiet, NEW w \in Workers
  PROVE  ~WillMark(w) /\ ~WillRefresh(w)
  BY DEF Quiet, Running, WillMark, WillRefresh

\* Between ops the reader of the exports lacks only what is listed for the next
\* delta, what was too rare and what was under the cut-off: with any number of
\* shards and rows, exports between and during ops, and any class that marks
\* all of its tables.
THEOREM ChangesReachTheReader ==
  ASSUME KernelsSound
  PROVE  Spec => []ChainFaithful
  <1>1. IInv => ChainFaithful
    BY QuietFacts DEF IInv, ChangesMarked, Settled, ChainFaithful
  <1>2. Spec => []IInv
    BY InvariantHolds
  <1> QED
    BY <1>1, <1>2, PTL

\* Between ops a row that some value of is not smaller than the cut-off is not
\* marked as under it, whichever shard's write came last, for every class and
\* table where a refresh follows every write.
THEOREM LargeRowsAreExported ==
  ASSUME KernelsSound
  PROVE  Spec => []CutoffDropsOnlySmall
  <1>1. IInv => CutoffDropsOnlySmall
    BY QuietFacts DEF IInv, FlagsRefreshed, Judged, CutoffDropsOnlySmall
  <1>2. Spec => []IInv
    BY InvariantHolds
  <1> QED
    BY <1>1, <1>2, PTL

-----------------------------------------------------------------------------
(* What a worker knows of its row, by the text of the kernel it runs.      *)

\* Chains of names have come to their end.
Complete(k) == WithChains(StandsFor(k)) = StandsFor(k)

WorkerTyped(k, x) ==
  /\ x.at \in Places
  /\ x.bad \in BadArguments(k) \cup {None}
  /\ x.left \in 0 .. MaxRows
  /\ x.pc \in 1 .. Len(k.steps) + 1
  /\ x.mine \in BOOLEAN /\ x.freed \in BOOLEAN
  /\ x.spoiled \subseteq {p[1] : p \in x.reads}

\* Only names that were given stand for a row, and only for those the text says.
ReadsAsWritten(k, x) ==
  \A p \in x.reads :
    /\ Complete(k) => p \in StandsFor(k)
    /\ \E h \in NamedFrom(k) : h < x.pc /\ k.steps[h].t = p[1]

\* A name is spoiled by an assignment that came after it.
SpoiledLater(k, x) ==
  Complete(k) => \A n \in x.spoiled :
    \E h \in NamedFrom(k) : \E i \in DOMAIN k.steps :
      /\ h < i /\ i < x.pc /\ k.steps[h].t = n
      /\ Changes(k.steps[i]) /\ <<n, k.steps[i].t>> \in StandsFor(k)

WroteBefore(k, x) ==
  \A t \in x.wrote : \E i \in DOMAIN k.steps :
    i < x.pc /\ Changes(k.steps[i]) /\ k.steps[i].t = t

FreedBefore(k, x) ==
  x.freed => \E i \in DOMAIN k.steps : i < x.pc /\ k.steps[i].do = "lasso"

FailedAtBound(k, x) ==
  x.at = "failed" => x.pc \in DOMAIN k.steps /\ k.steps[x.pc].do = "bound"

WorkerOK(k, x) ==
  /\ WorkerTyped(k, x)
  /\ ReadsAsWritten(k, x) /\ SpoiledLater(k, x)
  /\ WroteBefore(k, x) /\ FreedBefore(k, x) /\ FailedAtBound(k, x)
  /\ x.bad # None => ~Rejects(k, x.bad)

\* A worker that has done nothing of a row.
Blank(x) ==
  /\ x.at \in {"idle", "row", "marking"} /\ x.pc = 1
  /\ x.reads = {} /\ x.spoiled = {} /\ x.wrote = {} /\ x.freed = FALSE

\* What a step forward in a row may do to a worker.
StepsOn(x, y) ==
  y.at = x.at /\ y.pc = x.pc + 1 /\ y.bad \in {x.bad, None} /\ y.left = x.left /\ y.mine = x.mine

ReadsMore(k, x, y) ==
  /\ x.reads \subseteq y.reads
  /\ \A p \in y.reads :
       \/ p \in x.reads
       \/ /\ x.pc \in NamedFrom(k) /\ p[1] = k.steps[x.pc].t
          /\ Complete(k) => p \in StandsFor(k)

SpoilsMore(k, x, y) ==
  \A n \in y.spoiled :
    \/ n \in x.spoiled
    \/ Changes(k.steps[x.pc]) /\ \E p \in x.reads : p[1] = n /\ p[2] = k.steps[x.pc].t

WritesMore(k, x, y) ==
  \A t \in y.wrote : t \in x.wrote \/ (Changes(k.steps[x.pc]) /\ t = k.steps[x.pc].t)

FreesMore(k, x, y) ==
  y.freed \in BOOLEAN /\ (y.freed => x.freed \/ k.steps[x.pc].do = "lasso")

\* The inductive invariant of what is about the text alone.
TextInv ==
  /\ ShapeOK
  /\ listed \in BOOLEAN /\ copy \in {"same", "old", "none"}
  /\ \A w \in Workers : WorkerOK(kernel, worker[w])

-----------------------------------------------------------------------------
LEMMA ChainFacts ==
  ASSUME NEW k
  PROVE  /\ Uses(k) \subseteq StandsFor(k)
         /\ \A p \in StandsFor(k) : p = <<p[1], p[2]>>
         /\ Complete(k) => \A n, m, r : <<n, m>> \in StandsFor(k) /\ <<m, r>> \in StandsFor(k)
                                          => <<n, r>> \in StandsFor(k)
  <1>1. \A R : R \subseteq WithChains(R)
    BY DEF WithChains
  <1>2. ASSUME NEW R, \A p \in R : p = <<p[1], p[2]>>
        PROVE  \A p \in WithChains(R) : p = <<p[1], p[2]>>
    BY <1>2 DEF WithChains
  <1>3. \A p \in Uses(k) : p = <<p[1], p[2]>>
    BY DEF Uses
  <1>4. ASSUME NEW R, WithChains(R) = R, NEW n, NEW m, NEW r, <<n, m>> \in R, <<m, r>> \in R
        PROVE  <<n, r>> \in R
    <2> DEFINE c == << <<n, m>>, <<m, r>> >>
    <2>1. c \in R \X R /\ c[1][2] = c[2][1] /\ <<c[1][1], c[2][2]>> = <<n, r>>
      BY <1>4
    <2> HIDE DEF c
    <2>2. <<n, r>> \in WithChains(R)
      BY <2>1 DEF WithChains
    <2> QED
      BY <1>4, <2>2
  <1>5. Uses(k) \subseteq StandsFor(k)
    BY <1>1 DEF StandsFor
  <1>6. \A p \in StandsFor(k) : p = <<p[1], p[2]>>
    BY <1>2, <1>3 DEF StandsFor
  <1> QED
    BY <1>4, <1>5, <1>6 DEF Complete

LEMMA FreshIsOK ==
  ASSUME NEW k \in Kernels, NEW x, Blank(x), x.mine \in BOOLEAN,
         x.left \in 0 .. MaxRows, x.bad \in BadArguments(k) \cup {None},
         x.bad # None => ~Rejects(k, x.bad)
  PROVE  WorkerOK(k, x)
  <1>1. Len(k.steps) \in Nat
    BY KernelsAssumption
  <1> USE DEF Blank
  <1>2. x.pc \in 1 .. Len(k.steps) + 1 /\ x.at \in Places
    BY <1>1 DEF Places
  <1>3. x.freed \in BOOLEAN /\ x.spoiled \subseteq {p[1] : p \in x.reads}
    OBVIOUS
  <1>4. WorkerTyped(k, x)
    BY <1>2, <1>3 DEF WorkerTyped
  <1> QED
    BY <1>4 DEF WorkerOK, ReadsAsWritten, SpoiledLater, WroteBefore, FreedBefore, FailedAtBound

\* One step forward in a row.
LEMMA ForwardIsOK ==
  ASSUME NEW k \in Kernels, NEW x, NEW y, WorkerOK(k, x),
         x.at = "row", x.pc \in DOMAIN k.steps, StepsOn(x, y),
         ReadsMore(k, x, y), SpoilsMore(k, x, y), WritesMore(k, x, y), FreesMore(k, x, y)
  PROVE  WorkerOK(k, y)
  <1> USE DEF StepsOn, ReadsMore, SpoilsMore, WritesMore, FreesMore
  <1>1. Len(k.steps) \in Nat /\ DOMAIN k.steps = 1 .. Len(k.steps)
    BY KernelsAssumption
  <1>2. x.pc \in Nat /\ y.pc \in 1 .. Len(k.steps) + 1 /\ x.pc < y.pc
        /\ \A h \in Int : h < x.pc => h < y.pc
    BY <1>1
  <1>3. NamedFrom(k) \subseteq DOMAIN k.steps /\ DOMAIN k.steps \subseteq Int
    BY <1>1 DEF NamedFrom
  <1>4. WorkerTyped(k, y)
    <2>1. y.spoiled \subseteq {p[1] : p \in y.reads}
      <3>1. x.spoiled \subseteq {p[1] : p \in x.reads}
        BY DEF WorkerOK, WorkerTyped
      <3> QED
        BY <3>1
    <2> QED
      BY <1>2, <2>1 DEF WorkerOK, WorkerTyped
  <1>5. ReadsAsWritten(k, y)
    BY <1>2, <1>3 DEF WorkerOK, ReadsAsWritten
  <1>6. SpoiledLater(k, y)
    <2> SUFFICES ASSUME Complete(k), NEW n \in y.spoiled
                 PROVE  \E h \in NamedFrom(k) : \E i \in DOMAIN k.steps :
                          /\ h < i /\ i < y.pc /\ k.steps[h].t = n
                          /\ Changes(k.steps[i]) /\ <<n, k.steps[i].t>> \in StandsFor(k)
      BY DEF SpoiledLater
    <2>1. CASE n \in x.spoiled
      BY <1>2, <1>3, <2>1 DEF WorkerOK, SpoiledLater
    <2>2. CASE n \notin x.spoiled
      <3>1. PICK p \in x.reads : p[1] = n /\ p[2] = k.steps[x.pc].t
        BY <2>2
      <3>2. p \in StandsFor(k) /\ \E h \in NamedFrom(k) : h < x.pc /\ k.steps[h].t = n
        BY <3>1 DEF WorkerOK, ReadsAsWritten
      <3>3. p = <<p[1], p[2]>>
        BY <3>2, ChainFacts
      <3>4. <<n, k.steps[x.pc].t>> \in StandsFor(k)
        BY <3>1, <3>2, <3>3
      <3> QED
        BY <1>2, <2>2, <3>2, <3>4
    <2> QED
      BY <2>1, <2>2
  <1>7. WroteBefore(k, y)
    BY <1>2, <1>3 DEF WorkerOK, WroteBefore
  <1>8. FreedBefore(k, y)
    BY <1>2, <1>3 DEF WorkerOK, FreedBefore
  <1> QED
    BY <1>4, <1>5, <1>6, <1>7, <1>8 DEF WorkerOK, FailedAtBound

-----------------------------------------------------------------------------
(* The steps.                                                              *)

LEMMA WorkerHas ==
  ASSUME TextInv, NEW w \in Workers
  PROVE  /\ kernel \in Kernels /\ WorkerOK(kernel, worker[w])
         /\ DOMAIN worker = Workers /\ DOMAIN worker[w] = Fields
         /\ Steps = kernel.steps
  BY DEF TextInv, ShapeOK, Steps

\* A step of one worker that leaves it as the text allows.
LEMMA WorkerKeeps ==
  ASSUME TextInv, ShapeOK', NEW w \in Workers, UNCHANGED kernel, NEW x,
         worker' = [worker EXCEPT ![w] = x], WorkerOK(kernel, x),
         listed' \in BOOLEAN, copy' \in {"same", "old", "none"}
  PROVE  TextInv'
  <1>1. worker'[w] = x /\ \A v \in Workers : v # w => worker'[v] = worker[v]
    BY WorkerHas
  <1>2. \A v \in Workers : WorkerOK(kernel, worker'[v])
    BY <1>1 DEF TextInv
  <1>3. \A v \in Workers : WorkerOK(kernel', worker'[v])
    BY <1>2
  <1> QED
    BY <1>3 DEF TextInv

LEMMA TouchedIsCopy ==
  ASSUME TextInv
  PROVE  Touched \in {"same", "old", "none"}
  BY DEF TextInv, Touched

LEMMA AdvanceText ==
  ASSUME TextInv, ShapeOK', NEW w \in Workers, AtRow(w), Advance(w),
         UNCHANGED <<kernel, listed>>, copy' \in {"same", "old", "none"}
  PROVE  TextInv'
  <1> DEFINE x == [worker[w] EXCEPT !.pc = @ + 1, !.bad = None]
  <1>1. /\ kernel \in Kernels /\ WorkerOK(kernel, worker[w])
        /\ DOMAIN worker = Workers /\ DOMAIN worker[w] = Fields
    BY WorkerHas
  <1>2. worker' = [worker EXCEPT ![w] = x]
    BY <1>1 DEF Advance
  <1>3. /\ x.at = worker[w].at /\ x.pc = worker[w].pc + 1 /\ x.bad = None
        /\ x.left = worker[w].left /\ x.mine = worker[w].mine /\ x.reads = worker[w].reads
        /\ x.spoiled = worker[w].spoiled /\ x.wrote = worker[w].wrote
        /\ x.freed = worker[w].freed
    BY <1>1 DEF Fields
  <1>4. worker[w].at = "row" /\ worker[w].pc \in DOMAIN kernel.steps
        /\ worker[w].freed \in BOOLEAN
    BY <1>1, RowPlace DEF TextInv, Steps, WorkerOK, WorkerTyped
  <1> HIDE DEF x
  <1>5. StepsOn(worker[w], x)
    BY <1>3, Zenon DEF StepsOn
  <1>6. /\ ReadsMore(kernel, worker[w], x) /\ SpoilsMore(kernel, worker[w], x)
        /\ WritesMore(kernel, worker[w], x)
    BY <1>3, Zenon DEF ReadsMore, SpoilsMore, WritesMore
  <1>7. FreesMore(kernel, worker[w], x)
    BY <1>3, <1>4, Zenon DEF FreesMore
  <1>8. WorkerOK(kernel, x)
    BY <1>1, <1>4, <1>5, <1>6, <1>7, ForwardIsOK
  <1> QED
    BY <1>2, <1>8, WorkerKeeps DEF TextInv

LEMMA NameText ==
  ASSUME TextInv, ShapeOK', NEW w \in Workers, Name(w)
  PROVE  TextInv'
  <1> DEFINE s == Current(w)
             u == {<<s.t, r>> : r \in RowsRead(w, s.reads)}
             x == [worker[w] EXCEPT !.pc = @ + 1, !.reads = @ \cup u]
  <1>1. /\ kernel \in Kernels /\ WorkerOK(kernel, worker[w])
        /\ DOMAIN worker = Workers /\ DOMAIN worker[w] = Fields
    BY WorkerHas
  <1>2. /\ worker' = [worker EXCEPT ![w].pc = @ + 1, ![w].reads = @ \cup u]
        /\ UNCHANGED <<kernel, table, row, listed, copy>>
        /\ AtRow(w) /\ s.do = "let"
    BY DEF Name, AtStep
  <1>3. worker[w].at = "row" /\ worker[w].pc \in DOMAIN kernel.steps
        /\ worker[w].freed \in BOOLEAN /\ s = kernel.steps[worker[w].pc]
    BY <1>1, <1>2, RowPlace DEF TextInv, Steps, WorkerOK, WorkerTyped
  <1>4. worker[w].pc \in NamedFrom(kernel)
    BY <1>2, <1>3 DEF NamedFrom
  <1>5. \A p \in u : p[1] = s.t
    OBVIOUS
  <1>6. ASSUME Complete(kernel), NEW p \in u
        PROVE  p \in StandsFor(kernel)
    <2>1. PICK r \in RowsRead(w, s.reads) : p = <<s.t, r>>
      OBVIOUS
    <2>2. \A n \in s.reads : <<s.t, n>> \in StandsFor(kernel)
      <3>1. \A n \in s.reads : <<s.t, n>> \in Uses(kernel)
        BY <1>3, <1>4 DEF Uses
      <3> QED
        BY <3>1, ChainFacts
    <2>3. CASE r \in s.reads
      BY <2>1, <2>2, <2>3
    <2>4. CASE r \in Through(w, s.reads)
      <3>1. PICK q \in worker[w].reads : q[1] \in s.reads /\ q[2] = r
        BY <2>4 DEF Through
      <3>2. q \in StandsFor(kernel)
        BY <1>1, <1>6 DEF WorkerOK, ReadsAsWritten
      <3>3. q = <<q[1], q[2]>>
        BY <3>2, ChainFacts
      <3>4. <<q[1], r>> \in StandsFor(kernel)
        BY <3>1, <3>2, <3>3
      <3> QED
        <4>1. <<s.t, q[1]>> \in StandsFor(kernel)
          BY <2>2, <3>1
        <4>2. <<s.t, r>> \in StandsFor(kernel)
          BY <1>6, <3>4, <4>1, ChainFacts
        <4> QED
          BY <2>1, <4>2
    <2> QED
      BY <2>3, <2>4 DEF RowsRead
  <1> HIDE DEF u
  <1>7. worker' = [worker EXCEPT ![w] = x]
    BY <1>1, <1>2 DEF Fields
  <1>8. /\ x.at = worker[w].at /\ x.pc = worker[w].pc + 1 /\ x.bad = worker[w].bad
        /\ x.left = worker[w].left /\ x.mine = worker[w].mine
        /\ x.reads = worker[w].reads \cup u
        /\ x.spoiled = worker[w].spoiled /\ x.wrote = worker[w].wrote
        /\ x.freed = worker[w].freed
    BY <1>1 DEF Fields
  <1> HIDE DEF x
  <1>9. WorkerOK(kernel, x)
    <2>1. ReadsMore(kernel, worker[w], x)
      BY <1>3, <1>4, <1>5, <1>6, <1>8 DEF ReadsMore
    <2> HIDE DEF s
    <2>2. StepsOn(worker[w], x)
      BY <1>8, Zenon DEF StepsOn
    <2>3. SpoilsMore(kernel, worker[w], x) /\ WritesMore(kernel, worker[w], x)
      BY <1>8, Zenon DEF SpoilsMore, WritesMore
    <2>4. FreesMore(kernel, worker[w], x)
      BY <1>3, <1>8, Zenon DEF FreesMore
    <2> QED
      BY <1>1, <1>3, <2>1, <2>2, <2>3, <2>4, ForwardIsOK
  <1> QED
    BY <1>2, <1>7, <1>9, WorkerKeeps DEF TextInv

\* An assignment to a row.
LEMMA AssignedText ==
  ASSUME TextInv, ShapeOK', NEW w \in Workers, AtRow(w), NEW t,
         Changes(Current(w)), t = Current(w).t,
         worker' = [worker EXCEPT ![w] = Assigned(@, t)],
         UNCHANGED <<kernel, listed>>, copy' \in {"same", "old", "none"}
  PROVE  TextInv'
  <1> DEFINE v == worker[w]
             x == Assigned(v, t)
  <1>1. /\ kernel \in Kernels /\ WorkerOK(kernel, v)
        /\ DOMAIN worker = Workers /\ DOMAIN v = Fields
    BY WorkerHas
  <1>2. worker' = [worker EXCEPT ![w] = x]
    BY <1>1
  <1>3. v.at = "row" /\ v.pc \in DOMAIN kernel.steps
        /\ v.freed \in BOOLEAN /\ Current(w) = kernel.steps[v.pc]
    BY <1>1, RowPlace DEF TextInv, Steps, WorkerOK, WorkerTyped
  <1> HIDE DEF v
  <1>4. /\ x.at = v.at /\ x.pc = v.pc + 1 /\ x.bad = v.bad
        /\ x.left = v.left /\ x.mine = v.mine /\ x.reads = v.reads
        /\ x.spoiled = v.spoiled \cup {p[1] : p \in {q \in v.reads : q[2] = t}}
        /\ x.wrote = v.wrote \cup {t} /\ x.freed = v.freed
    BY <1>1 DEF Fields, Assigned
  <1> HIDE DEF x
  <1>5. WorkerOK(kernel, x)
    <2>1. SpoilsMore(kernel, v, x)
      <3>1. ASSUME NEW n \in x.spoiled, n \notin v.spoiled
            PROVE  \E p \in v.reads : p[1] = n /\ p[2] = t
        BY <1>4, <3>1
      <3> QED
        BY <1>3, <3>1 DEF SpoilsMore
    <2>2. WritesMore(kernel, v, x)
      BY <1>3, <1>4 DEF WritesMore
    <2>3. StepsOn(v, x) /\ ReadsMore(kernel, v, x)
      <3>1. StepsOn(v, x)
        BY <1>4, Zenon DEF StepsOn
      <3> QED
        BY <1>4, <3>1 DEF ReadsMore
    <2>4. FreesMore(kernel, v, x)
      BY <1>3, <1>4, Zenon DEF FreesMore
    <2> QED
      BY <1>1, <1>3, <2>1, <2>2, <2>3, <2>4, ForwardIsOK
  <1> QED
    BY <1>2, <1>5, WorkerKeeps DEF TextInv

LEMMA DropText ==
  ASSUME TextInv, ShapeOK', NEW w \in Workers, DropRow(w)
  PROVE  TextInv'
  <1> DEFINE v == worker[w]
             x == [v EXCEPT !.pc = @ + 1, !.freed = TRUE]
  <1>1. /\ kernel \in Kernels /\ WorkerOK(kernel, v)
        /\ DOMAIN worker = Workers /\ DOMAIN v = Fields
    BY WorkerHas
  <1>2. /\ AtRow(w) /\ Current(w).do = "lasso" /\ UNCHANGED <<kernel, table, listed>>
        /\ worker' = [worker EXCEPT ![w].pc = @ + 1, ![w].freed = TRUE]
        /\ copy' \in {copy, Touched}
    BY DEF DropRow, AtStep
  <1>3. v.at = "row" /\ v.pc \in DOMAIN kernel.steps
        /\ Current(w) = kernel.steps[v.pc]
    BY <1>1, <1>2, RowPlace DEF TextInv, Steps
  <1>4. worker' = [worker EXCEPT ![w] = x]
    BY <1>1, <1>2 DEF Fields
  <1> HIDE DEF v
  <1>5. /\ x.at = v.at /\ x.pc = v.pc + 1 /\ x.bad = v.bad
        /\ x.left = v.left /\ x.mine = v.mine /\ x.reads = v.reads
        /\ x.spoiled = v.spoiled /\ x.wrote = v.wrote /\ x.freed \in BOOLEAN
    BY <1>1 DEF Fields
  <1> HIDE DEF x
  <1>6. WorkerOK(kernel, x)
    <2>1. StepsOn(v, x)
      BY <1>5, Zenon DEF StepsOn
    <2>2. ReadsMore(kernel, v, x) /\ SpoilsMore(kernel, v, x) /\ WritesMore(kernel, v, x)
      BY <1>5, Zenon DEF ReadsMore, SpoilsMore, WritesMore
    <2>3. FreesMore(kernel, v, x)
      BY <1>2, <1>3, <1>5 DEF FreesMore
    <2> QED
      BY <1>1, <1>3, <2>1, <2>2, <2>3, ForwardIsOK
  <1> QED
    BY <1>2, <1>4, <1>6, WorkerKeeps, TouchedIsCopy DEF TextInv

\* The row is done, or filtered.
LEMMA NextRowText ==
  ASSUME TextInv, ShapeOK', NEW w \in Workers, NEW z, DOMAIN z = Fields,
         z.at = "row", z.bad = worker[w].bad, z.left = worker[w].left, z.mine \in BOOLEAN,
         worker' = [worker EXCEPT ![w] = NextRow(z)], UNCHANGED <<kernel, listed, copy>>
  PROVE  TextInv'
  <1> DEFINE v == worker[w]
             m == z.mine
             f == FreshRow(z)
             y == NextRow(z)
  <1>1. kernel \in Kernels /\ WorkerOK(kernel, v)
    BY WorkerHas
  <1>2. worker' = [worker EXCEPT ![w] = y]
    OBVIOUS
  <1>3. v.bad \in BadArguments(kernel) \cup {None}
        /\ (v.bad # None => ~Rejects(kernel, v.bad)) /\ v.left \in 0 .. MaxRows
    BY <1>1 DEF WorkerOK, WorkerTyped
  <1>4. /\ DOMAIN z = Fields /\ z.at = "row" /\ z.bad = v.bad /\ z.left = v.left /\ z.mine = m
        /\ m \in BOOLEAN
    OBVIOUS
  <1> HIDE DEF v, m
  <1>5. /\ DOMAIN f = Fields /\ f.at = z.at /\ f.bad = z.bad /\ f.left = z.left /\ f.mine = m
        /\ f.pc = 1 /\ f.reads = {} /\ f.spoiled = {} /\ f.wrote = {} /\ f.freed = FALSE
    BY <1>4 DEF FreshRow, Fields
  <1>6. y = IF z.left > 1 THEN [f EXCEPT !.left = @ - 1]
            ELSE [f EXCEPT !.left = 0, !.at = "marking", !.marks = kernel.marks]
    BY DEF NextRow
  <1> HIDE DEF f, y
  <1>7. /\ y.at \in {"row", "marking"} /\ y.pc = 1 /\ y.reads = {} /\ y.spoiled = {}
        /\ y.wrote = {} /\ y.freed = FALSE /\ y.mine = m /\ y.bad = v.bad
        /\ y.left \in 0 .. MaxRows
    <2>1. CASE z.left > 1
      <3> DEFINE e == [f EXCEPT !.left = @ - 1]
      <3>1. y = e
        BY <1>6, <2>1
      <3>2. /\ e.at = f.at /\ e.pc = 1 /\ e.reads = {} /\ e.spoiled = {} /\ e.wrote = {}
            /\ e.freed = FALSE /\ e.mine = m /\ e.bad = f.bad /\ e.left = f.left - 1
        BY <1>5 DEF Fields
      <3> HIDE DEF e
      <3>3. f.left - 1 \in 0 .. MaxRows
        BY <1>3, <1>4, <1>5, <2>1, MaxRowsAssumption
      <3> QED
        BY <1>3, <1>4, <1>5, <3>1, <3>2, <3>3
    <2>2. CASE ~(z.left > 1)
      <3> DEFINE e == [f EXCEPT !.left = 0, !.at = "marking", !.marks = kernel.marks]
      <3>1. y = e
        BY <1>6, <2>2
      <3>2. /\ e.at = "marking" /\ e.pc = 1 /\ e.reads = {} /\ e.spoiled = {} /\ e.wrote = {}
            /\ e.freed = FALSE /\ e.mine = m /\ e.bad = f.bad /\ e.left = 0
        BY <1>5 DEF Fields
      <3> HIDE DEF e
      <3>3. 0 \in 0 .. MaxRows
        BY MaxRowsAssumption
      <3> QED
        BY <1>4, <1>5, <3>1, <3>2, <3>3
    <2> QED
      BY <2>1, <2>2
  <1>8. WorkerOK(kernel, y)
    <2>1. Blank(y)
      BY <1>7, Zenon DEF Blank
    <2>2. y.mine \in BOOLEAN /\ y.bad \in BadArguments(kernel) \cup {None}
      BY <1>3, <1>4, <1>7
    <2>3. y.bad # None => ~Rejects(kernel, y.bad)
      BY <1>3, <1>7
    <2> QED
      BY <1>1, <1>7, <2>1, <2>2, <2>3, FreshIsOK
  <1> QED
    BY <1>2, <1>8, WorkerKeeps DEF TextInv

LEMMA EndText ==
  ASSUME TextInv, ShapeOK', NEW w \in Workers, EndRow(w) \/ Filter(w)
  PROVE  TextInv'
  <1>1. DOMAIN worker[w] = Fields /\ WorkerOK(kernel, worker[w]) /\ DOMAIN worker = Workers
    BY WorkerHas
  <1>2. worker[w].at = "row" /\ UNCHANGED <<kernel, listed, copy>>
    BY DEF EndRow, Filter, AtStep, AtRow
  <1>3. CASE Filter(w)
    <2>1. worker' = [worker EXCEPT ![w] = NextRow(worker[w])]
      BY <1>1, <1>3 DEF Filter
    <2>2. worker[w].mine \in BOOLEAN
      BY <1>1 DEF WorkerOK, WorkerTyped
    <2> QED
      BY <1>1, <1>2, <2>1, <2>2, NextRowText
  <1>4. CASE EndRow(w)
    <2> DEFINE z == [worker[w] EXCEPT !.mine = TRUE]
    <2>1. worker' = [worker EXCEPT ![w] = NextRow(z)]
      BY <1>1, <1>4 DEF EndRow
    <2>2. /\ DOMAIN z = Fields /\ z.at = "row" /\ z.bad = worker[w].bad
          /\ z.left = worker[w].left /\ z.mine \in BOOLEAN
      BY <1>1, <1>2 DEF Fields
    <2> HIDE DEF z
    <2> QED
      BY <1>2, <2>1, <2>2, NextRowText
  <1> QED
    BY <1>3, <1>4

LEMMA StartText ==
  ASSUME TextInv, ShapeOK', NEW w \in Workers, NEW bad \in BadArguments(kernel) \cup {None},
         Start(w, bad)
  PROVE  TextInv'
  <1>1. PICK n \in 1 .. MaxRows :
          worker' = [worker EXCEPT ![w] = [Idle EXCEPT !.at = "row", !.bad = bad, !.left = n]]
    BY DEF Start
  <1> DEFINE x == [Idle EXCEPT !.at = "row", !.bad = bad, !.left = n]
  <1>2. UNCHANGED <<kernel, listed, copy>> /\ (bad # None => ~Rejects(kernel, bad))
    BY DEF Start
  <1>3. /\ x.at = "row" /\ x.pc = 1 /\ x.reads = {} /\ x.spoiled = {} /\ x.wrote = {}
        /\ x.freed = FALSE /\ x.mine = FALSE /\ x.bad = bad /\ x.left = n
    BY DEF Idle
  <1>4. worker' = [worker EXCEPT ![w] = x]
    BY <1>1
  <1> HIDE DEF x
  <1>5. Blank(x)
    BY <1>3, Zenon DEF Blank
  <1>6. x.left \in 0 .. MaxRows
    BY <1>3, MaxRowsAssumption
  <1>7. /\ x.mine \in BOOLEAN /\ x.bad \in BadArguments(kernel) \cup {None}
        /\ x.bad # None => ~Rejects(kernel, x.bad)
    BY <1>2, <1>3, Zenon
  <1>8. WorkerOK(kernel, x)
    BY <1>5, <1>6, <1>7, WorkerHas, FreshIsOK
  <1> QED
    BY <1>2, <1>4, <1>8, WorkerKeeps DEF TextInv

LEMMA MarkText ==
  ASSUME TextInv, ShapeOK', NEW w \in Workers, Mark(w)
  PROVE  TextInv'
  <1> DEFINE v == worker[w]
             x == [v EXCEPT !.marks = Tail(@)]
  <1>1. /\ kernel \in Kernels /\ WorkerOK(kernel, v)
        /\ DOMAIN worker = Workers /\ DOMAIN v = Fields
    BY WorkerHas
  <1>2. /\ worker' = [worker EXCEPT ![w].marks = Tail(@)] /\ UNCHANGED <<kernel, copy>>
        /\ listed' = (listed \/ (v.mine /\ Watched(Head(v.marks))))
    BY DEF Mark
  <1>3. worker' = [worker EXCEPT ![w] = x]
    BY <1>1, <1>2 DEF Fields
  <1>4. listed' \in BOOLEAN
    BY <1>2, Zenon
  <1> HIDE DEF v
  <1>5. /\ x.at = v.at /\ x.pc = v.pc /\ x.bad = v.bad /\ x.left = v.left /\ x.mine = v.mine
        /\ x.reads = v.reads /\ x.spoiled = v.spoiled /\ x.wrote = v.wrote /\ x.freed = v.freed
    BY <1>1 DEF Fields
  <1> HIDE DEF x
  <1>6. WorkerOK(kernel, x)
    BY <1>1, <1>5, Zenon DEF WorkerOK, WorkerTyped, ReadsAsWritten, SpoiledLater, WroteBefore,
      FreedBefore, FailedAtBound
  <1> QED
    BY <1>2, <1>3, <1>4, <1>6, WorkerKeeps DEF TextInv

LEMMA StopText ==
  ASSUME TextInv, ShapeOK', NEW w \in Workers, Finish(w) \/ OutOfBounds(w)
  PROVE  TextInv'
  <1> DEFINE v == worker[w]
             x == [v EXCEPT !.at = "failed"]
  <1>1. /\ kernel \in Kernels /\ WorkerOK(kernel, v)
        /\ DOMAIN worker = Workers /\ DOMAIN v = Fields
    BY WorkerHas
  <1>2. UNCHANGED <<kernel, listed, copy>>
    BY DEF Finish, OutOfBounds
  <1>3. CASE Finish(w)
    <2>1. worker' = [worker EXCEPT ![w] = Idle]
      BY <1>3 DEF Finish
    <2>2. Blank(Idle)
      BY Zenon DEF Blank, Idle
    <2>3. Idle.mine \in BOOLEAN /\ Idle.left \in 0 .. MaxRows /\ Idle.bad = None
      BY MaxRowsAssumption DEF Idle
    <2>4. WorkerOK(kernel, Idle)
      BY <1>1, <2>2, <2>3, FreshIsOK
    <2> QED
      BY <1>2, <2>1, <2>4, WorkerKeeps DEF TextInv
  <1>4. CASE OutOfBounds(w)
    <2>1. AtRow(w) /\ Current(w).do = "bound" /\ worker' = [worker EXCEPT ![w].at = "failed"]
      BY <1>4 DEF OutOfBounds, AtStep
    <2>2. v.pc \in DOMAIN kernel.steps /\ kernel.steps[v.pc].do = "bound"
      BY <1>1, <2>1, RowPlace DEF TextInv, Steps
    <2>3. worker' = [worker EXCEPT ![w] = x]
      BY <1>1, <2>1 DEF Fields
    <2> HIDE DEF v
    <2>4. /\ x.at = "failed" /\ x.pc = v.pc /\ x.bad = v.bad /\ x.left = v.left /\ x.mine = v.mine
          /\ x.reads = v.reads /\ x.spoiled = v.spoiled /\ x.wrote = v.wrote /\ x.freed = v.freed
      BY <1>1 DEF Fields
    <2> HIDE DEF x
    <2>5. WorkerTyped(kernel, x)
      BY <1>1, <2>4, Zenon DEF WorkerOK, WorkerTyped, Places
    <2>6. WorkerOK(kernel, x)
      BY <1>1, <2>2, <2>4, <2>5, Zenon DEF WorkerOK, ReadsAsWritten, SpoiledLater,
        WroteBefore, FreedBefore, FailedAtBound
    <2> QED
      BY <1>2, <2>3, <2>6, WorkerKeeps DEF TextInv
  <1> QED
    BY <1>3, <1>4

LEMMA LassoIsOfVar ==
  ASSUME TextInv, NEW w \in Workers, AtRow(w), Current(w).do = "lasso"
  PROVE  Current(w).t = "var"
  <1>1. kernel \in Kernels /\ worker[w].pc \in DOMAIN Steps
    BY RowPlace DEF TextInv, ShapeOK
  <1> QED
    BY <1>1, KernelsAssumption DEF Current, Steps

LEMMA RowStepText ==
  ASSUME TextInv, ShapeOK', NEW w \in Workers, RowStep(w)
  PROVE  TextInv'
  <1> USE TouchedIsCopy
  <1>1. copy \in {"same", "old", "none"}
    BY DEF TextInv
  <1>2. CASE FindVar(w) \/ FindSlot(w) \/ Refresh(w) \/ Use(w) \/ Skip(w) \/ InBounds(w)
    <2>1. AtRow(w) /\ Advance(w) /\ UNCHANGED <<kernel, listed>> /\ copy' \in {copy, Touched}
      BY <1>2 DEF FindVar, FindSlot, Refresh, Use, Skip, InBounds, AtStep
    <2> QED
      BY <1>1, <2>1, AdvanceText
  <1>3. CASE Assign(w) \/ KeepRow(w)
    <2>1. CASE Assign(w)
      <3>1. /\ AtRow(w) /\ Current(w).do = "write" /\ UNCHANGED <<kernel, listed>>
            /\ copy' \in {copy, Touched}
            /\ worker' = [worker EXCEPT ![w] = Assigned(@, Current(w).t)]
        BY <2>1 DEF Assign, AtStep
      <3>2. Changes(Current(w))
        BY <3>1 DEF Changes
      <3> QED
        BY <1>1, <3>1, <3>2, AssignedText
    <2>2. CASE KeepRow(w)
      <3>1. /\ AtRow(w) /\ Current(w).do = "lasso" /\ UNCHANGED <<kernel, listed>>
            /\ copy' \in {copy, Touched}
            /\ worker' = [worker EXCEPT ![w] = Assigned(@, "var")]
        BY <2>2 DEF KeepRow, AtStep
      <3>2. Changes(Current(w)) /\ Current(w).t = "var"
        BY <3>1, LassoIsOfVar DEF Changes
      <3> QED
        BY <1>1, <3>1, <3>2, AssignedText
    <2> QED
      BY <1>3, <2>1, <2>2
  <1>4. CASE Name(w)
    BY <1>4, NameText
  <1>5. CASE DropRow(w)
    BY <1>5, DropText
  <1>6. CASE EndRow(w) \/ Filter(w)
    BY <1>6, EndText
  <1>7. CASE OutOfBounds(w)
    BY <1>7, StopText
  <1> QED
    BY <1>2, <1>3, <1>4, <1>5, <1>6, <1>7 DEF RowStep

LEMMA OthersText ==
  ASSUME TextInv, ShapeOK', Gather \/ DeltaExport \/ FullExport
  PROVE  TextInv'
  <1>1. /\ UNCHANGED <<kernel, worker>> /\ listed' \in BOOLEAN
        /\ copy' \in {"same", "old", "none"}
    BY TouchedIsCopy DEF TextInv, Gather, DeltaExport, FullExport
  <1>2. \A w \in Workers : WorkerOK(kernel', worker'[w])
    BY <1>1 DEF TextInv
  <1> QED
    BY <1>1, <1>2 DEF TextInv

LEMMA InitText == Init => TextInv
  <1> SUFFICES ASSUME Init PROVE TextInv
    OBVIOUS
  <1>1. ShapeOK /\ kernel \in Kernels
    BY InitHolds DEF IInv, ShapeOK
  <1>2. Blank(Idle) /\ Idle.mine \in BOOLEAN /\ Idle.bad = None
    BY Zenon DEF Blank, Idle
  <1>3. Idle.left \in 0 .. MaxRows
    BY MaxRowsAssumption DEF Idle
  <1>4. WorkerOK(kernel, Idle)
    BY <1>1, <1>2, <1>3, FreshIsOK
  <1> QED
    BY <1>1, <1>4 DEF Init, TextInv

LEMMA StepText ==
  ASSUME TextInv, ShapeOK', [Next]_vars
  PROVE  TextInv'
  <1>1. CASE UNCHANGED vars
    <2>1. UNCHANGED <<kernel, worker, listed, copy>>
      BY <1>1 DEF vars
    <2>2. \A w \in Workers : WorkerOK(kernel', worker'[w])
      BY <2>1 DEF TextInv
    <2> QED
      BY <2>1, <2>2 DEF TextInv
  <1>2. CASE \E w \in Workers : WorkerStep(w)
    <2>1. PICK w \in Workers : WorkerStep(w)
      BY <1>2
    <2>2. CASE \E bad \in BadArguments(kernel) \cup {None} : Start(w, bad)
      BY <2>2, StartText
    <2>3. CASE RowStep(w)
      BY <2>3, RowStepText
    <2>4. CASE Mark(w)
      BY <2>4, MarkText
    <2>5. CASE Finish(w)
      BY <2>5, StopText
    <2> QED
      BY <2>1, <2>2, <2>3, <2>4, <2>5 DEF WorkerStep
  <1>3. CASE Gather \/ DeltaExport \/ FullExport
    BY <1>3, OthersText
  <1> QED
    BY <1>1, <1>2, <1>3 DEF Next

LEMMA TextHolds ==
  ASSUME KernelsSound
  PROVE  Spec => []TextInv
  <1>1. Init => IInv /\ TextInv
    BY InitHolds, InitText
  <1>2. IInv /\ TextInv /\ [Next]_vars => (IInv /\ TextInv)'
    <2> SUFFICES ASSUME IInv, TextInv, [Next]_vars PROVE IInv' /\ TextInv'
      OBVIOUS
    <2>1. IInv' /\ ShapeOK'
      BY StepKeepsInvariant DEF IInv
    <2> QED
      BY <2>1, StepText
  <1> QED
    BY <1>1, <1>2, PTL DEF Spec

LEMMA TextIsTyped ==
  ASSUME TextInv
  PROVE  TypeOK
  <1>1. \A w \in Workers : WorkerTyped(kernel, worker[w])
    BY DEF TextInv, WorkerOK
  <1>2. ASSUME NEW w \in Workers
        PROVE  {worker[w].mine, worker[w].freed} \subseteq BOOLEAN
    BY <1>1, Zenon DEF WorkerTyped
  <1> QED
    BY <1>1, <1>2 DEF TextInv, ShapeOK, TypeOK, WorkerTyped, Steps

\* The step a worker is at, in the text of its kernel.
LEMMA AtText ==
  ASSUME TextInv, NEW w \in Workers, AtRow(w)
  PROVE  /\ kernel \in Kernels /\ WorkerOK(kernel, worker[w])
         /\ worker[w].pc \in DOMAIN kernel.steps
         /\ Current(w) = kernel.steps[worker[w].pc]
  BY WorkerHas, RowPlace DEF TextInv, Steps

-----------------------------------------------------------------------------
\* Once the row of a key has been freed for the blacklist, no step of that
\* shard evaluates an expression that reads it, however many names lie between
\* the expression and the row: for every class whose steps after the one that
\* frees use no name that stands for the row.
THEOREM FreedRowsAreNotRead ==
  ASSUME KernelsSound
  PROVE  Spec => []RowsLive
  <1>1. ASSUME TextInv
        PROVE  RowsLive
    <2> SUFFICES ASSUME NEW w \in Workers, AtRow(w), worker[w].freed,
                        kernel.op \notin Exempt.live
                 PROVE  "var" \notin RowsRead(w, Current(w).reads) /\ Current(w).t # "var"
      BY DEF RowsLive
    <2>1. /\ kernel \in Kernels /\ WorkerOK(kernel, worker[w])
          /\ worker[w].pc \in DOMAIN kernel.steps
          /\ Current(w) = kernel.steps[worker[w].pc]
      BY <1>1, AtText
    <2>2. PICK i \in DOMAIN kernel.steps : i < worker[w].pc /\ kernel.steps[i].do = "lasso"
      BY <2>1 DEF WorkerOK, FreedBefore
    <2>3. DropsLast(kernel)
      BY <2>1 DEF KernelsSound
    <2>4. /\ Complete(kernel) /\ Current(w).t # "var" /\ "var" \notin Current(w).reads
          /\ \A n \in Current(w).reads : <<n, "var">> \notin StandsFor(kernel)
      BY <2>1, <2>2, <2>3 DEF DropsLast, Complete
    <2>5. "var" \notin Through(w, Current(w).reads)
      <3> SUFFICES ASSUME NEW p \in worker[w].reads, p[1] \in Current(w).reads, p[2] = "var"
                   PROVE  FALSE
        BY DEF Through
      <3>1. p \in StandsFor(kernel)
        BY <2>1, <2>4 DEF WorkerOK, ReadsAsWritten
      <3>2. p = <<p[1], "var">>
        BY <3>1, ChainFacts
      <3> QED
        BY <2>4, <3>1, <3>2
    <2> QED
      BY <2>4, <2>5 DEF RowsRead
  <1>2. Spec => []TextInv
    BY TextHolds
  <1> QED
    BY <1>1, <1>2, PTL

\* A name means the same wherever a shard uses it: none is evaluated after a
\* row it reads, directly or through other names, was overwritten.  With it,
\* the types of the specification.
THEOREM NamesMeanOneThing ==
  ASSUME KernelsSound
  PROVE  Spec => []NamesKeepTheirValue
  <1>1. ASSUME TextInv
        PROVE  NamesKeepTheirValue
    <2>1. TypeOK
      BY <1>1, TextIsTyped
    <2>2. ASSUME NEW w \in Workers, AtRow(w), kernel.op \notin Exempt.names,
                 NEW n \in Current(w).reads, n \in worker[w].spoiled
          PROVE  FALSE
      <3>1. /\ kernel \in Kernels /\ WorkerOK(kernel, worker[w])
            /\ worker[w].pc \in DOMAIN kernel.steps
            /\ Current(w) = kernel.steps[worker[w].pc]
        BY <1>1, <2>2, AtText
      <3>2. NamesBeforeRows(kernel)
        BY <2>2, <3>1 DEF KernelsSound
      <3>3. Complete(kernel)
        BY <3>2 DEF NamesBeforeRows, Complete
      <3>4. PICK h \in NamedFrom(kernel), i \in DOMAIN kernel.steps :
              /\ h < i /\ i < worker[w].pc /\ kernel.steps[h].t = n
              /\ Changes(kernel.steps[i]) /\ <<n, kernel.steps[i].t>> \in StandsFor(kernel)
        BY <2>2, <3>1, <3>3 DEF WorkerOK, SpoiledLater
      <3> QED
        BY <2>2, <3>1, <3>2, <3>4 DEF NamesBeforeRows
    <2> QED
      BY <2>1, <2>2 DEF NamesKeepTheirValue
  <1>2. Spec => []TextInv
    BY TextHolds
  <1> QED
    BY <1>1, <1>2, PTL

\* One gradient changes a row at most once, on every path through a class that
\* has one assignment for each row.
THEOREM GradientsApplyOnce ==
  ASSUME KernelsSound
  PROVE  Spec => []AppliedOnce
  <1>1. ASSUME TextInv
        PROVE  AppliedOnce
    <2> SUFFICES ASSUME NEW w \in Workers, AtStep(w, "write") \/ AtStep(w, "lasso"),
                        kernel.op \notin Exempt.once, Current(w).t \in worker[w].wrote
                 PROVE  FALSE
      BY DEF AppliedOnce
    <2>1. AtRow(w) /\ Changes(Current(w))
      BY DEF AtStep, Changes
    <2>2. /\ kernel \in Kernels /\ WorkerOK(kernel, worker[w])
          /\ worker[w].pc \in DOMAIN kernel.steps
          /\ Current(w) = kernel.steps[worker[w].pc]
      BY <1>1, <2>1, AtText
    <2>3. PICK i \in DOMAIN kernel.steps :
            i < worker[w].pc /\ Changes(kernel.steps[i]) /\ kernel.steps[i].t = Current(w).t
      BY <2>2 DEF WorkerOK, WroteBefore
    <2>4. AssignsOnce(kernel)
      BY <2>2 DEF KernelsSound
    <2> QED
      BY <2>1, <2>2, <2>3, <2>4 DEF AssignsOnce
  <1>2. Spec => []TextInv
    BY TextHolds
  <1> QED
    BY <1>1, <1>2, PTL

\* An op with a scalar out of its range, or with a slot, a gradient or a Hessian
\* of another shape than its kernel works with, does no row, if KernelsSound: each
\* class tests each fault an argument of its can have, on the input the op
\* registers under that name, but for the faults exempt by name (a packed slot as
\* wide as one part, a gradient of more dimensions, and the untested arguments of
\* MCApplyGradient).
THEOREM BadArgumentsAreRejected ==
  ASSUME KernelsSound
  PROVE  Spec => []BadNeverTrains
  <1>1. ASSUME TextInv
        PROVE  BadNeverTrains
    <2> SUFFICES ASSUME NEW w \in Workers, worker[w].bad # None
                 PROVE  <<kernel.op, worker[w].bad>> \in Exempt.bad
      BY DEF BadNeverTrains
    <2>1. kernel \in Kernels /\ WorkerOK(kernel, worker[w])
      BY <1>1, WorkerHas
    <2>2. worker[w].bad \in BadArguments(kernel) /\ ~Rejects(kernel, worker[w].bad)
      BY <2>1 DEF WorkerOK, WorkerTyped
    <2> QED
      BY <2>1, <2>2 DEF KernelsSound
  <1>2. Spec => []TextInv
    BY TextHolds
  <1> QED
    BY <1>1, <1>2, PTL

\* An op that fails at an index has written nothing of the row it failed at,
\* whatever shards run: every class tests an index before it assigns.
THEOREM FailedRowsAreUntouched ==
  ASSUME KernelsSound
  PROVE  Spec => []RowsAreWhole
  <1>1. ASSUME TextInv
        PROVE  RowsAreWhole
    <2> SUFFICES ASSUME NEW w \in Workers, worker[w].at = "failed", NEW t \in worker[w].wrote
                 PROVE  FALSE
      BY DEF RowsAreWhole
    <2>1. kernel \in Kernels /\ WorkerOK(kernel, worker[w])
      BY <1>1, WorkerHas
    <2>2. worker[w].pc \in DOMAIN kernel.steps /\ kernel.steps[worker[w].pc].do = "bound"
      BY <2>1 DEF WorkerOK, FailedAtBound
    <2>3. PICK i \in DOMAIN kernel.steps : i < worker[w].pc /\ Changes(kernel.steps[i])
      BY <2>1 DEF WorkerOK, WroteBefore
    <2> QED
      BY <2>1, <2>2, <2>3 DEF KernelsSound, BoundsFirst
  <1>2. Spec => []TextInv
    BY TextHolds
  <1> QED
    BY <1>1, <1>2, PTL

\* While a shard has a pointer to a row, its op has the mutex of the row's
\* table, so no export reads the table and no import clears it.
THEOREM RowsAreHeld ==
  ASSUME KernelsSound
  PROVE  Spec => []TablesHeld
  <1>1. TextInv => TablesHeld
    BY DEF TextInv, ShapeOK, KernelsSound, TablesHeld, HasMutex
  <1>2. Spec => []TextInv
    BY TextHolds
  <1> QED
    BY <1>1, <1>2, PTL
=============================================================================
