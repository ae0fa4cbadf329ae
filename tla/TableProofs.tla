---------------------------- MODULE TableProofs -----------------------------
(***************************************************************************)
(* Proofs about the tables: their inductive invariant, that a bulk         *)
(* instruction which has begun is never stopped by its own bounds check,   *)
(* and that the tables implement vectors of references.                    *)
(***************************************************************************)
EXTENDS TableRefinement, TLAPS

\* The part of the invariant that is about the table instances.
TablesOK ==
    /\ tab \in [Addrs -> TableInsts]
    /\ EntriesAllocated
    /\ TableWithinMax
    /\ \A a \in Addrs : Len(tab[a].elem) <= HostEntries
    /\ \A a \in Addrs : Limits[a].has_max => tab[a].max = Limits[a].max

LEMMA Numbers ==
    /\ W \in Nat /\ HostEntries \in Nat /\ 2 * HostEntries < W
    /\ 0 \in I32
    /\ \A x \in I32 : x \in Nat /\ x < W
    /\ \A x \in Nat : x < W => x \in I32
    /\ \A x \in I32 : Signed(x) \in Int /\ (2 * x < W => Signed(x) = x)
    /\ \A x \in I32 : Wrap(x + 1) \in I32 /\ Wrap(x - 1) \in I32
    /\ \A x \in I32 : x # 0 => Wrap(x - 1) = x - 1
    /\ \A x \in I32 : x + 1 < W => Wrap(x + 1) = x + 1
    /\ \A d \in I32, n \in I32 : n # 0 => Wrap(d + n - 1) \in I32
  BY WidthAssumption DEF I32, Signed, Wrap

LEMMA Remainder ==
    ASSUME NEW w \in Nat, NEW x \in 0 .. w - 1
    PROVE  x % w = x
  BY SMT

\* A table and its bounds.
LEMMA TableType ==
    ASSUME TablesOK, NEW x \in TableIdx
    PROVE  /\ TableAddr[x] \in Addrs
           /\ T(x) \in TableInsts
           /\ T(x).elem \in Seq(Refs)
           /\ T(x).len \in Nat /\ T(x).max \in Nat
           /\ Len(T(x).elem) \in Nat
           /\ T(x).len <= Len(T(x).elem)
           /\ Len(T(x).elem) <= HostEntries
  BY IndexAssumption DEF TablesOK, EntriesAllocated, T, TableInsts

LEMMA InitOK == Init => TInv
<1> SUFFICES ASSUME Init PROVE TInv
  OBVIOUS
<1>1. PICK junk \in Junk :
          tab = [a \in Addrs |->
                   AllocTable(a, IF Limits[a].has_max THEN Limits[a].max ELSE junk)]
  BY DEF Init
<1>2. junk \in Nat
  BY LimitsAssumption, WidthAssumption
<1>3. ASSUME NEW a \in Addrs
      PROVE  /\ tab[a] \in TableInsts
             /\ tab[a].len = Limits[a].min /\ Len(tab[a].elem) = Limits[a].min
             /\ Limits[a].has_max => tab[a].max = Limits[a].max
             /\ Limits[a].min <= HostEntries /\ Limits[a].min \in Nat
             /\ Limits[a].has_max => Limits[a].min <= Limits[a].max
  <2> DEFINE e == [k \in 1 .. Limits[a].min |-> REF_NULL]
             max == IF Limits[a].has_max THEN Limits[a].max ELSE junk
  <2>1. /\ Limits[a].min \in Nat /\ Limits[a].min <= HostEntries
        /\ Limits[a].max \in Nat
        /\ Limits[a].has_max => Limits[a].min <= Limits[a].max
    BY LimitsAssumption, WidthAssumption
  <2>2. e \in Seq(Refs) /\ Len(e) = Limits[a].min
    BY <2>1 DEF Refs
  <2>3. max \in Nat
    BY <1>2, <2>1
  <2>4. tab[a] = [elem |-> e, len |-> Limits[a].min, max |-> max]
    BY <1>1 DEF AllocTable
  <2> HIDE DEF e, max
  <2>5. tab[a] \in TableInsts /\ tab[a].len = Limits[a].min /\ tab[a].elem = e
    BY <2>1, <2>2, <2>3, <2>4 DEF TableInsts
  <2>6. Limits[a].has_max => tab[a].max = Limits[a].max
    BY <2>4 DEF max
  <2>7. QED
    BY <2>1, <2>2, <2>5, <2>6
<1>4. tab \in [Addrs -> TableInsts]
  BY <1>1, <1>3
<1>5. TypeOK
  BY <1>4, ProgramAssumption DEF Init, TypeOK, Jobs, Done
<1>6. EntriesAllocated /\ TableWithinMax /\ BulkStaysInBounds
  BY <1>3 DEF Init, EntriesAllocated, TableWithinMax, BulkStaysInBounds
<1>7. QED
  BY <1>3, <1>5, <1>6, ProgramAssumption DEF Init, TInv

-----------------------------------------------------------------------------
(* Steps on one table.                                                     *)

\* Writing an entry changes no length.
LEMMA SetOK ==
    ASSUME TablesOK, NEW x \in TableIdx, NEW i \in I32, NEW val, Set(x, i, val),
           InTable(T(x), i) => val \in Refs
    PROVE  /\ TablesOK'
           /\ \A a \in Addrs : tab'[a].len = tab[a].len
<1> DEFINE b == TableAddr[x]
<1>1. /\ b \in Addrs /\ tab[b] \in TableInsts /\ tab[b].elem \in Seq(Refs)
      /\ tab[b].len \in Nat /\ tab[b].len <= Len(tab[b].elem) /\ Len(tab[b].elem) \in Nat
  BY TableType DEF T
<1>2. CASE InTable(T(x), i)
  <2> DEFINE e == [tab[b].elem EXCEPT ![i + 1] = val]
             t == [tab[b] EXCEPT !.elem = e]
  <2>1. i + 1 \in 1 .. Len(tab[b].elem)
    <3>1. i \in Nat /\ i < tab[b].len
      BY <1>2, Numbers DEF InTable, T
    <3>2. QED
      BY <1>1, <3>1
  <2>2. e \in Seq(Refs) /\ Len(e) = Len(tab[b].elem)
    BY <1>1, <1>2, <2>1
  <2>3. tab' = [tab EXCEPT ![b] = t]
    BY <1>2 DEF Set
  <2> HIDE DEF e
  <2>4. t \in TableInsts /\ t.len = tab[b].len /\ t.max = tab[b].max /\ t.elem = e
    BY <1>1, <2>2 DEF TableInsts
  <2> HIDE DEF t, b
  <2>5. tab' \in [Addrs -> TableInsts]
    BY <1>1, <2>3, <2>4 DEF TablesOK
  <2>6. \A a \in Addrs : /\ tab'[a].len = tab[a].len /\ tab'[a].max = tab[a].max
                         /\ Len(tab'[a].elem) = Len(tab[a].elem)
    BY <1>1, <2>2, <2>3, <2>4 DEF TablesOK
  <2>7. QED
    BY <2>5, <2>6 DEF TablesOK, EntriesAllocated, TableWithinMax
<1>3. CASE ~InTable(T(x), i)
  BY <1>3 DEF Set, TablesOK, EntriesAllocated, TableWithinMax
<1>4. QED
  BY <1>2, <1>3

\* table.grow, given an operand that is not negative.
LEMMA GrowOK ==
    ASSUME TablesOK, WellBehaved, NEW x \in TableIdx, NEW n \in GrowArgs, NEW val \in Refs,
           TableGrow(x, n, val)
    PROVE  TablesOK'
<1> DEFINE b == TableAddr[x]
           t == tab[b]
<1>1. /\ b \in Addrs /\ t \in TableInsts /\ t.elem \in Seq(Refs) /\ t.len \in Nat
      /\ t.max \in Nat /\ Len(t.elem) \in Nat
      /\ t.len <= Len(t.elem) /\ Len(t.elem) <= HostEntries
  BY TableType DEF T
<1>2. n \in I32 /\ n \in Nat /\ Signed(n) = n
  BY Numbers, ProgramAssumption DEF WellBehaved, I32
<1>3. CASE tab' = tab
  BY <1>3 DEF TablesOK, EntriesAllocated, TableWithinMax
<1>4. CASE /\ ~OverMax(t, n) /\ CanGrow(t, n)
           /\ tab' = [tab EXCEPT ![b] = Grown(t, n, val)]
  <2> DEFINE e == [k \in 1 .. Len(t.elem) + n |-> IF k > t.len THEN val ELSE t.elem[k]]
             g == [t EXCEPT !.len = t.len + n, !.elem = e]
  <2>1. e \in Seq(Refs) /\ Len(e) = Len(t.elem) + n
    <3>1. \A k \in 1 .. Len(t.elem) + n :
             (IF k > t.len THEN val ELSE t.elem[k]) \in Refs
      BY <1>1
    <3>2. e \in [1 .. Len(t.elem) + n -> Refs]
      BY <3>1
    <3>3. QED
      BY <1>1, <1>2, <3>2
  <2>2. Grown(t, n, val) = g
    BY <1>2 DEF Grown
  <2> HIDE DEF e
  <2> HIDE DEF t, b
  <2>3. g \in TableInsts /\ g.len = t.len + n /\ g.elem = e /\ g.max = t.max
    <3>1. t.len + n \in Nat
      BY <1>1, <1>2
    <3>2. QED
      BY <1>1, <2>1, <3>1 DEF TableInsts
  <2>4. Len(e) <= HostEntries
    BY <1>1, <1>2, <1>4, <2>1, Numbers DEF CanGrow
  <2>5. t.max # 0 => t.len + n <= t.max
    BY <1>1, <1>2, <1>4 DEF OverMax
  <2> HIDE DEF g
  <2>6. tab' = [tab EXCEPT ![b] = g]
    BY <1>4, <2>2
  <2>7. tab' \in [Addrs -> TableInsts]
    BY <1>1, <2>3, <2>6 DEF TablesOK
  <2>8. ASSUME NEW a \in Addrs
        PROVE  /\ tab'[a].len <= Len(tab'[a].elem)
               /\ Len(tab'[a].elem) <= HostEntries
               /\ Limits[a].has_max => tab'[a].max = Limits[a].max
               /\ Limits[a].has_max /\ Limits[a].max # 0 => tab'[a].len <= Limits[a].max
    <3>1. CASE a = b
      <4>1. tab'[a] = g /\ tab[a] = t
        BY <1>1, <2>6, <3>1 DEF TablesOK, t
      <4>2. g.len <= Len(g.elem)
        BY <1>1, <1>2, <2>1, <2>3
      <4>3. Limits[a].has_max => g.max = Limits[a].max
        BY <4>1, <1>1, <2>3, <3>1 DEF TablesOK
      <4>4. QED
        BY <4>1, <4>2, <4>3, <2>3, <2>4, <2>5
    <3>2. CASE a # b
      BY <3>2, <1>1, <2>6 DEF TablesOK, EntriesAllocated, TableWithinMax
    <3>3. QED
      BY <3>1, <3>2
  <2>9. QED
    BY <2>7, <2>8 DEF TablesOK, EntriesAllocated, TableWithinMax
<1>5. \/ /\ OverMax(t, n) \/ n # 0
         /\ tab' = IF ~OverMax(t, n) /\ Len(t.elem) + Signed(n) = 0
                   THEN [tab EXCEPT ![b].elem = <<>>] ELSE tab
      \/ /\ ~OverMax(t, n) /\ CanGrow(t, n)
         /\ tab' = [tab EXCEPT ![b] = Grown(t, n, val)]
  BY DEF TableGrow, T
<1>6. CASE OverMax(t, n) \/ n # 0
  <2>1. ~OverMax(t, n) => Len(t.elem) + Signed(n) # 0
    BY <1>1, <1>2, <1>6
  <2>2. QED
    BY <2>1, <1>3, <1>4, <1>5
<1>7. CASE ~(OverMax(t, n) \/ n # 0)
  BY <1>4, <1>5, <1>7
<1>8. QED
  BY <1>6, <1>7

-----------------------------------------------------------------------------
(* The loops.                                                              *)

\* What the check of a round establishes.
LEMMA CheckBounds ==
    ASSUME TablesOK, NEW r \in Jobs \ {Idle}, Check(r),
           r.op = "fill" => r.d + r.n < W
    PROVE  /\ r.d + r.n <= T(r.x).len
           /\ r.op = "copy" => r.s + r.n <= T(r.y).len
           /\ r.op = "init" => r.s + r.n <= Len(elems[r.y])
<1>1. CASE r.op = "fill"
  <2>1. r.d \in I32 /\ r.n \in I32
    BY <1>1 DEF Jobs, Idle
  <2>2. r.d + r.n \in 0 .. W - 1
    BY <1>1, <2>1, Numbers
  <2>3. (r.d + r.n) % W = r.d + r.n
    BY <2>2, Numbers, Remainder
  <2>4. QED
    BY <1>1, <2>3 DEF Check
<1>2. CASE r.op = "copy"
  BY <1>2 DEF Check
<1>3. CASE r.op = "init"
  BY <1>3 DEF Check
<1>4. QED
  BY <1>1, <1>2, <1>3 DEF Jobs, Idle

\* An instruction without an effect on the tables.
LEMMA QuietOK ==
    ASSUME TInv, tab' = tab, elems' \in [Segments -> Seq(Refs)], job' = Idle,
           \A seg \in Segments : Len(elems'[seg]) < W, instr' = NULL,
           out'.kind \in {"done", "trap", "num", "ref", "call", "crash"}
    PROVE  TInv'
  BY DEF TInv, TypeOK, Jobs, EntriesAllocated, TableWithinMax, BulkStaysInBounds

\* The first check of a bulk instruction.
LEMMA BulkOK ==
    ASSUME TInv, job = Idle, NEW r \in Instrs, r.op \in {"fill", "copy", "init"},
           r.op = "fill" => r.d + r.n < W,
           TableBulk(r), instr' = NULL
    PROVE  TInv'
<1> DEFINE j == Job(r)
<1>1. j \in Jobs \ {Idle} /\ j.op = r.op /\ j.d = r.d /\ j.n = r.n
  BY ProgramAssumption, Numbers DEF Instrs, Job, Jobs, Idle, I32, Refs
<1>2. TablesOK
  BY DEF TInv, TypeOK, TablesOK
<1>3. tab' = tab /\ elems' = elems
  BY DEF TableBulk
<1>4. CASE Check(r)
  <2>1. job' = j /\ out' = Done
    BY <1>4 DEF TableBulk, Loop
  <2>2. Check(j)
    BY <1>4 DEF Check, Job, Instrs
  <2>3. BulkStaysInBounds'
    BY <1>1, <1>2, <1>3, <2>1, <2>2, CheckBounds DEF BulkStaysInBounds, T
  <2>4. QED
    BY <1>1, <1>3, <2>1, <2>3
       DEF TInv, TypeOK, EntriesAllocated, TableWithinMax, Done
<1>5. CASE ~Check(r)
  <2>1. job' = Idle /\ out' = OutOfBounds
    BY <1>5 DEF TableBulk, Loop
  <2>2. QED
    BY <1>3, <2>1, QuietOK DEF TInv, TypeOK, OutOfBounds, Trapped
<1>6. QED
  BY <1>4, <1>5

\* What is left after a round, by the operands it pushes.
Rest(d, s) == [job EXCEPT !.d = d, !.s = s, !.n = Wrap(@ - 1)]

\* A round that goes up leaves the ranges one shorter at the front, one that
\* goes down one shorter at the back: the next check succeeds.
LEMMA RoundChecks ==
    ASSUME TInv, job # Idle, job.n # 0, NEW d \in I32, NEW s \in I32,
           \/ d = Wrap(job.d + 1) /\ (job.op # "fill" => s = Wrap(job.s + 1))
           \/ d = job.d /\ s = job.s
    PROVE  /\ Rest(d, s) \in Jobs \ {Idle}
           /\ Check(Rest(d, s))
           /\ Rest(d, s).op = "fill" => Rest(d, s).d + Rest(d, s).n < W
<1> DEFINE r == Rest(d, s)
<1>1. job \in Jobs \ {Idle} /\ TablesOK /\ elems \in [Segments -> Seq(Refs)]
  BY DEF TInv, TypeOK, TablesOK
<1>2. /\ job.x \in TableIdx /\ job.d \in I32 /\ job.s \in I32 /\ job.n \in I32
      /\ job.op \in {"fill", "copy", "init"}
  BY <1>1 DEF Jobs, Idle
<1>3. job.d + job.n <= HostEntries /\ job.d + job.n <= T(job.x).len /\ T(job.x).len <= HostEntries
      /\ T(job.x).len \in Nat
  <2>1. T(job.x).len \in Nat /\ T(job.x).len <= HostEntries
    BY <1>1, <1>2, TableType, WidthAssumption
  <2>2. job.d + job.n <= T(job.x).len
    BY DEF TInv, BulkStaysInBounds
  <2>3. job.d \in Nat /\ job.n \in Nat
    BY <1>2, WidthAssumption DEF I32
  <2>4. QED
    BY <2>1, <2>2, <2>3, WidthAssumption
<1>4. Wrap(job.n - 1) = job.n - 1 /\ job.n - 1 \in I32
  BY <1>2, Numbers
<1>5. d \in {job.d, job.d + 1} /\ d + (job.n - 1) <= job.d + job.n
  BY <1>2, <1>3, Numbers
<1>6. /\ r \in Jobs \ {Idle} /\ r.op = job.op /\ r.x = job.x /\ r.y = job.y
      /\ r.d = d /\ r.s = s /\ r.n = job.n - 1
  BY <1>1, <1>4 DEF Rest, Jobs, Idle
<1> HIDE DEF r
<1>7. r.d + r.n <= T(r.x).len /\ r.d + r.n \in Nat /\ r.d + r.n <= HostEntries
  BY <1>2, <1>3, <1>5, <1>6, Numbers
<1>8. CASE job.op = "fill"
  <2>1. r.d + r.n \in 0 .. W - 1 /\ 2 * (r.d + r.n) < W
    BY <1>7, Numbers
  <2>2. (r.d + r.n) % W = r.d + r.n
    BY <2>1, Numbers, Remainder
  <2>3. QED
    BY <1>6, <1>7, <1>8, <2>1, <2>2, Numbers DEF Check, r
<1>9. CASE job.op \in {"copy", "init"}
  <2>1. ASSUME NEW L \in Nat, job.s + job.n <= L, L < W
        PROVE  s + (job.n - 1) <= L
    <3>1. job.s \in Nat /\ job.n \in Nat \ {0} /\ s \in Nat
      BY <1>2, WidthAssumption DEF I32
    <3>2. job.s + 1 < W
      BY <2>1, <3>1, WidthAssumption
    <3>3. Wrap(job.s + 1) = job.s + 1
      BY <1>2, <3>2, Numbers
    <3>4. s \in {job.s, job.s + 1}
      BY <1>9, <3>3
    <3>5. QED
      BY <2>1, <3>1, <3>4
  <2>2. CASE job.op = "copy"
    <3>1. T(job.y).len \in Nat /\ T(job.y).len < W
      <4>1. job.y \in TableIdx
        BY <1>1, <2>2 DEF Jobs, Idle
      <4>2. QED
        BY <1>1, <4>1, TableType, WidthAssumption
    <3>2. job.s + job.n <= T(job.y).len
      BY <2>2 DEF TInv, BulkStaysInBounds
    <3>3. QED
      BY <2>1, <2>2, <3>1, <3>2, <1>6, <1>7 DEF Check, r
  <2>3. CASE job.op = "init"
    <3>1. Len(elems[job.y]) \in Nat /\ Len(elems[job.y]) < W
      BY <1>1, <2>3 DEF Jobs, Idle, TInv
    <3>2. job.s + job.n <= Len(elems[job.y])
      BY <2>3 DEF TInv, BulkStaysInBounds
    <3>3. s + (job.n - 1) <= Len(elems[job.y])
      BY <2>1, <3>1, <3>2
    <3>4. QED
      BY <2>3, <3>3, <1>6, <1>7 DEF Check, r
  <2>4. QED
    BY <1>9, <2>2, <2>3
<1>10. QED
  BY <1>2, <1>6, <1>8, <1>9 DEF r

\* The next round, once an entry of the table has been written.
LEMMA AgainOK ==
    ASSUME TInv, job # Idle, job.n # 0, NEW d \in I32, NEW s \in I32,
           \/ d = Wrap(job.d + 1) /\ (job.op # "fill" => s = Wrap(job.s + 1))
           \/ d = job.d /\ s = job.s,
           Again(d, s), TablesOK', \A a \in Addrs : tab'[a].len = tab[a].len,
           UNCHANGED <<elems, instr>>
    PROVE  TInv' /\ job' # Idle
<1> DEFINE r == Rest(d, s)
<1>1. r \in Jobs \ {Idle} /\ Check(r) /\ (r.op = "fill" => r.d + r.n < W)
  BY RoundChecks
<1> HIDE DEF r
<1>2. job' = r /\ out' = Done
  BY <1>1 DEF Again, Loop, Rest, r
<1>3. TablesOK /\ TypeOK
  BY DEF TInv, TypeOK, TablesOK
<1>4. /\ r.d + r.n <= T(r.x).len
      /\ r.op = "copy" => r.s + r.n <= T(r.y).len
      /\ r.op = "init" => r.s + r.n <= Len(elems[r.y])
  BY <1>1, <1>3, CheckBounds
<1>5. BulkStaysInBounds'
  <2>1. TableAddr[r.x] \in Addrs /\ (r.op = "copy" => TableAddr[r.y] \in Addrs)
    BY <1>1, IndexAssumption DEF Jobs, Idle
  <2>2. QED
    BY <1>2, <1>4, <2>1 DEF BulkStaysInBounds, T
<1>6. TypeOK'
  BY <1>1, <1>2, <1>3 DEF TypeOK, TablesOK, Done
<1>7. QED
  BY <1>1, <1>2, <1>5, <1>6 DEF TInv, TablesOK

\* A round of a loop keeps the invariant and does not end the loop.
LEMMA RoundOK ==
    ASSUME TInv, job # Idle, job.n # 0, FillStep \/ CopyStep \/ InitStep
    PROVE  TInv' /\ job' # Idle
<1>1. TablesOK /\ job \in Jobs \ {Idle} /\ elems \in [Segments -> Seq(Refs)]
  BY DEF TInv, TypeOK, TablesOK
<1>2. /\ job.x \in TableIdx /\ job.d \in I32 /\ job.s \in I32 /\ job.n \in I32
      /\ job.val \in Refs
  BY <1>1 DEF Jobs, Idle
<1>3. /\ Wrap(job.d + 1) \in I32 /\ Wrap(job.s + 1) \in I32
      /\ Wrap(job.d + job.n - 1) \in I32
      /\ job.d \in Nat /\ job.s \in Nat /\ job.n \in Nat \ {0}
  BY <1>2, Numbers
<1>4. CASE FillStep
  <2>1. InTable(T(job.x), job.d)
    <3>1. T(job.x).len \in Nat
      BY <1>1, <1>2, TableType
    <3>2. QED
      BY <3>1, <1>3 DEF TInv, BulkStaysInBounds, InTable
  <2>2. Again(Wrap(job.d + 1), job.s) /\ Set(job.x, job.d, job.val)
    BY <1>4, <2>1 DEF FillStep
  <2>3. TablesOK' /\ \A a \in Addrs : tab'[a].len = tab[a].len
    BY <1>1, <1>2, <2>2, SetOK
  <2>4. UNCHANGED <<elems, instr>> /\ job.op = "fill"
    BY <1>4 DEF FillStep
  <2>5. QED
    BY <1>2, <1>3, <2>2, <2>3, <2>4, AgainOK
<1>5. CASE InitStep
  <2> DEFINE v == elems[job.y][job.s + 1]
  <2>1. /\ job.op = "init" /\ Again(Wrap(job.d + 1), Wrap(job.s + 1))
        /\ Set(job.x, job.d, v) /\ UNCHANGED <<elems, instr>>
    BY <1>5 DEF InitStep
  <2>2. v \in Refs
    <3>1. elems[job.y] \in Seq(Refs)
      BY <1>1, <2>1 DEF Jobs, Idle
    <3>2. job.s + 1 \in 1 .. Len(elems[job.y])
      BY <1>3, <2>1, <3>1, SMTT(40) DEF TInv, BulkStaysInBounds
    <3>3. QED
      BY <3>1, <3>2
  <2> HIDE DEF v
  <2>3. TablesOK' /\ \A a \in Addrs : tab'[a].len = tab[a].len
    BY <1>1, <1>2, <2>1, <2>2, SetOK
  <2>4. QED
    BY <1>2, <1>3, <2>1, <2>3, AgainOK
<1>6. CASE CopyStep
  <2>1. job.op = "copy" /\ job.y \in TableIdx /\ UNCHANGED <<elems, instr>>
    BY <1>1, <1>6 DEF CopyStep, Jobs, Idle
  <2>2. /\ T(job.y).elem \in Seq(Refs) /\ T(job.y).len \in Nat /\ Len(T(job.y).elem) \in Nat
        /\ T(job.y).len <= Len(T(job.y).elem) /\ Len(T(job.y).elem) <= HostEntries
        /\ job.s + job.n <= T(job.y).len
    BY <1>1, <2>1, TableType DEF TInv, BulkStaysInBounds
  <2>3. ASSUME NEW d \in I32, NEW s \in job.s .. job.s + job.n - 1, Move(d, s)
        PROVE  TablesOK' /\ \A a \in Addrs : tab'[a].len = tab[a].len
    <3> DEFINE v == T(job.y).elem[s + 1]
    <3>1. s + 1 \in 1 .. Len(T(job.y).elem)
      BY <1>3, <2>2, SMTT(40)
    <3>2. v \in Refs
      BY <2>2, <3>1
    <3> HIDE DEF v
    <3>3. Set(job.x, d, v)
      BY <2>3 DEF Move, v
    <3>4. QED
      BY <1>1, <1>2, <3>2, <3>3, SetOK
  <2>4. CASE Signed(job.d) <= Signed(job.s)
    <3>1. Move(job.d, job.s) /\ Again(Wrap(job.d + 1), Wrap(job.s + 1))
      BY <1>6, <2>4 DEF CopyStep
    <3>2. job.s \in job.s .. job.s + job.n - 1
      BY <1>3
    <3>3. TablesOK' /\ \A a \in Addrs : tab'[a].len = tab[a].len
      BY <1>2, <2>3, <3>1, <3>2
    <3>4. QED
      BY <1>3, <2>1, <3>1, <3>3, AgainOK
  <2>5. CASE ~(Signed(job.d) <= Signed(job.s))
    <3>1. /\ Move(Wrap(job.d + job.n - 1), Wrap(job.s + job.n - 1))
          /\ Again(job.d, job.s)
      BY <1>6, <2>5 DEF CopyStep
    <3>2. Wrap(job.s + job.n - 1) \in job.s .. job.s + job.n - 1
      <4>1. job.s + job.n - 1 < W /\ job.s + job.n - 1 >= 0
        BY <1>3, <2>2, WidthAssumption, SMTT(40)
      <4>2. Wrap(job.s + job.n - 1) = job.s + job.n - 1
        BY <4>1, <1>3, WidthAssumption DEF Wrap
      <4>3. QED
        BY <4>2, <1>3
    <3>3. TablesOK' /\ \A a \in Addrs : tab'[a].len = tab[a].len
      BY <1>3, <2>3, <3>1, <3>2
    <3>4. QED
      BY <1>2, <2>1, <3>1, <3>3, AgainOK
  <2>6. QED
    BY <2>4, <2>5
<1>7. QED
  BY <1>4, <1>5, <1>6

-----------------------------------------------------------------------------

LEMMA ExecuteOK ==
    ASSUME TInv, WellBehaved, instr # NULL, Execute(instr), job = Idle
    PROVE  TInv'
<1>1. instr \in Instrs /\ instr' = NULL /\ TablesOK /\ elems \in [Segments -> Seq(Refs)]
  BY DEF TInv, TypeOK, TablesOK, Execute
<1>2. CASE TableGet(instr.x, instr.i)
  BY <1>1, <1>2, QuietOK DEF TInv, TableGet, Answer, Ref, OutOfBounds, Trapped
<1>3. CASE instr.op = "set" /\ TableSet(instr.x, instr.i, instr.val)
  <2>1. instr.x \in TableIdx /\ instr.i \in I32 /\ instr.val \in Refs
    BY <1>1, <1>3, ProgramAssumption DEF Instrs, I32
  <2>2. TablesOK'
    BY <1>1, <1>3, <2>1, SetOK DEF TableSet
  <2>3. out'.kind \in {"done", "trap"}
    BY <1>3 DEF TableSet, Done, OutOfBounds, Trapped
  <2>4. job' = Idle /\ elems' = elems
    BY <1>3 DEF TableSet
  <2>5. QED
    BY <1>1, <2>2, <2>3, <2>4 DEF TInv, TypeOK, TablesOK, BulkStaysInBounds, Jobs
<1>4. CASE TableSize(instr.x)
  BY <1>1, <1>4, QuietOK DEF TInv, TableSize, Answer, Num
<1>5. CASE instr.op = "grow" /\ TableGrow(instr.x, instr.n, instr.val)
  <2>1. instr.x \in TableIdx /\ instr.n \in GrowArgs /\ instr.val \in Refs
    BY <1>1, <1>5 DEF Instrs
  <2>2. TablesOK'
    BY <1>1, <1>5, <2>1, GrowOK
  <2>3. out'.kind = "num" /\ job' = Idle /\ elems' = elems
    BY <1>5 DEF TableGrow, Num
  <2>4. QED
    BY <1>1, <2>2, <2>3 DEF TInv, TypeOK, TablesOK, BulkStaysInBounds, Jobs
<1>6. CASE instr.op \in {"fill", "copy", "init"} /\ TableBulk(instr)
  <2>1. instr.op = "fill" => instr.d + instr.n < W
    BY DEF TInv, WellBehaved
  <2>2. QED
    BY <1>1, <1>6, <2>1, BulkOK
<1>7. CASE instr.op = "drop" /\ ElemDrop(instr.y)
  <2>1. elems' = [elems EXCEPT ![instr.y] = <<>>] /\ tab' = tab /\ job' = Idle /\ out' = Done
    BY <1>7 DEF ElemDrop
  <2>2. elems' \in [Segments -> Seq(Refs)] /\ \A seg \in Segments : Len(elems'[seg]) < W
    <3>1. <<>> \in Seq(Refs) /\ Len(<<>>) = 0 /\ 0 < W
      BY WidthAssumption
    <3>2. \A seg \in Segments : elems'[seg] \in {<<>>, elems[seg]}
      BY <1>1, <2>1
    <3>3. QED
      BY <1>1, <2>1, <3>1, <3>2 DEF TInv
  <2>3. QED
    BY <1>1, <2>1, <2>2, QuietOK DEF Done
<1>8. CASE TableCall(instr.x, instr.ty, instr.i)
  <2>1. out'.kind \in {"trap", "call"} /\ tab' = tab /\ elems' = elems /\ job' = Idle
    BY <1>8 DEF TableCall, Answer, Trapped, Call
  <2>2. QED
    BY <1>1, <2>1, QuietOK DEF TInv
<1>9. QED
  BY <1>2, <1>3, <1>4, <1>5, <1>6, <1>7, <1>8 DEF Execute

LEMMA StepOK ==
    ASSUME TInv /\ (job # Idle => instr = NULL), WellBehaved, [Next]_vars
    PROVE  /\ TInv' /\ (job' # Idle => instr' = NULL)
           /\ job # Idle /\ job.n # 0 => job' # Idle
<1>1. CASE UNCHANGED vars
  BY <1>1 DEF vars, TInv, TypeOK, EntriesAllocated, BulkStaysInBounds, TableWithinMax, T
<1>2. ASSUME NEW r \in Instrs, Fetch(r)
      PROVE  TInv' /\ job' = Idle /\ job = Idle
  <2>1. /\ job = Idle /\ job' = Idle /\ tab' = tab /\ elems' = elems
        /\ instr' = r /\ out'.kind = "done"
    BY <1>2 DEF Fetch, Done
  <2>2. r.op = "fill" => r.d + r.n < W
    <3>1. r.op = "fill" => r.d \in Nat /\ r.n \in Nat
      <4>1. r.op = "fill" => r.d \in Operands /\ r.n \in Operands
        BY DEF Instrs
      <4>2. Operands \subseteq 0 .. W - 1
        BY ProgramAssumption
      <4>3. \A o \in 0 .. W - 1 : o \in Nat
        BY WidthAssumption
      <4>4. QED
        BY <4>1, <4>2, <4>3
    <3>2. ~(r.op = "fill" /\ r.d + r.n >= W)
      BY <1>2 DEF Fetch, WellBehaved
    <3>3. QED
      BY <3>1, <3>2, WidthAssumption
  <2>3. TypeOK' /\ BulkStaysInBounds'
    BY <2>1 DEF TInv, TypeOK, BulkStaysInBounds
  <2>4. QED
    BY <2>1, <2>2, <2>3 DEF TInv, EntriesAllocated, TableWithinMax
<1>3. CASE instr # NULL /\ Execute(instr)
  <2>1. job = Idle /\ instr' = NULL
    BY <1>3 DEF Execute
  <2>2. TInv'
    BY <1>3, <2>1, ExecuteOK
  <2>3. QED
    BY <2>1, <2>2
<1>4. CASE FillStep \/ CopyStep \/ InitStep
  <2>1. job # Idle /\ job.n # 0 /\ instr' = instr
    BY <1>4 DEF FillStep, CopyStep, InitStep, Idle
  <2>2. QED
    BY <1>4, <2>1, RoundOK
<1>5. CASE BulkEnd
  BY <1>5 DEF BulkEnd, TInv, TypeOK, EntriesAllocated, BulkStaysInBounds, TableWithinMax, Jobs
<1>6. QED
  BY <1>1, <1>2, <1>3, <1>4, <1>5 DEF Next, BulkStep

\* In every program whose table.grow operands are not negative and whose
\* table.fill operands do not add up to 2^32, every entry below len stays
\* allocated, a table stays within its maximum, and a loop within its tables.
THEOREM TablesInvariant ==
    ASSUME WellBehaved
    PROVE  Spec => [](TypeOK /\ EntriesAllocated /\ BulkStaysInBounds /\ TableWithinMax)
<1> DEFINE I == TInv /\ (job # Idle => instr = NULL)
<1>1. Init => I
  BY InitOK DEF Init
<1>2. I /\ [Next]_vars => I'
  BY StepOK
<1>3. I => TypeOK /\ EntriesAllocated /\ BulkStaysInBounds /\ TableWithinMax
  BY DEF TInv
<1>4. QED
  BY <1>1, <1>2, <1>3, PTL DEF Spec

\* The inductive invariant itself, under the name the run checks.
THEOREM TablesInductive ==
    ASSUME WellBehaved
    PROVE  Spec => []TInv
<1> DEFINE I == TInv /\ (job # Idle => instr = NULL)
<1>1. Init => I
  BY InitOK DEF Init
<1>2. I /\ [Next]_vars => I'
  BY StepOK
<1>3. QED
  BY <1>1, <1>2, PTL DEF Spec

\* No bounds check of a later round contradicts the first one: a bulk table
\* instruction that has begun runs until nothing is left.
THEOREM TableBulkRunsOn ==
    ASSUME WellBehaved
    PROVE  Spec => BulkNeverStopsHalfway
<1> DEFINE I == TInv /\ (job # Idle => instr = NULL)
<1>1. Init => I
  BY InitOK DEF Init
<1>2. I /\ [Next]_vars => I'
  BY StepOK
<1>3. I /\ [Next]_vars => [job # Idle /\ job.n # 0 => job' # Idle]_vars
  BY StepOK
<1>4. QED
  BY <1>1, <1>2, <1>3, PTL DEF Spec, BulkNeverStopsHalfway

-----------------------------------------------------------------------------
(* The table instances implement the vectors of references: every step of  *)
(* a loop leaves what the loop will leave, also when source and            *)
(* destination are one table and overlap, because the direction that       *)
(* d <= s chooses never reads an entry it has already written.             *)

\* A bulk instruction runs only between two others, and has not trapped.
RInv == TInv /\ (job # Idle => instr = NULL /\ out = Done)

-----------------------------------------------------------------------------
(* The refinement mapping.                                                 *)

\* The operands of a running loop.
LEMMA JobFacts ==
    ASSUME TInv, job # Idle
    PROVE  /\ job \in Jobs \ {Idle} /\ job.op \in {"fill", "copy", "init"}
           /\ job.x \in TableIdx /\ TableAddr[job.x] \in Addrs
           /\ job.d \in I32 /\ job.s \in I32 /\ job.n \in I32 /\ job.val \in Refs
           /\ job.d \in Nat /\ job.s \in Nat /\ job.n \in Nat
           /\ job.op = "copy" => job.y \in TableIdx /\ TableAddr[job.y] \in Addrs
           /\ job.op = "init" => job.y \in Segments
           /\ job.d + job.n <= T(job.x).len
           /\ job.op = "copy" => job.s + job.n <= T(job.y).len
           /\ job.op = "init" => job.s + job.n <= Len(elems[job.y])
<1>1. job \in Jobs \ {Idle}
  BY DEF TInv, TypeOK
<1>2. /\ job.op \in {"fill", "copy", "init"} /\ job.x \in TableIdx
      /\ job.d \in I32 /\ job.s \in I32 /\ job.n \in I32 /\ job.val \in Refs
      /\ job.op = "copy" => job.y \in TableIdx
      /\ job.op = "init" => job.y \in Segments
  BY <1>1 DEF Jobs, Idle
<1>3. job.d \in Nat /\ job.s \in Nat /\ job.n \in Nat
  BY <1>2, Numbers
<1>4. TableAddr[job.x] \in Addrs /\ (job.op = "copy" => TableAddr[job.y] \in Addrs)
  BY <1>2, IndexAssumption
<1>5. QED
  BY <1>1, <1>2, <1>3, <1>4 DEF TInv, BulkStaysInBounds

\* The tables themselves.
LEMMA TabFacts ==
    ASSUME TInv, NEW a \in Addrs
    PROVE  /\ tab[a] \in TableInsts /\ tab[a].elem \in Seq(Refs)
           /\ tab[a].len \in Nat /\ Len(tab[a].elem) \in Nat
           /\ tab[a].len <= Len(tab[a].elem) /\ 2 * tab[a].len < W /\ W \in Nat
           /\ \A k \in 1 .. tab[a].len : tab[a].elem[k] \in Refs
<1>1. tab[a] \in TableInsts /\ tab[a].len <= Len(tab[a].elem) /\ Len(tab[a].elem) <= HostEntries
  BY DEF TInv, TypeOK, EntriesAllocated
<1>2. tab[a].elem \in Seq(Refs) /\ tab[a].len \in Nat /\ Len(tab[a].elem) \in Nat
  BY <1>1 DEF TableInsts
<1>3. 2 * tab[a].len < W
  BY <1>1, <1>2, WidthAssumption
<1>4. QED
  BY <1>1, <1>2, <1>3, WidthAssumption

\* What a loop will leave in an entry of a table is a reference.
LEMMA EventualTyped ==
    ASSUME TInv, NEW a \in Addrs, NEW k \in 1 .. tab[a].len
    PROVE  Eventual(a, k) \in Refs
<1>1. CASE job # Idle /\ a = TableAddr[job.x] /\ k \in job.d + 1 .. job.d + job.n
  <2>1. k - job.d \in 1 .. job.n /\ job.s + (k - job.d) \in job.s + 1 .. job.s + job.n
    BY <1>1, JobFacts, SMTT(40)
  <2>2. CASE job.op = "fill"
    BY <1>1, <2>2, JobFacts DEF Eventual
  <2>3. CASE job.op = "copy"
    <3>1. job.s + (k - job.d) \in 1 .. T(job.y).len
      <4>1. T(job.y).len \in Nat /\ job.s + job.n <= T(job.y).len /\ job.s \in Nat /\ job.n \in Nat
        BY <1>1, <2>3, JobFacts, TabFacts DEF T
      <4>2. QED
        BY <2>1, <4>1
    <3>2. T(job.y).elem[job.s + (k - job.d)] \in Refs
      BY <1>1, <2>3, <3>1, JobFacts, TabFacts DEF T
    <3>3. QED
      BY <1>1, <2>3, <3>2 DEF Eventual
  <2>4. CASE job.op = "init"
    <3>1. elems[job.y] \in Seq(Refs)
      BY <1>1, <2>4, JobFacts DEF TInv, TypeOK
    <3>2. job.s + (k - job.d) \in 1 .. Len(elems[job.y])
      BY <1>1, <2>1, <2>4, <3>1, JobFacts, SMTT(40)
    <3>3. elems[job.y][job.s + (k - job.d)] \in Refs
      BY <3>1, <3>2
    <3>4. QED
      BY <1>1, <2>4, <3>3 DEF Eventual
  <2>5. QED
    BY <1>1, <2>2, <2>3, <2>4, JobFacts
<1>2. CASE ~(job # Idle /\ a = TableAddr[job.x] /\ k \in job.d + 1 .. job.d + job.n)
  <2>1. tab[a].elem[k] \in Refs
    BY TabFacts
  <2>2. Eventual(a, k) = tab[a].elem[k]
    BY <1>2 DEF Eventual
  <2>3. QED
    BY <2>1, <2>2
<1>3. QED
  BY <1>1, <1>2

\* The mapped tables are vectors as long as the tables.
Mapped ==
    /\ AbsTabs \in [Addrs -> Seq(Refs)]
    /\ \A a \in Addrs : /\ Len(AbsTabs[a]) = tab[a].len /\ DOMAIN AbsTabs[a] = 1 .. tab[a].len
                        /\ \A k \in 1 .. tab[a].len : AbsTabs[a][k] = Eventual(a, k)

LEMMA MappedOK == TInv => Mapped
<1> SUFFICES ASSUME TInv PROVE Mapped
  OBVIOUS
<1>1. ASSUME NEW a \in Addrs
      PROVE  /\ AbsTabs[a] \in Seq(Refs)
             /\ Len(AbsTabs[a]) = tab[a].len /\ DOMAIN AbsTabs[a] = 1 .. tab[a].len
             /\ \A k \in 1 .. tab[a].len : AbsTabs[a][k] = Eventual(a, k)
  <2>1. AbsTabs[a] = [k \in 1 .. tab[a].len |-> Eventual(a, k)]
    BY DEF AbsTabs
  <2>2. AbsTabs[a] \in [1 .. tab[a].len -> Refs]
    BY <2>1, EventualTyped
  <2>3. tab[a].len \in Nat
    BY TabFacts
  <2>4. QED
    BY <2>1, <2>2, <2>3
<1>2. AbsTabs \in [Addrs -> Seq(Refs)]
  <2>1. DOMAIN AbsTabs = Addrs /\ AbsTabs = [a \in Addrs |-> AbsTabs[a]]
    BY DEF AbsTabs
  <2>2. QED
    BY <1>1, <2>1
<1>3. QED
  BY <1>1, <1>2 DEF Mapped

\* Vectors with the same entries are the same.
LEMMA SameVectors ==
    ASSUME NEW F \in [Addrs -> Seq(Refs)], NEW G \in [Addrs -> Seq(Refs)],
           \A a \in Addrs : Len(F[a]) = Len(G[a]) /\ \A k \in 1 .. Len(F[a]) : F[a][k] = G[a][k]
    PROVE  F = G
<1>1. ASSUME NEW a \in Addrs PROVE F[a] = G[a]
  BY SMT
<1>2. QED
  BY <1>1

\* Without a loop, and when neither the tables nor the loop change, nothing does.
LEMMA QuietAbs ==
    ASSUME TInv, tab' = tab,
           (job = Idle /\ job' = Idle) \/ (elems' = elems /\ job' = job)
    PROVE  AbsTabs' = AbsTabs
<1>1. ASSUME NEW a, NEW k PROVE Eventual(a, k)' = Eventual(a, k)
  <2>1. CASE job = Idle /\ job' = Idle
    BY <2>1 DEF Eventual
  <2>2. CASE elems' = elems /\ job' = job
    BY <2>2 DEF Eventual, T
  <2>3. QED
    BY <2>1, <2>2
<1>2. QED
  BY <1>1 DEF AbsTabs

LEMMA IdleAbs ==
    ASSUME job = Idle, NEW a \in Addrs, NEW k
    PROVE  Eventual(a, k) = tab[a].elem[k]
  BY DEF Eventual

LEMMA FunctionIsSeq ==
    ASSUME NEW S, NEW n \in Nat, NEW f \in [1 .. n -> S]
    PROVE  f \in Seq(S) /\ Len(f) = n
OBVIOUS

\* A write of v behind the first d entries of table b, as the vectors see it.
LEMMA WriteAbs ==
    ASSUME TInv, TInv', NEW b \in Addrs, NEW d \in Nat, NEW v \in Seq(Refs),
           \A a \in Addrs : tab'[a].len = tab[a].len,
           \A a \in Addrs \ {b}, k \in Nat : Eventual(a, k)' = Eventual(a, k),
           \A k \in 1 .. tab[b].len :
               Eventual(b, k)' = IF k - d \in DOMAIN v THEN v[k - d] ELSE Eventual(b, k)
    PROVE  AbsTabs' = [AbsTabs EXCEPT ![b] =
                          [k \in DOMAIN @ |-> IF k - d \in DOMAIN v THEN v[k - d] ELSE @[k]]]
<1>1. Mapped
  BY MappedOK
<1>2. TInv' => Mapped'
  BY MappedOK, PTL
<1>3. /\ AbsTabs' \in [Addrs -> Seq(Refs)]
      /\ \A a \in Addrs : Len(AbsTabs'[a]) = tab[a].len
      /\ \A a \in Addrs : \A k \in 1 .. tab[a].len : AbsTabs'[a][k] = Eventual(a, k)'
  BY <1>2 DEF Mapped
<1> DEFINE w == [k \in DOMAIN AbsTabs[b] |->
                    IF k - d \in DOMAIN v THEN v[k - d] ELSE AbsTabs[b][k]]
           G == [AbsTabs EXCEPT ![b] = w]
<1>4. tab[b].len \in Nat /\ \A a \in Addrs : tab[a].len \in Nat
  BY TabFacts
<1>5. /\ w \in Seq(Refs) /\ Len(w) = tab[b].len
      /\ \A k \in 1 .. tab[b].len :
            w[k] = IF k - d \in DOMAIN v THEN v[k - d] ELSE Eventual(b, k)
  <2>1. DOMAIN AbsTabs[b] = 1 .. tab[b].len
    BY <1>1 DEF Mapped
  <2>2. \A k \in 1 .. tab[b].len : k - d \in DOMAIN v => v[k - d] \in Refs
    OBVIOUS
  <2>3. \A k \in 1 .. tab[b].len : AbsTabs[b][k] \in Refs /\ AbsTabs[b][k] = Eventual(b, k)
    BY <1>1, EventualTyped DEF Mapped
  <2>4. w \in [1 .. tab[b].len -> Refs]
    BY <2>1, <2>2, <2>3
  <2> HIDE DEF w
  <2>5. w \in Seq(Refs) /\ Len(w) = tab[b].len
    BY <1>4, <2>4, FunctionIsSeq
  <2>6. \A k \in 1 .. tab[b].len :
            w[k] = IF k - d \in DOMAIN v THEN v[k - d] ELSE AbsTabs[b][k]
    BY <2>1 DEF w
  <2>7. QED
    BY <2>3, <2>5, <2>6
<1> HIDE DEF w
<1>6. G \in [Addrs -> Seq(Refs)] /\ G[b] = w /\ \A a \in Addrs \ {b} : G[a] = AbsTabs[a]
  BY <1>1, <1>5 DEF Mapped
<1>7. ASSUME NEW a \in Addrs
      PROVE  Len(AbsTabs'[a]) = Len(G[a]) /\ \A k \in 1 .. Len(AbsTabs'[a]) : AbsTabs'[a][k] = G[a][k]
  <2>1. CASE a = b
    <3>1. G[b] = w /\ Len(w) = tab[b].len /\ Len(AbsTabs'[b]) = tab[b].len
      BY <1>3, <1>5, <1>6
    <3>2. ASSUME NEW k \in 1 .. tab[b].len PROVE AbsTabs'[b][k] = w[k]
      <4>1. AbsTabs'[b][k] = Eventual(b, k)'
        BY <1>3
      <4>2. QED
        BY <1>5, <4>1, Zenon
    <3>3. QED
      BY <2>1, <3>1, <3>2
  <2>2. CASE a # b
    <3>1. G[a] = AbsTabs[a] /\ Len(AbsTabs[a]) = tab[a].len
      BY <1>1, <1>6, <2>2 DEF Mapped
    <3>2. ASSUME NEW k \in 1 .. tab[a].len PROVE AbsTabs'[a][k] = AbsTabs[a][k]
      <4>1. k \in Nat /\ AbsTabs[a][k] = Eventual(a, k) /\ AbsTabs'[a][k] = Eventual(a, k)'
        BY <1>1, <1>3, <1>4 DEF Mapped
      <4>2. QED
        BY <2>2, <4>1
    <3>3. QED
      BY <1>3, <3>1, <3>2
  <2>3. QED
    BY <2>1, <2>2
<1> HIDE DEF G
<1>8. AbsTabs' = G
  BY <1>3, <1>6, <1>7, SameVectors
<1>9. QED
  BY <1>8 DEF G, w
-----------------------------------------------------------------------------
(* Instructions of one step.                                               *)

\* An instruction that only answers.
LEMMA AnswerAbs ==
    ASSUME TInv, job = Idle, tab' = tab, elems' = elems, job' = job
    PROVE  /\ UNCHANGED <<AbsTabs, elems>> /\ Busy' = FALSE
           /\ \A a \in Addrs : Len(AbsTabs[a]) = tab[a].len
           /\ \A a \in Addrs : \A k \in 1 .. tab[a].len : AbsTabs[a][k] = tab[a].elem[k]
<1>1. AbsTabs' = AbsTabs
  BY QuietAbs
<1>2. Mapped
  BY MappedOK
<1>3. Busy' = FALSE
  BY DEF Busy
<1>4. QED
  BY <1>1, <1>2, <1>3, IdleAbs DEF Mapped

LEMMA GetAbs ==
    ASSUME TInv, job = Idle, NEW x \in TableIdx, NEW i \in Nat, TableGet(x, i)
    PROVE  V!Get(TableAddr[x], i)
<1> DEFINE a == TableAddr[x]
<1>1. /\ out' = IF i < tab[a].len THEN Ref(tab[a].elem[i + 1]) ELSE OutOfBounds
      /\ tab' = tab /\ elems' = elems /\ job' = job
  BY DEF TableGet, Answer, InTable, T
<1>2. a \in Addrs /\ tab[a].len \in Nat
  BY IndexAssumption, TabFacts
<1>3. /\ UNCHANGED <<AbsTabs, elems>> /\ Busy' = FALSE /\ Len(AbsTabs[a]) = tab[a].len
      /\ \A k \in 1 .. tab[a].len : AbsTabs[a][k] = tab[a].elem[k]
  BY <1>1, <1>2, AnswerAbs
<1>4. i < tab[a].len => AbsTabs[a][i + 1] = tab[a].elem[i + 1]
  BY <1>2, <1>3
<1>5. QED
  BY <1>1, <1>3, <1>4
     DEF V!Get, V!Answer, V!OutOfBounds, V!Trap, Ref, OutOfBounds, Trapped

LEMMA SizeAbs ==
    ASSUME TInv, job = Idle, NEW x \in TableIdx, TableSize(x)
    PROVE  V!Size(TableAddr[x])
<1>1. /\ out' = Num(tab[TableAddr[x]].len) /\ tab' = tab /\ elems' = elems /\ job' = job
  BY DEF TableSize, Answer, T
<1>2. QED
  BY <1>1, IndexAssumption, AnswerAbs DEF V!Size, V!Answer, Num

\* Comparing the parameters and the results compares the types.
LEMMA CallAbs ==
    ASSUME TInv, job = Idle, NEW x \in TableIdx, NEW ty \in CallTypes, NEW i \in Nat,
           TableCall(x, ty, i)
    PROVE  V!CallIndirect(TableAddr[x], ty, i)
<1> DEFINE a == TableAddr[x]
           r == tab[a].elem[i + 1]
<1>1. /\ out' = IF ~(i < tab[a].len) THEN Trapped("undefined element")
               ELSE IF r = REF_NULL THEN Trapped("uninitialized element")
               ELSE IF FuncType[r].rt1 # ty.rt1 \/ FuncType[r].rt2 # ty.rt2
                    THEN Trapped("indirect call type mismatch")
               ELSE Call(r)
      /\ tab' = tab /\ elems' = elems /\ job' = job
  BY DEF TableCall, Answer, InTable, T
<1>2. a \in Addrs /\ tab[a].len \in Nat
  BY IndexAssumption, TabFacts
<1>3. /\ UNCHANGED <<AbsTabs, elems>> /\ Busy' = FALSE /\ Len(AbsTabs[a]) = tab[a].len
      /\ \A k \in 1 .. tab[a].len : AbsTabs[a][k] = tab[a].elem[k]
  BY <1>1, <1>2, AnswerAbs
<1>4. ASSUME i < tab[a].len
      PROVE  /\ AbsTabs[a][i + 1] = r
             /\ r # REF_NULL =>
                   (FuncType[r] = ty <=> FuncType[r].rt1 = ty.rt1 /\ FuncType[r].rt2 = ty.rt2)
  <2>1. i + 1 \in 1 .. tab[a].len
    BY <1>2, <1>4
  <2>2. r \in Refs
    BY <1>2, <2>1, TabFacts
  <2>3. r # REF_NULL => FuncType[r] = [rt1 |-> FuncType[r].rt1, rt2 |-> FuncType[r].rt2]
    BY <2>2, TypesAssumption DEF Refs
  <2>4. ty = [rt1 |-> ty.rt1, rt2 |-> ty.rt2]
    BY TypesAssumption
  <2>5. r # REF_NULL =>
          (FuncType[r] = ty <=> FuncType[r].rt1 = ty.rt1 /\ FuncType[r].rt2 = ty.rt2)
    BY <2>3, <2>4, Zenon
  <2>6. QED
    BY <1>3, <2>1, <2>5
<1> HIDE DEF r
<1>5. CASE ~(i < tab[a].len)
  <2>1. i >= Len(AbsTabs[a])
    BY <1>2, <1>3, <1>5
  <2>2. QED
    BY <1>1, <1>3, <1>5, <2>1 DEF V!CallIndirect, V!Trap, V!Answer, Trapped
<1>6. CASE i < tab[a].len /\ r = REF_NULL
  <2>1. ~(i >= Len(AbsTabs[a]))
    BY <1>2, <1>3, <1>6
  <2>2. QED
    BY <1>1, <1>3, <1>4, <1>6, <2>1 DEF V!CallIndirect, V!Trap, V!Answer, Trapped
<1>7. CASE i < tab[a].len /\ r # REF_NULL
  <2>1. ~(i >= Len(AbsTabs[a]))
    BY <1>2, <1>3, <1>7
  <2>2. CASE FuncType[r] # ty
    BY <1>1, <1>3, <1>4, <1>7, <2>1, <2>2
       DEF V!CallIndirect, V!Trap, V!Answer, Trapped
  <2>3. CASE FuncType[r] = ty
    BY <1>1, <1>3, <1>4, <1>7, <2>1, <2>3
       DEF V!CallIndirect, V!Trap, V!Answer, Call
  <2>4. QED
    BY <2>2, <2>3
<1>8. QED
  BY <1>5, <1>6, <1>7

LEMMA DropAbs ==
    ASSUME TInv, job = Idle, NEW seg, ElemDrop(seg)
    PROVE  V!Drop(seg)
<1>1. /\ elems' = [elems EXCEPT ![seg] = <<>>] /\ out' = Done /\ tab' = tab /\ job' = job
  BY DEF ElemDrop
<1>2. AbsTabs' = AbsTabs
  BY <1>1, QuietAbs
<1>3. Busy' = FALSE
  BY <1>1 DEF Busy
<1>4. QED
  BY <1>1, <1>2, <1>3 DEF V!Drop, V!Answer, Done

LEMMA SetAbs ==
    ASSUME TInv, TInv', job = Idle, NEW x \in TableIdx, NEW i \in I32, NEW val \in Refs,
           TableSet(x, i, val)
    PROVE  IF i < Len(AbsTabs[TableAddr[x]])
           THEN V!Write(TableAddr[x], i, <<val>>, FALSE)
           ELSE V!OutOfBounds
<1> DEFINE b == TableAddr[x]
           v == <<val>>
<1>1. /\ b \in Addrs /\ tab[b].len \in Nat /\ i \in Nat
      /\ Len(AbsTabs[b]) = tab[b].len
  BY IndexAssumption, TabFacts, MappedOK, Numbers DEF Mapped
<1>2. elems' = elems /\ job' = Idle /\ Busy' = FALSE
  BY DEF TableSet, Busy
<1>3. CASE ~(i < tab[b].len)
  <2>1. tab' = tab /\ out' = OutOfBounds
    BY <1>3 DEF TableSet, Set, InTable, T
  <2>2. AbsTabs' = AbsTabs
    BY <1>2, <2>1, QuietAbs
  <2>3. QED
    BY <1>1, <1>2, <1>3, <2>1, <2>2 DEF V!OutOfBounds, V!Trap, V!Answer, OutOfBounds, Trapped
<1>4. CASE i < tab[b].len
  <2>1. tab' = [tab EXCEPT ![b].elem[i + 1] = val] /\ out' = Done
    BY <1>4 DEF TableSet, Set, InTable, T
  <2>2. /\ v \in Seq(Refs) /\ DOMAIN v = 1 .. 1 /\ v[1] = val /\ Len(v) = 1
    OBVIOUS
  <2> HIDE DEF v
  <2>3. DOMAIN tab = Addrs /\ tab[b] \in TableInsts /\ tab[b].elem \in Seq(Refs)
        /\ i + 1 \in 1 .. Len(tab[b].elem)
    <3>1. tab \in [Addrs -> TableInsts]
      BY DEF TInv, TypeOK
    <3>2. tab[b].elem \in Seq(Refs) /\ Len(tab[b].elem) \in Nat /\ tab[b].len <= Len(tab[b].elem)
      BY <1>1, TabFacts
    <3>3. QED
      BY <1>1, <1>4, <3>1, <3>2
  <2>4. /\ \A a \in Addrs \ {b} : tab'[a] = tab[a]
        /\ tab'[b].len = tab[b].len
        /\ \A k \in 1 .. tab[b].len :
              tab'[b].elem[k] = IF k = i + 1 THEN val ELSE tab[b].elem[k]
    <3>1. \A a \in Addrs \ {b} : tab'[a] = tab[a]
      BY <2>1, <2>3
    <3>2. tab'[b] = [tab[b] EXCEPT !.elem = [@ EXCEPT ![i + 1] = val]]
      BY <1>1, <2>1, <2>3
    <3>3. tab'[b].len = tab[b].len /\ tab'[b].elem = [tab[b].elem EXCEPT ![i + 1] = val]
      BY <2>3, <3>2 DEF TableInsts
    <3>4. \A k \in 1 .. tab[b].len : k \in 1 .. Len(tab[b].elem)
      BY <1>1, TabFacts
    <3>5. QED
      BY <2>3, <3>1, <3>3, <3>4
  <2>5. \A k \in 1 .. tab[b].len :
            /\ (k - i \in DOMAIN v <=> k = i + 1) /\ (k = i + 1 => v[k - i] = val)
    BY <1>1, <2>2
  <2>6. \A a, k : Eventual(a, k) = tab[a].elem[k] /\ Eventual(a, k)' = tab'[a].elem[k]
    BY <1>2 DEF Eventual
  <2>7. AbsTabs' = [AbsTabs EXCEPT ![b] =
                       [k \in DOMAIN @ |-> IF k - i \in DOMAIN v THEN v[k - i] ELSE @[k]]]
    <3>1. \A a \in Addrs : tab'[a].len = tab[a].len
      BY <2>4
    <3>2. \A a \in Addrs \ {b}, k \in Nat : Eventual(a, k)' = Eventual(a, k)
      BY <2>4, <2>6
    <3>3. \A k \in 1 .. tab[b].len :
              Eventual(b, k)' = IF k - i \in DOMAIN v THEN v[k - i] ELSE Eventual(b, k)
      BY <2>4, <2>5, <2>6
    <3>4. QED
      BY <1>1, <2>2, <3>1, <3>2, <3>3, WriteAbs, SMTT(40)
  <2>8. i + Len(v) <= Len(AbsTabs[b]) /\ i < Len(AbsTabs[b])
    BY <1>1, <1>4, <2>2
  <2>9. V!Write(b, i, v, FALSE)
    BY <1>2, <2>1, <2>7, <2>8 DEF V!Write, Done
  <2>10. QED
    BY <2>8, <2>9 DEF v
<1>5. QED
  BY <1>3, <1>4
\* Concatenation and subsequences, entry by entry.
LEMMA ConcatFacts ==
    ASSUME NEW S, NEW p \in Seq(S), NEW q \in Seq(S)
    PROVE  /\ p \o q \in Seq(S) /\ Len(p \o q) = Len(p) + Len(q)
           /\ \A k \in 1 .. Len(p) + Len(q) :
                 (p \o q)[k] = IF k <= Len(p) THEN p[k] ELSE q[k - Len(p)]
OBVIOUS

LEMMA SubSeqFacts ==
    ASSUME NEW S, NEW q \in Seq(S), NEW s \in Nat, NEW n \in Nat, s + n <= Len(q)
    PROVE  /\ SubSeq(q, s + 1, s + n) \in Seq(S) /\ Len(SubSeq(q, s + 1, s + n)) = n
           /\ \A k \in 1 .. n : SubSeq(q, s + 1, s + n)[k] = q[s + k]
OBVIOUS

\* table.grow puts the new entries behind those in use, not behind those
\* allocated, and fails without an effect.
LEMMA GrowAbs ==
    ASSUME TInv, TInv', WellBehaved, job = Idle, NEW x \in TableIdx, NEW n \in GrowArgs,
           NEW val \in Refs, TableGrow(x, n, val)
    PROVE  V!Grow(TableAddr[x], n, val)
<1> DEFINE b == TableAddr[x]
           t == tab[b]
           more == [k \in 1 .. n |-> val]
<1>1. /\ b \in Addrs /\ t \in TableInsts /\ t.elem \in Seq(Refs) /\ t.len \in Nat
      /\ Len(t.elem) \in Nat /\ t.len <= Len(t.elem) /\ Len(AbsTabs[b]) = t.len
  BY IndexAssumption, TabFacts, MappedOK DEF Mapped
<1>2. n \in Nat /\ Signed(n) = n
  BY ProgramAssumption, Numbers DEF WellBehaved, I32
<1>3. elems' = elems /\ job' = Idle /\ Busy' = FALSE
  BY DEF TableGrow, Busy
<1>4. CASE tab' = tab /\ out' = Num(-1)
  <2>1. AbsTabs' = AbsTabs
    BY <1>3, <1>4, QuietAbs
  <2>2. QED
    BY <1>3, <1>4, <2>1 DEF V!Grow, V!Answer, Num
<1>5. CASE /\ ~OverMax(t, n) /\ tab' = [tab EXCEPT ![b] = Grown(t, n, val)] /\ out' = Num(t.len)
  <2>1. Limits[b].has_max => t.len + n <= Limits[b].max
    <3>1. Limits[b].has_max => t.max = Limits[b].max /\ Limits[b].max # 0
      BY <1>1 DEF TInv, WellBehaved
    <3>2. Limits[b].has_max => Limits[b].max \in Nat
      BY <1>1, LimitsAssumption, WidthAssumption
    <3>3. QED
      BY <1>1, <1>2, <1>5, <3>1, <3>2 DEF OverMax
  <2>2. tab \in [Addrs -> TableInsts]
    BY DEF TInv, TypeOK
  <2>3. /\ tab'[b] = Grown(t, n, val) /\ \A a \in Addrs \ {b} : tab'[a] = tab[a]
    BY <1>1, <1>5, <2>2
  <2>4. /\ tab'[b].len = t.len + n
        /\ tab'[b].elem = [k \in 1 .. Len(t.elem) + n |-> IF k > t.len THEN val ELSE t.elem[k]]
    BY <1>1, <1>2, <2>3 DEF Grown, TableInsts
  <2>5. \A k \in 1 .. t.len + n :
            tab'[b].elem[k] = IF k > t.len THEN val ELSE t.elem[k]
    BY <1>1, <1>2, <2>4
  <2>6. /\ more \in Seq(Refs) /\ Len(more) = n /\ \A k \in 1 .. n : more[k] = val
    BY <1>2
  <2> HIDE DEF more
  <2>7. Mapped
    BY MappedOK
  <2>8. TInv' => Mapped'
    BY MappedOK, PTL
  <2>9. \A a, k : Eventual(a, k) = tab[a].elem[k] /\ Eventual(a, k)' = tab'[a].elem[k]
    BY <1>3 DEF Eventual
  <2> DEFINE w == AbsTabs[b] \o more
             G == [AbsTabs EXCEPT ![b] = w]
  <2>10. AbsTabs[b] \in Seq(Refs)
    BY <1>1, <2>7 DEF Mapped
  <2>11. /\ w \in Seq(Refs) /\ Len(w) = t.len + n
         /\ \A k \in 1 .. t.len + n :
               w[k] = IF k <= t.len THEN AbsTabs[b][k] ELSE more[k - t.len]
    <3>1. /\ w \in Seq(Refs) /\ Len(w) = Len(AbsTabs[b]) + Len(more)
          /\ \A k \in 1 .. Len(AbsTabs[b]) + Len(more) :
                w[k] = IF k <= Len(AbsTabs[b]) THEN AbsTabs[b][k] ELSE more[k - Len(AbsTabs[b])]
      BY <2>6, <2>10, ConcatFacts
    <3>2. QED
      BY <1>1, <2>6, <3>1
  <2>12. \A k \in 1 .. t.len + n : w[k] = tab'[b].elem[k]
    <3> SUFFICES ASSUME NEW k \in 1 .. t.len + n PROVE w[k] = tab'[b].elem[k]
      OBVIOUS
    <3>1. CASE k <= t.len
      <4>1. k \in 1 .. t.len
        BY <1>1, <1>2, <3>1
      <4>2. AbsTabs[b][k] = t.elem[k]
        BY <1>1, <2>7, <2>9, <4>1 DEF Mapped
      <4>3. QED
        BY <1>1, <1>2, <2>5, <2>11, <3>1, <4>2
    <3>2. CASE k > t.len
      <4>1. k - t.len \in 1 .. n /\ ~(k <= t.len)
        BY <1>1, <1>2, <3>2, SMTT(40)
      <4>2. QED
        BY <2>5, <2>6, <2>11, <3>2, <4>1
    <3>3. k <= t.len \/ k > t.len
      BY <1>1, <1>2
    <3>4. QED
      BY <3>1, <3>2, <3>3
  <2> HIDE DEF w
  <2>13. G \in [Addrs -> Seq(Refs)] /\ G[b] = w /\ \A a \in Addrs \ {b} : G[a] = AbsTabs[a]
    BY <1>1, <2>7, <2>11 DEF Mapped
  <2> HIDE DEF G
  <2>14. ASSUME NEW a \in Addrs
         PROVE  Len(AbsTabs'[a]) = Len(G[a]) /\ \A k \in 1 .. Len(AbsTabs'[a]) : AbsTabs'[a][k] = G[a][k]
    <3>1. Len(AbsTabs'[a]) = tab'[a].len /\ \A k \in 1 .. tab'[a].len : AbsTabs'[a][k] = tab'[a].elem[k]
      BY <2>8, <2>9 DEF Mapped
    <3>2. CASE a = b
      <4>1. Len(w) = tab'[b].len
        BY <2>4, <2>11
      <4>2. \A k \in 1 .. tab'[b].len : w[k] = tab'[b].elem[k]
        BY <2>4, <2>12
      <4>3. G[b] = w
        BY <2>13
      <4>4. QED
        BY <3>1, <3>2, <4>1, <4>2, <4>3, Zenon
    <3>3. CASE a # b
      <4>1. /\ G[a] = AbsTabs[a] /\ Len(AbsTabs[a]) = tab[a].len
            /\ \A k \in 1 .. tab[a].len : AbsTabs[a][k] = tab[a].elem[k]
        BY <2>7, <2>9, <2>13, <3>3 DEF Mapped
      <4>2. tab'[a] = tab[a]
        BY <2>3, <3>3
      <4>3. QED
        BY <3>1, <4>1, <4>2
    <3>4. QED
      BY <3>2, <3>3
  <2>15. AbsTabs' \in [Addrs -> Seq(Refs)]
    BY <2>8 DEF Mapped
  <2>16. AbsTabs' = G
    BY <2>13, <2>14, <2>15, SameVectors
  <2>17. AbsTabs' = [AbsTabs EXCEPT ![b] = @ \o [k \in 1 .. n |-> val]]
    BY <2>16 DEF G, w, more
  <2>18. QED
    BY <1>1, <1>3, <1>5, <2>1, <2>17 DEF V!Grow, V!Answer, Num
<1>6. QED
  <2>1. Len(t.elem) + n = 0 => n = 0
    BY <1>1, <1>2
  <2>2. \/ tab' = tab /\ out' = Num(-1)
        \/ /\ ~OverMax(t, n) /\ tab' = [tab EXCEPT ![b] = Grown(t, n, val)] /\ out' = Num(t.len)
    BY <1>2, <2>1 DEF TableGrow, T
  <2>3. QED
    BY <1>4, <1>5, <2>2

-----------------------------------------------------------------------------
(* Bulk instructions.                                                      *)

\* The first bounds check is the one of the vectors; what it lets through is
\* done at once.
LEMMA BulkAbs ==
    ASSUME TInv, TInv', job = Idle, NEW r \in Instrs, r.op \in {"fill", "copy", "init"},
           r.op = "fill" => r.d + r.n < W,
           TableBulk(r)
    PROVE  /\ r.op = "fill" => V!Fill(TableAddr[r.x], r.d, r.val, r.n)
           /\ r.op = "copy" => V!From(AbsTabs[TableAddr[r.y]], TableAddr[r.x], r.d, r.s, r.n)
           /\ r.op = "init" => V!From(elems[r.y], TableAddr[r.x], r.d, r.s, r.n)
<1> DEFINE b == TableAddr[r.x]
           j == Job(r)
<1>1. /\ j \in Jobs \ {Idle} /\ j.op = r.op /\ j.d = r.d /\ j.n = r.n /\ j.x = r.x
      /\ r.op = "fill" => j.val = r.val /\ r.val \in Refs
      /\ r.op # "fill" => j.s = r.s /\ j.y = r.y /\ r.s \in I32
      /\ r.op = "copy" => r.y \in TableIdx
      /\ r.op = "init" => r.y \in Segments
      /\ r.x \in TableIdx /\ r.d \in I32 /\ r.n \in I32
  BY ProgramAssumption, Numbers DEF Job, Jobs, Idle, Instrs, I32, Refs
<1>2. /\ r.d \in Nat /\ r.n \in Nat /\ (r.op # "fill" => r.s \in Nat)
  BY <1>1, Numbers
<1>3. /\ b \in Addrs /\ tab[b].len \in Nat /\ 2 * tab[b].len < W /\ Len(AbsTabs[b]) = tab[b].len
      /\ T(r.x) = tab[b]
  BY <1>1, IndexAssumption, TabFacts, MappedOK DEF Mapped, T
<1>4. tab' = tab /\ elems' = elems
  BY DEF TableBulk
<1>5. Mapped /\ \A a, k : Eventual(a, k) = tab[a].elem[k]
  BY MappedOK, IdleAbs DEF Eventual
<1> HIDE DEF j
<1>6. CASE ~Check(r)
  <2>1. job' = Idle /\ out' = OutOfBounds
    BY <1>6 DEF TableBulk, Loop
  <2>2. AbsTabs' = AbsTabs /\ Busy' = FALSE
    BY <1>4, <2>1, QuietAbs DEF Busy
  <2>3. V!OutOfBounds
    BY <1>4, <2>1, <2>2 DEF V!OutOfBounds, V!Trap, V!Answer, OutOfBounds, Trapped
  <2>4. CASE r.op = "fill"
    <3>1. ~(r.d + r.n <= tab[b].len)
      <4>1. r.d + r.n \in 0 .. W - 1
        BY <1>2, <2>4, WidthAssumption
      <4>2. (r.d + r.n) % W = r.d + r.n
        BY <4>1, Remainder, WidthAssumption
      <4>3. ~(2 * (r.d + r.n) < W /\ r.d + r.n <= tab[b].len)
        BY <1>3, <1>6, <2>4, <4>2 DEF Check
      <4>4. r.d + r.n <= tab[b].len => 2 * (r.d + r.n) < W
        BY <1>2, <1>3, WidthAssumption, SMTT(40)
      <4>5. QED
        BY <4>3, <4>4
    <3>2. QED
      BY <1>3, <2>3, <2>4, <3>1 DEF V!Fill
  <2>5. CASE r.op = "copy"
    <3>1. ~(r.s + r.n <= Len(AbsTabs[TableAddr[r.y]]) /\ r.d + r.n <= Len(AbsTabs[b]))
      BY <1>1, <1>3, <1>5, <1>6, <2>5, IndexAssumption DEF Check, T, Mapped
    <3>2. QED
      BY <2>3, <2>5, <3>1 DEF V!From
  <2>6. CASE r.op = "init"
    <3>1. ~(r.s + r.n <= Len(elems[r.y]) /\ r.d + r.n <= Len(AbsTabs[b]))
      BY <1>3, <1>6, <2>6 DEF Check
    <3>2. QED
      BY <2>3, <2>6, <3>1 DEF V!From
  <2>7. QED
    BY <2>4, <2>5, <2>6
<1>7. CASE Check(r)
  <2>1. job' = j /\ out' = Done /\ Busy' = TRUE
    <3>1. job' = j /\ out' = Done
      BY <1>7 DEF TableBulk, Loop, j
    <3>2. job' # Idle
      BY <1>1, <3>1
    <3>3. QED
      BY <3>1, <3>2 DEF Busy
  <2>2. job' # Idle /\ job'.d + job'.n <= tab[b].len
        /\ (r.op = "copy" => r.s + r.n <= T(r.y).len)
        /\ (r.op = "init" => r.s + r.n <= Len(elems[r.y]))
    BY <1>1, <1>3, <1>4, <2>1 DEF TInv, BulkStaysInBounds, T
  <2>3. r.d + r.n <= tab[b].len
    BY <1>1, <2>1, <2>2
  <2>4. \A a \in Addrs \ {b}, k \in Nat : Eventual(a, k)' = Eventual(a, k)
    BY <1>1, <1>4, <1>5, <2>1 DEF Eventual
  <2>5. \A k \in 1 .. tab[b].len : Eventual(b, k)' =
            IF k \in r.d + 1 .. r.d + r.n
            THEN CASE r.op = "fill" -> r.val
                   [] r.op = "copy" -> T(r.y).elem[r.s + (k - r.d)]
                   [] r.op = "init" -> elems[r.y][r.s + (k - r.d)]
            ELSE tab[b].elem[k]
    BY <1>1, <1>4, <2>1, <2>2 DEF Eventual, T
  <2>6. ASSUME NEW v \in Seq(Refs), Len(v) = r.n,
               \A k \in r.d + 1 .. r.d + r.n : Eventual(b, k)' = v[k - r.d]
        PROVE  V!Write(b, r.d, v, TRUE)
    <3>1. \A k \in 1 .. tab[b].len : k - r.d \in DOMAIN v <=> k \in r.d + 1 .. r.d + r.n
      BY <1>2, <2>6
    <3>2. \A k \in 1 .. tab[b].len :
              Eventual(b, k)' = IF k - r.d \in DOMAIN v THEN v[k - r.d] ELSE Eventual(b, k)
      BY <1>5, <2>5, <2>6, <3>1
    <3>3. \A a \in Addrs : tab'[a].len = tab[a].len
      BY <1>4
    <3>4. AbsTabs' = [AbsTabs EXCEPT ![b] =
                         [k \in DOMAIN @ |-> IF k - r.d \in DOMAIN v THEN v[k - r.d] ELSE @[k]]]
      <4>1. b \in Addrs /\ r.d \in Nat
        BY <1>2, <1>3
      <4> HIDE DEF b
      <4>2. QED
        BY <2>4, <3>2, <3>3, <4>1, WriteAbs, SMTT(20)
    <3>5. QED
      BY <1>3, <1>4, <2>1, <2>3, <2>6, <3>4 DEF V!Write, Done
  <2>7. CASE r.op = "fill"
    <3> DEFINE v == [k \in 1 .. r.n |-> r.val]
    <3>1. v \in Seq(Refs) /\ Len(v) = r.n /\ \A k \in 1 .. r.n : v[k] = r.val
      BY <1>1, <1>2, <2>7
    <3> HIDE DEF v
    <3>2. \A k \in r.d + 1 .. r.d + r.n : Eventual(b, k)' = v[k - r.d]
      <4>1. \A k \in r.d + 1 .. r.d + r.n : k \in 1 .. tab[b].len /\ k - r.d \in 1 .. r.n
        BY <1>2, <1>3, <2>3
      <4>2. QED
        BY <2>5, <2>7, <3>1, <4>1
    <3>3. V!Write(b, r.d, v, TRUE)
      BY <2>6, <3>1, <3>2
    <3>4. QED
      BY <1>3, <2>3, <2>7, <3>3 DEF V!Fill, v
  <2>8. ASSUME NEW src \in Seq(Refs), r.op # "fill", r.s + r.n <= Len(src),
               \A k \in r.d + 1 .. r.d + r.n : Eventual(b, k)' = src[r.s + (k - r.d)]
        PROVE  V!From(src, b, r.d, r.s, r.n)
    <3> DEFINE v == SubSeq(src, r.s + 1, r.s + r.n)
    <3>1. v \in Seq(Refs) /\ Len(v) = r.n /\ \A k \in 1 .. r.n : v[k] = src[r.s + k]
      BY <1>2, <2>8, SubSeqFacts, ZenonT(40)
    <3> HIDE DEF v
    <3>2. \A k \in r.d + 1 .. r.d + r.n : Eventual(b, k)' = v[k - r.d]
      <4>1. \A k \in r.d + 1 .. r.d + r.n : k - r.d \in 1 .. r.n
        BY <1>2
      <4>2. QED
        BY <2>8, <3>1, <4>1
    <3>3. V!Write(b, r.d, v, TRUE)
      BY <2>6, <3>1, <3>2
    <3>4. QED
      BY <1>3, <2>3, <2>8, <3>3 DEF V!From, v
  <2>9. \A k \in r.d + 1 .. r.d + r.n : k \in 1 .. tab[b].len
    BY <1>2, <1>3, <2>3
  <2>10. CASE r.op = "copy"
    <3> DEFINE c == TableAddr[r.y]
               src == AbsTabs[c]
    <3>1. /\ c \in Addrs /\ src \in Seq(Refs) /\ Len(src) = tab[c].len /\ T(r.y) = tab[c]
          /\ tab[c].len \in Nat
          /\ \A k \in 1 .. tab[c].len : src[k] = tab[c].elem[k]
      BY <1>1, <1>5, <2>10, IndexAssumption, TabFacts DEF Mapped, T
    <3> HIDE DEF src
    <3>2. r.s + r.n <= Len(src)
      BY <2>2, <2>10, <3>1
    <3>3. \A k \in r.d + 1 .. r.d + r.n : r.s + (k - r.d) \in 1 .. tab[c].len
      <4>1. /\ r.s \in Nat /\ r.n \in Nat /\ r.d \in Nat /\ tab[c].len \in Nat
            /\ r.s + r.n <= tab[c].len
        BY <1>2, <2>10, <3>1, <3>2
      <4>2. QED
        BY <4>1
    <3>4. \A k \in r.d + 1 .. r.d + r.n : Eventual(b, k)' = src[r.s + (k - r.d)]
      BY <2>5, <2>9, <2>10, <3>1, <3>3
    <3>5. V!From(src, b, r.d, r.s, r.n)
      BY <2>8, <2>10, <3>1, <3>2, <3>4
    <3>6. QED
      BY <2>10, <3>5 DEF src
  <2>11. CASE r.op = "init"
    <3>1. elems[r.y] \in Seq(Refs)
      BY <1>1, <2>11 DEF TInv, TypeOK
    <3>2. \A k \in r.d + 1 .. r.d + r.n : Eventual(b, k)' = elems[r.y][r.s + (k - r.d)]
      BY <2>5, <2>9, <2>11
    <3>3. QED
      BY <2>2, <2>8, <2>11, <3>1, <3>2
  <2>12. QED
    BY <2>7, <2>10, <2>11
<1>8. QED
  BY <1>6, <1>7
-----------------------------------------------------------------------------
(* The rounds of a loop.                                                   *)

\* What is left without its first or its last entry.
LEMMA LeftAfter ==
    ASSUME NEW d \in Nat, NEW n \in Nat \ {0}, NEW k \in Nat
    PROVE  /\ k \in (d + 1) + 1 .. (d + 1) + (n - 1) <=> k \in d + 1 .. d + n /\ k # d + 1
           /\ k \in d + 1 .. d + (n - 1) <=> k \in d + 1 .. d + n /\ k # d + n
OBVIOUS

\* Entries that are copied in the direction of d <= s are read before they are
\* written.
LEMMA ReadBeforeWritten ==
    ASSUME NEW d \in Nat, NEW s \in Nat, NEW n \in Nat \ {0}, NEW k \in d + 1 .. d + n
    PROVE  /\ d <= s /\ k # d + 1 => s + (k - d) # d + 1
           /\ s < d /\ k # d + n => s + (k - d) # d + n
OBVIOUS

\* A round writes entry p of what is left, with what it will hold, and takes p
\* out of what is left: what the loop will leave is as before.
LEMMA RoundAbs ==
    ASSUME TInv, TInv', job # Idle, job' # Idle, elems' = elems,
           job'.op = job.op, job'.x = job.x, job'.y = job.y, job'.val = job.val,
           NEW p \in job.d + 1 .. job.d + job.n,
           Set(job.x, p - 1, Eventual(TableAddr[job.x], p)),
           \A k \in Nat : k \in job'.d + 1 .. job'.d + job'.n <=>
                              k \in job.d + 1 .. job.d + job.n /\ k # p,
           job.op # "fill" => job'.s - job'.d = job.s - job.d,
           job.op = "copy" =>
               \A k \in job.d + 1 .. job.d + job.n : k # p => job.s + (k - job.d) # p
                   \/ ~(k \in job'.d + 1 .. job'.d + job'.n)
    PROVE  AbsTabs' = AbsTabs
<1> DEFINE b == TableAddr[job.x]
           val == Eventual(b, p)
           Left(k) == k \in job.d + 1 .. job.d + job.n
<1>1. /\ b \in Addrs /\ job.d \in Nat /\ job.n \in Nat /\ job.s \in Nat /\ p \in Nat \ {0}
      /\ job.op \in {"fill", "copy", "init"} /\ job.d + job.n <= tab[b].len
      /\ job'.d \in Nat /\ job'.n \in Nat /\ job'.s \in Nat
  <2>1. /\ b \in Addrs /\ job.d \in Nat /\ job.n \in Nat /\ job.s \in Nat
        /\ job.op \in {"fill", "copy", "init"} /\ job.d + job.n <= tab[b].len
    BY JobFacts DEF T
  <2>2. job' \in Jobs \ {Idle}
    BY DEF TInv, TypeOK
  <2>3. job'.d \in I32 /\ job'.s \in I32 /\ job'.n \in I32
    BY <2>2 DEF Jobs, Idle
  <2>4. QED
    BY <2>1, <2>3, Numbers
<1>2. /\ tab[b].len \in Nat /\ tab[b] \in TableInsts /\ tab[b].elem \in Seq(Refs)
      /\ Len(tab[b].elem) \in Nat /\ tab[b].len <= Len(tab[b].elem)
  BY <1>1, TabFacts
<1>3. tab \in [Addrs -> TableInsts]
  BY DEF TInv, TypeOK
<1> HIDE DEF val
<1>4. tab' = [tab EXCEPT ![b].elem[p] = val]
  <2>1. p - 1 < tab[b].len /\ (p - 1) + 1 = p
    <3>1. p \in Nat /\ p <= job.d + job.n
      BY <1>1
    <3>2. tab[b].len \in Nat /\ job.d + job.n <= tab[b].len /\ job.d + job.n \in Nat
      BY <1>1, <1>2, SMTT(40)
    <3> HIDE DEF b
    <3>3. QED
      BY <3>1, <3>2
  <2>2. QED
    BY <2>1 DEF Set, InTable, T, val
<1>5. /\ \A a \in Addrs \ {b} : tab'[a] = tab[a]
      /\ tab'[b].len = tab[b].len
      /\ \A k \in 1 .. tab[b].len : tab'[b].elem[k] = IF k = p THEN val ELSE tab[b].elem[k]
  <2>1. \A a \in Addrs \ {b} : tab'[a] = tab[a]
    BY <1>3, <1>4
  <2>2. tab'[b] = [tab[b] EXCEPT !.elem = [@ EXCEPT ![p] = val]]
    BY <1>1, <1>3, <1>4
  <2>3. tab'[b].len = tab[b].len /\ tab'[b].elem = [tab[b].elem EXCEPT ![p] = val]
    BY <1>2, <2>2 DEF TableInsts
  <2>4. \A k \in 1 .. tab[b].len : k \in 1 .. Len(tab[b].elem)
    BY <1>2
  <2>5. QED
    BY <1>2, <2>1, <2>3, <2>4
<1>6. ASSUME NEW a \in Addrs \ {b}, NEW k PROVE Eventual(a, k)' = Eventual(a, k)
  <2>1. Eventual(a, k) = tab[a].elem[k] /\ Eventual(a, k)' = tab'[a].elem[k]
    BY DEF Eventual
  <2>2. QED
    BY <1>5, <2>1
<1>7. ASSUME NEW k \in 1 .. tab[b].len PROVE Eventual(b, k)' = Eventual(b, k)
  <2>1. k \in Nat
    BY <1>2
  <2>2. CASE k = p
    <3>1. Eventual(b, k)' = tab'[b].elem[k]
      BY <2>1, <2>2 DEF Eventual
    <3>2. QED
      BY <1>5, <2>2, <3>1 DEF val
  <2>3. CASE ~Left(k)
    <3>1. Eventual(b, k)' = tab'[b].elem[k] /\ Eventual(b, k) = tab[b].elem[k] /\ k # p
      BY <2>1, <2>3 DEF Eventual
    <3>2. QED
      BY <1>5, <3>1
  <2>4. CASE Left(k) /\ k # p
    <3>1. k \in job'.d + 1 .. job'.d + job'.n
      BY <2>1, <2>4
    <3>2. CASE job.op = "fill"
      BY <2>4, <3>1, <3>2 DEF Eventual
    <3>3. CASE job.op = "init"
      <4>1. job'.s + (k - job'.d) = job.s + (k - job.d)
        BY <1>1, <2>1, <3>3
      <4>2. Eventual(b, k) = elems[job.y][job.s + (k - job.d)]
        BY <2>4, <3>3 DEF Eventual
      <4>3. Eventual(b, k)' = elems[job.y][job'.s + (k - job'.d)]
        BY <3>1, <3>3 DEF Eventual
      <4>4. QED
        BY <4>1, <4>2, <4>3
    <3>4. CASE job.op = "copy"
      <4> DEFINE c == TableAddr[job.y]
                 q == job.s + (k - job.d)
      <4>1. /\ job'.s + (k - job'.d) = q /\ q # p
            /\ c \in Addrs /\ job.s + job.n <= tab[c].len
        BY <1>1, <2>1, <2>4, <3>1, <3>4, JobFacts, SMTT(40) DEF T
      <4>2. q \in 1 .. tab[c].len
        <5>1. tab[c].len \in Nat
          BY <4>1, TabFacts
        <5>2. QED
          BY <1>1, <2>4, <4>1, <5>1
      <4>3. tab'[c].elem[q] = tab[c].elem[q]
        BY <1>5, <4>1, <4>2
      <4>4. Eventual(b, k) = tab[c].elem[q]
        BY <2>4, <3>4 DEF Eventual, T
      <4>5. Eventual(b, k)' = tab'[c].elem[q]
        BY <3>1, <3>4, <4>1 DEF Eventual, T
      <4>6. QED
        BY <4>3, <4>4, <4>5
    <3>5. QED
      BY <1>1, <3>2, <3>3, <3>4
  <2>5. QED
    BY <2>2, <2>3, <2>4
<1>8. \A a \in Addrs : tab'[a].len = tab[a].len /\
                       \A k \in 1 .. tab[a].len : Eventual(a, k)' = Eventual(a, k)
  BY <1>5, <1>6, <1>7
<1>9. QED
  BY <1>8 DEF AbsTabs

\* A round is no step of the vectors.
LEMMA StepAbs ==
    ASSUME RInv, TInv', job # Idle, job.n # 0, FillStep \/ CopyStep \/ InitStep
    PROVE  UNCHANGED V!tvars
<1> DEFINE b == TableAddr[job.x]
<1>1. TInv /\ instr = NULL /\ out = Done
  BY DEF RInv
<1>2. /\ job \in Jobs \ {Idle} /\ job.op \in {"fill", "copy", "init"}
      /\ job.x \in TableIdx /\ b \in Addrs /\ T(job.x) = tab[b]
      /\ job.d \in I32 /\ job.s \in I32 /\ job.n \in I32
      /\ job.d \in Nat /\ job.s \in Nat /\ job.n \in Nat \ {0}
      /\ job.d + job.n <= tab[b].len /\ tab[b].len \in Nat /\ 2 * tab[b].len < W /\ W \in Nat
  BY <1>1, JobFacts, TabFacts DEF T
<1>3. job' # Idle
  BY <1>1, RoundOK
<1>4. /\ job.op = "copy" => job.s + job.n <= T(job.y).len /\ 2 * T(job.y).len < W
                              /\ T(job.y).len \in Nat
      /\ job.op = "init" => job.s + job.n <= Len(elems[job.y]) /\ Len(elems[job.y]) < W
                              /\ Len(elems[job.y]) \in Nat
  <2>1. CASE job.op = "copy"
    BY <1>1, <2>1, JobFacts, TabFacts DEF T
  <2>2. CASE job.op = "init"
    <3>1. job.y \in Segments /\ job.s + job.n <= Len(elems[job.y])
      BY <1>1, <2>2, JobFacts
    <3>2. elems[job.y] \in Seq(Refs) /\ Len(elems[job.y]) < W
      BY <1>1, <3>1 DEF TInv, TypeOK
    <3>3. QED
      BY <2>2, <3>1, <3>2
  <2>3. QED
    BY <1>2, <2>1, <2>2
<1>5. /\ Wrap(job.n - 1) = job.n - 1 /\ Wrap(job.d + 1) = job.d + 1
      /\ Wrap(job.d + job.n - 1) = job.d + job.n - 1
      /\ job.op # "fill" => /\ Wrap(job.s + 1) = job.s + 1
                            /\ Wrap(job.s + job.n - 1) = job.s + job.n - 1
  <2>1. job.d + job.n < W
    BY <1>2
  <2>2. job.op = "copy" => job.s + job.n < W
    BY <1>2, <1>4
  <2>3. job.op = "init" => job.s + job.n < W
    BY <1>2, <1>4
  <2>4. QED
    BY <1>2, <2>1, <2>2, <2>3 DEF Wrap
<1>6. job.op = "copy" => Signed(job.d) = job.d /\ Signed(job.s) = job.s
  <2>1. job.op = "copy" => 2 * job.d < W /\ 2 * job.s < W
    BY <1>2, <1>4
  <2>2. QED
    BY <1>2, <2>1, Numbers
<1>7. ASSUME NEW d, NEW s, Again(d, s)
      PROVE  /\ out' = Done /\ job' = [job EXCEPT !.d = d, !.s = s, !.n = job.n - 1]
             /\ job'.d = d /\ job'.s = s /\ job'.n = job.n - 1
             /\ job'.op = job.op /\ job'.x = job.x /\ job'.y = job.y /\ job'.val = job.val
  <2>1. out' = Done /\ job' = [job EXCEPT !.d = d, !.s = s, !.n = job.n - 1]
    BY <1>3, <1>5, <1>7 DEF Again, Loop
  <2>2. QED
    BY <1>2, <2>1 DEF Jobs, Idle
<1>8. CASE FillStep
  <2>1. /\ job.op = "fill" /\ Set(job.x, job.d, job.val) /\ elems' = elems /\ instr' = instr
        /\ Again(job.d + 1, job.s)
    BY <1>2, <1>5, <1>8 DEF FillStep, InTable
  <2> DEFINE p == job.d + 1
  <2>2. p \in job.d + 1 .. job.d + job.n /\ p - 1 = job.d
    BY <1>2
  <2>3. Eventual(b, p) = job.val
    BY <1>2, <2>1, <2>2 DEF Eventual, Idle
  <2>4. AbsTabs' = AbsTabs
    <3>1. \A k \in Nat : k \in job'.d + 1 .. job'.d + job'.n <=>
                              k \in job.d + 1 .. job.d + job.n /\ k # p
      <4>1. job'.d = job.d + 1 /\ job'.n = job.n - 1
        BY <1>7, <2>1
      <4>2. QED
        BY <1>2, <4>1, LeftAfter
    <3> HIDE DEF p
    <3>2. QED
      BY <1>1, <1>3, <1>7, <2>1, <2>2, <2>3, <3>1, RoundAbs
  <2>5. QED
    BY <1>1, <1>3, <1>7, <2>1, <2>4 DEF V!tvars, Busy
<1>9. CASE InitStep
  <2>1. /\ job.op = "init" /\ Set(job.x, job.d, elems[job.y][job.s + 1]) /\ elems' = elems
        /\ instr' = instr /\ Again(job.d + 1, job.s + 1)
    BY <1>2, <1>5, <1>9 DEF InitStep
  <2> DEFINE p == job.d + 1
  <2>2. p \in job.d + 1 .. job.d + job.n /\ p - 1 = job.d /\ job.s + (p - job.d) = job.s + 1
    BY <1>2
  <2>3. Eventual(b, p) = elems[job.y][job.s + 1]
    BY <1>2, <2>1, <2>2 DEF Eventual, Idle
  <2>4. AbsTabs' = AbsTabs
    <3>1. /\ \A k \in Nat : k \in job'.d + 1 .. job'.d + job'.n <=>
                                k \in job.d + 1 .. job.d + job.n /\ k # p
          /\ job'.s - job'.d = job.s - job.d
      <4>1. job'.d = job.d + 1 /\ job'.s = job.s + 1 /\ job'.n = job.n - 1
        BY <1>7, <2>1
      <4>2. job'.s - job'.d = job.s - job.d
        BY <1>2, <4>1
      <4>3. QED
        BY <1>2, <4>1, <4>2, LeftAfter
    <3> HIDE DEF p
    <3>2. QED
      BY <1>1, <1>3, <1>7, <2>1, <2>2, <2>3, <3>1, RoundAbs
  <2>5. QED
    BY <1>1, <1>3, <1>7, <2>1, <2>4 DEF V!tvars, Busy
<1>10. CASE CopyStep
  <2>1. job.op = "copy" /\ elems' = elems /\ instr' = instr
    BY <1>10 DEF CopyStep
  <2>2. ASSUME NEW i \in 0 .. job.n - 1, Move(job.d + i, job.s + i),
               NEW d \in Nat, NEW s \in Nat, Again(d, s), d - job.d = s - job.s,
               \/ i = 0 /\ d = job.d + 1 /\ job.d <= job.s
               \/ i = job.n - 1 /\ d = job.d /\ job.s < job.d
        PROVE  AbsTabs' = AbsTabs
    <3> DEFINE p == job.d + i + 1
    <3>1. /\ p \in job.d + 1 .. job.d + job.n /\ p - 1 = job.d + i
          /\ job.s + (p - job.d) = job.s + i + 1
      BY <1>2
    <3>2. Eventual(b, p) = T(job.y).elem[job.s + i + 1]
      BY <1>2, <2>1, <3>1 DEF Eventual, Idle
    <3>3. /\ \A k \in Nat : k \in job'.d + 1 .. job'.d + job'.n <=>
                                k \in job.d + 1 .. job.d + job.n /\ k # p
          /\ job'.s - job'.d = job.s - job.d
          /\ \A k \in job.d + 1 .. job.d + job.n : k # p => job.s + (k - job.d) # p
      <4>1. job'.d = d /\ job'.s = s /\ job'.n = job.n - 1
        BY <1>7, <2>2
      <4>2. job'.s - job'.d = job.s - job.d
        BY <1>2, <2>2, <4>1
      <4>3. CASE i = 0 /\ d = job.d + 1 /\ job.d <= job.s
        <5>1. p = job.d + 1
          BY <1>2, <4>3
        <5>2. QED
          BY <1>2, <4>1, <4>2, <4>3, <5>1, LeftAfter, ReadBeforeWritten
      <4>4. CASE i = job.n - 1 /\ d = job.d /\ job.s < job.d
        <5>1. p = job.d + job.n
          BY <1>2, <4>4
        <5>2. QED
          BY <1>2, <4>1, <4>2, <4>4, <5>1, LeftAfter, ReadBeforeWritten
      <4>5. QED
        BY <2>2, <4>3, <4>4
    <3> HIDE DEF p
    <3>4. Set(job.x, p - 1, Eventual(b, p))
      BY <2>2, <3>1, <3>2 DEF Move
    <3>5. QED
      BY <1>1, <1>3, <1>7, <2>1, <2>2, <3>1, <3>3, <3>4, RoundAbs
  <2>3. CASE job.d <= job.s
    <3>1. Move(job.d + 0, job.s + 0) /\ Again(job.d + 1, job.s + 1)
      BY <1>2, <1>5, <1>6, <1>10, <2>1, <2>3 DEF CopyStep
    <3>2. 0 \in 0 .. job.n - 1 /\ (job.d + 1) - job.d = (job.s + 1) - job.s
          /\ job.d + 1 \in Nat /\ job.s + 1 \in Nat
      BY <1>2
    <3>3. AbsTabs' = AbsTabs
      BY <2>2, <2>3, <3>1, <3>2
    <3>4. QED
      BY <1>1, <1>3, <1>7, <2>1, <3>1, <3>3 DEF V!tvars, Busy
  <2>4. CASE job.s < job.d
    <3>1. Move(job.d + (job.n - 1), job.s + (job.n - 1)) /\ Again(job.d, job.s)
      <4>1. ~(Signed(job.d) <= Signed(job.s))
        BY <1>2, <1>6, <2>1, <2>4
      <4>2. /\ Move(Wrap(job.d + job.n - 1), Wrap(job.s + job.n - 1)) /\ Again(job.d, job.s)
        BY <1>10, <4>1 DEF CopyStep
      <4>3. /\ Wrap(job.d + job.n - 1) = job.d + (job.n - 1)
            /\ Wrap(job.s + job.n - 1) = job.s + (job.n - 1)
        BY <1>2, <1>5, <2>1
      <4>4. QED
        BY <4>2, <4>3
    <3>2. job.n - 1 \in 0 .. job.n - 1 /\ job.d - job.d = job.s - job.s
      BY <1>2
    <3>3. AbsTabs' = AbsTabs
      BY <1>2, <2>2, <2>4, <3>1, <3>2
    <3>4. QED
      BY <1>1, <1>3, <1>7, <2>1, <3>1, <3>3 DEF V!tvars, Busy
  <2>5. QED
    BY <1>2, <2>3, <2>4
<1>11. QED
  BY <1>8, <1>9, <1>10
-----------------------------------------------------------------------------
(* The theorem.                                                            *)

LEMMA InitAbs ==
    ASSUME Init
    PROVE  V!Init
<1>1. PICK junk \in Junk :
          tab = [a \in Addrs |->
                   AllocTable(a, IF Limits[a].has_max THEN Limits[a].max ELSE junk)]
  BY DEF Init
<1>2. job = Idle /\ instr = NULL /\ out = Done /\ elems = Content
  BY DEF Init
<1>3. ASSUME NEW a \in Addrs
      PROVE  [k \in 1 .. tab[a].len |-> Eventual(a, k)] = [k \in 1 .. Limits[a].min |-> REF_NULL]
  <2>1. /\ tab[a].len = Limits[a].min
        /\ tab[a].elem = [k \in 1 .. Limits[a].min |-> REF_NULL]
    BY <1>1 DEF AllocTable
  <2>2. \A k : Eventual(a, k) = tab[a].elem[k]
    BY <1>2 DEF Eventual
  <2>3. QED
    BY <2>1, <2>2
<1>4. AbsTabs = [a \in Addrs |-> [k \in 1 .. Limits[a].min |-> REF_NULL]]
  BY <1>3 DEF AbsTabs
<1>5. Busy = FALSE
  BY <1>2 DEF Busy
<1>6. QED
  BY <1>2, <1>4, <1>5 DEF V!Init, Done

LEMMA FetchAbs ==
    ASSUME RInv, NEW r \in Instrs, Fetch(r)
    PROVE  V!Begin
<1>1. /\ job = Idle /\ instr = NULL /\ instr' = r /\ out' = Done
      /\ tab' = tab /\ elems' = elems /\ job' = job
  BY DEF Fetch
<1>2. AbsTabs' = AbsTabs
  BY <1>1, QuietAbs DEF RInv
<1>3. ~Busy /\ Busy' = Busy
  BY <1>1 DEF Busy
<1>4. QED
  BY <1>1, <1>2, <1>3 DEF V!Begin, Done

LEMMA ExecuteAbs ==
    ASSUME RInv, TInv', WellBehaved, instr # NULL, Execute(instr)
    PROVE  V!Perform(instr)
<1>1. TInv /\ job = Idle /\ instr \in Instrs /\ instr' = NULL
  BY DEF RInv, TInv, TypeOK, Execute
<1>2. \A o \in Operands : o \in I32 /\ o \in Nat
  BY ProgramAssumption, Numbers DEF I32
<1>3. CASE instr.op = "get" /\ TableGet(instr.x, instr.i)
  <2>1. instr.x \in TableIdx /\ instr.i \in Nat
    BY <1>1, <1>2, <1>3 DEF Instrs
  <2>2. V!Get(TableAddr[instr.x], instr.i)
    BY <1>1, <1>3, <2>1, GetAbs
  <2>3. QED
    BY <1>1, <1>3, <2>2 DEF V!Perform
<1>4. CASE instr.op = "set" /\ TableSet(instr.x, instr.i, instr.val)
  <2>1. instr.x \in TableIdx /\ instr.i \in I32 /\ instr.val \in Refs
    BY <1>1, <1>2, <1>4 DEF Instrs
  <2>2. IF instr.i < Len(AbsTabs[TableAddr[instr.x]])
        THEN V!Write(TableAddr[instr.x], instr.i, <<instr.val>>, FALSE)
        ELSE V!OutOfBounds
    BY <1>1, <1>4, <2>1, SetAbs
  <2>3. QED
    BY <1>1, <1>4, <2>2 DEF V!Perform
<1>5. CASE instr.op = "size" /\ TableSize(instr.x)
  <2>1. instr.x \in TableIdx
    BY <1>1, <1>5 DEF Instrs
  <2>2. V!Size(TableAddr[instr.x])
    BY <1>1, <1>5, <2>1, SizeAbs
  <2>3. QED
    BY <1>1, <1>5, <2>2 DEF V!Perform
<1>6. CASE instr.op = "grow" /\ TableGrow(instr.x, instr.n, instr.val)
  <2>1. instr.x \in TableIdx /\ instr.n \in GrowArgs /\ instr.val \in Refs
    BY <1>1, <1>6 DEF Instrs
  <2>2. V!Grow(TableAddr[instr.x], instr.n, instr.val)
    BY <1>1, <1>6, <2>1, GrowAbs
  <2>3. QED
    BY <1>1, <1>6, <2>2 DEF V!Perform
<1>7. CASE instr.op \in {"fill", "copy", "init"} /\ TableBulk(instr)
  <2>1. instr.op = "fill" => instr.d + instr.n < W
    BY <1>1 DEF TInv, WellBehaved
  <2>2. /\ instr.op = "fill" => V!Fill(TableAddr[instr.x], instr.d, instr.val, instr.n)
        /\ instr.op = "copy" =>
              V!From(AbsTabs[TableAddr[instr.y]], TableAddr[instr.x], instr.d, instr.s, instr.n)
        /\ instr.op = "init" =>
              V!From(elems[instr.y], TableAddr[instr.x], instr.d, instr.s, instr.n)
    BY <1>1, <1>7, <2>1, BulkAbs
  <2>3. QED
    BY <1>1, <1>7, <2>2 DEF V!Perform
<1>8. CASE instr.op = "drop" /\ ElemDrop(instr.y)
  <2>1. V!Drop(instr.y)
    BY <1>1, <1>8, DropAbs
  <2>2. QED
    BY <1>1, <1>8, <2>1 DEF V!Perform
<1>9. CASE instr.op = "call" /\ TableCall(instr.x, instr.ty, instr.i)
  <2>1. instr.x \in TableIdx /\ instr.ty \in CallTypes /\ instr.i \in Nat
    BY <1>1, <1>2, <1>9 DEF Instrs
  <2>2. V!CallIndirect(TableAddr[instr.x], instr.ty, instr.i)
    BY <1>1, <1>9, <2>1, CallAbs
  <2>3. QED
    BY <1>1, <1>9, <2>2 DEF V!Perform
<1>10. QED
  BY <1>3, <1>4, <1>5, <1>6, <1>7, <1>8, <1>9 DEF Execute

\* With nothing left the tables are what the loop was to leave.
LEMMA EndAbs ==
    ASSUME RInv, BulkEnd
    PROVE  V!End
<1>1. /\ job # Idle /\ job.n = 0 /\ job' = Idle /\ tab' = tab
      /\ elems' = elems /\ instr' = instr /\ out' = out
  BY DEF BulkEnd
<1>2. job.d \in Nat
  BY <1>1, JobFacts DEF RInv
<1>3. job.d + 1 .. job.d + job.n = {}
  BY <1>1, <1>2
<1>4. \A a, k : Eventual(a, k) = tab[a].elem[k] /\ Eventual(a, k)' = tab[a].elem[k]
  BY <1>1, <1>3 DEF Eventual
<1>5. AbsTabs' = AbsTabs
  BY <1>1, <1>4 DEF AbsTabs
<1>6. Busy /\ Busy' = FALSE
  BY <1>1 DEF Busy
<1>7. QED
  BY <1>1, <1>5, <1>6 DEF V!End

LEMMA StepRefines ==
    ASSUME RInv, WellBehaved, [Next]_vars
    PROVE  RInv' /\ [V!Next]_(V!tvars)
<1>1. TInv /\ TInv' /\ (job' # Idle => instr' = NULL)
  BY StepOK DEF RInv
<1>2. CASE UNCHANGED vars
  <2>1. RInv'
    BY <1>1, <1>2 DEF RInv, vars
  <2>2. AbsTabs' = AbsTabs
    BY <1>1, <1>2, QuietAbs DEF vars
  <2>3. Busy' = Busy
    BY <1>2 DEF vars, Busy
  <2>4. QED
    BY <1>2, <2>1, <2>2, <2>3 DEF vars, V!tvars
<1>3. ASSUME NEW r \in Instrs, Fetch(r)
      PROVE  RInv' /\ V!Begin
  <2>1. job' = Idle
    BY <1>3 DEF Fetch
  <2>2. QED
    BY <1>1, <1>3, <2>1, FetchAbs DEF RInv
<1>4. CASE instr # NULL /\ Execute(instr)
  <2>1. V!Perform(instr)
    BY <1>1, <1>4, ExecuteAbs
  <2>2. job' # Idle => out' = Done
    <3>1. job = Idle
      BY <1>4 DEF RInv
    <3>2. QED
      BY <1>4, <3>1 DEF Execute, TableGet, TableSet, TableSize, TableGrow, ElemDrop, TableCall,
                        TableBulk, Loop, Answer
  <2>3. QED
    BY <1>1, <1>4, <2>1, <2>2 DEF RInv, V!Next
<1>5. CASE job # Idle /\ job.n # 0 /\ (FillStep \/ CopyStep \/ InitStep)
  <2>1. UNCHANGED V!tvars
    BY <1>1, <1>5, StepAbs
  <2>2. out' = Done
    BY <1>5, <2>1 DEF V!tvars, RInv
  <2>3. QED
    BY <1>1, <2>1, <2>2 DEF RInv
<1>6. CASE BulkEnd
  <2>1. V!End
    BY <1>6, EndAbs
  <2>2. job' = Idle
    BY <1>6 DEF BulkEnd
  <2>3. QED
    BY <1>1, <2>1, <2>2 DEF RInv, V!Next
<1>7. QED
  <2>1. FillStep \/ CopyStep \/ InitStep => job # Idle /\ job.n # 0
    BY DEF FillStep, CopyStep, InitStep, Idle
  <2>2. CASE \E r \in Instrs : Fetch(r)
    BY <1>3, <2>2 DEF V!Next
  <2>3. QED
    BY <1>2, <1>4, <1>5, <1>6, <2>1, <2>2 DEF Next, BulkStep

\* For every number of tables, every aliasing of their indices and every
\* well-behaved program, reallocated vectors, loops and operands that go over
\* the stack behave as sequences of references on which an instruction is one
\* step.
THEOREM TablesRefine ==
    ASSUME WellBehaved
    PROVE  Spec => ImplementsTableVectors
<1>1. Init => RInv /\ V!Init
  <2>1. Init => job = Idle
    BY DEF Init
  <2>2. QED
    BY <2>1, InitOK, InitAbs DEF RInv
<1>2. RInv /\ [Next]_vars => RInv' /\ [V!Next]_(V!tvars)
  BY StepRefines
<1>3. QED
  BY <1>1, <1>2, PTL DEF Spec, ImplementsTableVectors, V!Spec

=============================================================================
