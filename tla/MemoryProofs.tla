---------------------------- MODULE MemoryProofs ----------------------------
(***************************************************************************)
(* Proofs about the linear memory: its inductive invariant, and that for   *)
(* well-behaved programs it implements the flat memory.                    *)
(***************************************************************************)
EXTENDS MemoryRefinement, TLAPS

-----------------------------------------------------------------------------
(* Addresses and host pages.                                               *)

\* An address is its host page and its offset, and nothing else is.
LEMMA Address ==
    ASSUME NEW a \in Nat
    PROVE  /\ Vpn(a) \in Nat
           /\ Off(a) \in 0 .. HostPage - 1
           /\ a = HostPage * Vpn(a) + Off(a)
  BY SMT, SizeAssumption DEF Vpn, Off

LEMMA AddressType ==
    ASSUME NEW a \in I32
    PROVE  /\ a \in Nat
           /\ Vpn(a) \in HostPages
           /\ Off(a) \in 0 .. HostPage - 1
  BY Address, SizeAssumption DEF I32, HostPages

LEMMA SameAddress ==
    ASSUME NEW a \in Nat, NEW b \in Nat, Vpn(a) = Vpn(b), Off(a) = Off(b)
    PROVE  a = b
  BY Address

\* The bytes of an access that does not cross the end of a host page share it.
LEMMA WithinPage ==
    ASSUME NEW a \in Nat, NEW n \in Nat, ~Crosses(a, n), NEW k \in 0 .. n - 1
    PROVE  Vpn(a + k) = Vpn(a) /\ Off(a + k) = Off(a) + k
<1>1. /\ Vpn(a) \in Nat /\ Off(a) \in 0 .. HostPage - 1
      /\ a = HostPage * Vpn(a) + Off(a)
  BY Address
<1>2. Off(a) + k \in 0 .. HostPage - 1
  BY <1>1, SizeAssumption DEF Crosses
<1> DEFINE q == Vpn(a)
           r == Off(a) + k
           m == HostPage * q
<1>3. a + k = m + r
  <2>1. m \in Int
    BY <1>1, SizeAssumption
  <2> HIDE DEF m
  <2>2. a = m + Off(a)
    BY <1>1 DEF m
  <2>3. Off(a) \in Int /\ k \in Int
    BY <1>1, SizeAssumption
  <2>4. QED
    BY <2>1, <2>2, <2>3 DEF r
<1> HIDE DEF q, r
<1>4. q \in Nat /\ r \in 0 .. HostPage - 1
  BY <1>1, <1>2 DEF q, r
<1>5. (HostPage * q + r) \div HostPage = q /\ (HostPage * q + r) % HostPage = r
  BY <1>4, SMT, SizeAssumption
<1>6. QED
  BY <1>3, <1>5 DEF Vpn, Off, q, r, m


\* The page of an address, allocated or not.
LEMMA PageType ==
    ASSUME NEW t \in Tables, NEW a \in I32
    PROVE  Vpn(a) \in HostPages /\ PageAt(t, Vpn(a)) \in Page /\ ByteAt(t, a) \in Byte
<1>1. a \in Nat /\ Vpn(a) \in HostPages
  BY SizeAssumption DEF I32, HostPages
<1>2. NoPage \in Page
  BY ByteAssumption DEF NoPage, Page
<1>3. PageAt(t, Vpn(a)) \in Page
  BY <1>1, <1>2 DEF PageAt, Tables
<1>4. QED
  BY <1>1, <1>3, Address DEF ByteAt, Page

\* Writing one byte changes that byte only, and its host page is there.
LEMMA PokeByte ==
    ASSUME table \in Tables, NEW a \in I32, NEW b \in Byte
    PROVE  /\ Poke(a, b) \in Tables
           /\ \A c \in I32 : ByteAt(Poke(a, b), c) = IF c = a THEN b ELSE Peek(c)
<1> DEFINE p == [PageAt(table, Vpn(a)) EXCEPT ![Off(a)] = b]
           t == Poke(a, b)
<1>1. /\ a \in Nat /\ Vpn(a) \in HostPages /\ PageAt(table, Vpn(a)) \in Page
      /\ Off(a) \in 0 .. HostPage - 1
  BY PageType, Address, SizeAssumption DEF I32
<1>2. /\ p \in Page
      /\ \A o \in 0 .. HostPage - 1 : p[o] = IF o = Off(a) THEN b ELSE PageAt(table, Vpn(a))[o]
  BY <1>1 DEF Page
<1>3. t = [table EXCEPT ![Vpn(a)] = p]
  BY DEF Poke
<1> HIDE DEF p, t
<1>4. t \in Tables /\ t[Vpn(a)] = p /\ \A v \in HostPages \ {Vpn(a)} : t[v] = table[v]
  BY <1>1, <1>2, <1>3 DEF Tables
<1>5. ASSUME NEW c \in I32
      PROVE  ByteAt(t, c) = IF c = a THEN b ELSE Peek(c)
  <2>1. c \in Nat /\ Vpn(c) \in HostPages /\ Off(c) \in 0 .. HostPage - 1
    BY PageType, Address, SizeAssumption DEF I32
  <2>2. CASE Vpn(c) # Vpn(a)
    BY <2>1, <2>2, <1>4 DEF ByteAt, PageAt, Peek
  <2>3. CASE Vpn(c) = Vpn(a)
    <3>1. PageAt(t, Vpn(c)) = p
      BY <1>2, <1>4, <2>3, NullAssumption DEF PageAt
    <3>2. ByteAt(t, c) = IF Off(c) = Off(a) THEN b ELSE Peek(c)
      BY <1>2, <2>1, <2>3, <3>1 DEF ByteAt, Peek
    <3>3. Off(c) = Off(a) <=> c = a
      BY <2>1, <2>3, <1>1, SameAddress
    <3>4. QED
      BY <3>2, <3>3
  <2>4. QED
    BY <2>2, <2>3
<1>6. QED
  BY <1>4, <1>5 DEF t

\* Touching a page changes no byte.
LEMMA TouchByte ==
    ASSUME table \in Tables, NEW a \in I32
    PROVE  /\ Touch(a) \in Tables
           /\ \A c \in I32 : ByteAt(Touch(a), c) = Peek(c)
<1> DEFINE t == Touch(a)
           p == PageAt(table, Vpn(a))
<1>1. Vpn(a) \in HostPages /\ p \in Page
  BY PageType
<1>2. t = [table EXCEPT ![Vpn(a)] = p]
  BY DEF Touch
<1> HIDE DEF t
<1>3. t \in Tables /\ t[Vpn(a)] = p /\ \A v \in HostPages \ {Vpn(a)} : t[v] = table[v]
  BY <1>1, <1>2 DEF Tables
<1>4. ASSUME NEW c \in I32
      PROVE  PageAt(t, Vpn(c)) = PageAt(table, Vpn(c))
  BY <1>1, <1>3, PageType, NullAssumption DEF PageAt
<1>5. QED
  BY <1>3, <1>4 DEF t, ByteAt, Peek

\* A store within a host page writes its bytes and nothing else.
LEMMA PokeAllBytes ==
    ASSUME table \in Tables, NEW a \in I32, NEW n \in Nat, NEW v \in [1 .. n -> Byte],
           Len(v) = n, ~Crosses(a, n)
    PROVE  /\ PokeAll(a, v) \in Tables
           /\ \A c \in I32 : ByteAt(PokeAll(a, v), c) =
                  IF c \in a .. a + n - 1 THEN v[c - a + 1] ELSE Peek(c)
<1> DEFINE p == [o \in 0 .. HostPage - 1 |->
                    IF o - Off(a) \in 0 .. Len(v) - 1 THEN v[o - Off(a) + 1]
                    ELSE PageAt(table, Vpn(a))[o]]
           t == PokeAll(a, v)
<1>1. /\ a \in Nat /\ Vpn(a) \in HostPages /\ PageAt(table, Vpn(a)) \in Page
      /\ Off(a) \in 0 .. HostPage - 1
  BY PageType, Address, SizeAssumption DEF I32
<1>2. p \in Page
  <2>1. ASSUME NEW o \in 0 .. HostPage - 1
        PROVE  (IF o - Off(a) \in 0 .. Len(v) - 1 THEN v[o - Off(a) + 1]
                ELSE PageAt(table, Vpn(a))[o]) \in Byte
    <3>1. CASE o - Off(a) \in 0 .. Len(v) - 1
      <4>1. o - Off(a) + 1 \in 1 .. n
        BY <3>1, <1>1, SizeAssumption
      <4>2. QED
        BY <4>1, <3>1
    <3>2. CASE o - Off(a) \notin 0 .. Len(v) - 1
      BY <3>2, <1>1 DEF Page
    <3>3. QED
      BY <3>1, <3>2
  <2>2. QED
    BY <2>1 DEF Page
<1>3. \A o \in 0 .. HostPage - 1 :
          p[o] = IF o - Off(a) \in 0 .. n - 1 THEN v[o - Off(a) + 1]
                 ELSE PageAt(table, Vpn(a))[o]
  OBVIOUS
<1>4. t = [table EXCEPT ![Vpn(a)] = p]
  BY DEF PokeAll
<1> HIDE DEF p, t
<1>5. t \in Tables /\ t[Vpn(a)] = p /\ \A w \in HostPages \ {Vpn(a)} : t[w] = table[w]
  BY <1>1, <1>2, <1>4 DEF Tables
<1>6. ASSUME NEW c \in I32
      PROVE  ByteAt(t, c) = IF c \in a .. a + n - 1 THEN v[c - a + 1] ELSE Peek(c)
  <2>1. c \in Nat /\ Vpn(c) \in HostPages /\ Off(c) \in 0 .. HostPage - 1
    BY AddressType
  <2>2. CASE c \in a .. a + n - 1
    <3>1. c - a \in 0 .. n - 1 /\ c = a + (c - a)
      BY <2>2, <2>1, <1>1
    <3>2. Vpn(c) = Vpn(a) /\ Off(c) = Off(a) + (c - a)
      BY <3>1, <1>1, WithinPage
    <3>3. ByteAt(t, c) = p[Off(c)]
      BY <3>2, <1>2, <1>5, NullAssumption DEF ByteAt, PageAt
    <3>4. Off(c) - Off(a) = c - a
      BY <3>2, <1>1, <2>1
    <3>5. QED
      BY <1>3, <2>1, <2>2, <3>1, <3>3, <3>4
  <2>3. CASE c \notin a .. a + n - 1
    <3>1. CASE Vpn(c) # Vpn(a)
      BY <2>1, <2>3, <3>1, <1>5 DEF ByteAt, PageAt, Peek
    <3>2. CASE Vpn(c) = Vpn(a)
      <4>1. ByteAt(t, c) = p[Off(c)]
        BY <3>2, <1>2, <1>5, NullAssumption DEF ByteAt, PageAt
      <4>2. c - a = Off(c) - Off(a)
        <5> DEFINE m == HostPage * Vpn(a)
        <5>1. m \in Int
          BY <1>1, Address, SizeAssumption, SMTT(40)
        <5>2. a = m + Off(a) /\ c = m + Off(c)
          BY <3>2, <1>1, <2>1, Address
        <5> HIDE DEF m
        <5>3. QED
          BY <5>1, <5>2, <1>1, <2>1
      <4>3. Off(c) - Off(a) \notin 0 .. n - 1
        BY <4>2, <2>1, <2>3, <1>1
      <4>4. QED
        BY <1>3, <2>1, <2>3, <3>2, <4>1, <4>3 DEF ByteAt, Peek
    <3>3. QED
      BY <3>1, <3>2
  <2>4. QED
    BY <2>2, <2>3
<1>7. QED
  BY <1>5, <1>6 DEF t

\* A load within a host page returns the bytes of its addresses.
LEMMA PeekAllBytes ==
    ASSUME NEW a \in I32, NEW n \in Nat, ~Crosses(a, n), NEW junk
    PROVE  PeekAll(a, n, junk) = [k \in 1 .. n |-> Peek(a + k - 1)]
<1>1. a \in Nat /\ Off(a) \in 0 .. HostPage - 1
  BY Address, SizeAssumption DEF I32
<1>2. ASSUME NEW k \in 1 .. n
      PROVE  /\ Off(a) + k - 1 < HostPage
             /\ PageAt(table, Vpn(a))[Off(a) + k - 1] = Peek(a + k - 1)
  <2>1. k - 1 \in 0 .. n - 1 /\ a + (k - 1) = a + k - 1 /\ Off(a) + (k - 1) = Off(a) + k - 1
    BY <1>1
  <2>2. Vpn(a + k - 1) = Vpn(a) /\ Off(a + k - 1) = Off(a) + k - 1
    BY <2>1, <1>1, WithinPage
  <2>3. QED
    BY <2>2, <1>1, SizeAssumption DEF Crosses, Peek, ByteAt
<1>3. QED
  BY <1>2 DEF PeekAll

-----------------------------------------------------------------------------
(* The inductive invariant.                                                *)

\* Arithmetic of the bounds check: the size is a number below 2^32.
LEMMA SizeType ==
    ASSUME num_pages \in 0 .. NumPageMax
    PROVE  Size \in Nat /\ Size <= W
<1>1. /\ num_pages \in Nat /\ WasmPage \in Nat /\ NumPageMax \in Nat /\ W \in Nat
      /\ num_pages <= NumPageMax /\ NumPageMax * WasmPage <= W
  BY SizeAssumption
<1>2. num_pages * WasmPage \in Nat /\ num_pages * WasmPage <= NumPageMax * WasmPage
  BY <1>1, SMT
<1>3. NumPageMax * WasmPage \in Nat
  BY <1>1, SMT
<1>4. QED
  BY <1>1, <1>2, <1>3 DEF Size

\* The initial state satisfies the invariant.
LEMMA InitOK == Init => IInv
<1> SUFFICES ASSUME Init PROVE IInv
  OBVIOUS
<1>1. num_pages \in 0 .. NumPageMax /\ MaxPages \in Nat /\ MinPages \in Int
  BY SizeAssumption, LimitsAssumption DEF Init
<1>2. type \in [min : Int, max : Nat] /\ type.min = num_pages
      /\ (HasMax => type.max = MaxPages)
  BY <1>1, SizeAssumption DEF Init
<1>3. table \in Tables
  BY DEF Init, Tables
<1>4. TypeOK
  BY <1>1, <1>2, <1>3, ProgramAssumption DEF Init, TypeOK, Jobs, Outs
<1>5. QED
  BY <1>2, <1>4, LimitsAssumption
     DEF Init, IInv, BulkStaysInBounds, MinFollowsSize, SizeWithinMax

\* What a step that leaves the limits alone has to show.
LEMMA SameLimits ==
    ASSUME IInv, num_pages' = num_pages, type' = type, table' \in Tables,
           data' \in [Segments -> Seq(Byte)], job' \in Jobs, out' \in Outs,
           instr' \in Instrs \cup {NULL},
           BulkStaysInBounds'
    PROVE  IInv'
<1>1. TypeOK'
  BY DEF IInv, TypeOK
<1>2. MinFollowsSize' /\ SizeWithinMax' /\ (HasMax => type'.max = MaxPages)
  BY DEF IInv, MinFollowsSize, SizeWithinMax
<1>3. QED
  BY <1>1, <1>2 DEF IInv

\* Nothing is in progress.
LEMMA IdleOK == ASSUME job' = Idle PROVE BulkStaysInBounds' /\ job' \in Jobs
  BY DEF BulkStaysInBounds, Jobs

\* A load within the memory touches an address of it.
LEMMA EffectiveAddress ==
    ASSUME IInv, NEW i \in I32, NEW offset \in Offsets, NEW n \in Nat \ {0},
           InBounds(i + offset, n)
    PROVE  i + offset \in I32
<1>1. Size \in Nat /\ Size <= W /\ W \in Nat
  BY SizeType, SizeAssumption DEF IInv, TypeOK
<1>2. i \in Nat /\ offset \in Nat
  BY SizeAssumption, ProgramAssumption DEF I32
<1>3. QED
  BY <1>1, <1>2 DEF InBounds, I32

LEMMA LoadOK ==
    ASSUME IInv, NEW i \in I32, NEW offset \in Offsets, NEW n \in Widths,
           Load(i, offset, n), instr' = NULL
    PROVE  IInv'
<1> DEFINE ea == i + offset
<1>1. job' = Idle /\ num_pages' = num_pages /\ type' = type /\ data' = data
  BY DEF Load, Answer
<1>2. n \in Nat \ {0}
  BY ProgramAssumption
<1>3. CASE ~InBounds(ea, n)
  BY <1>1, <1>3, IdleOK, SameLimits DEF Load, Answer, IInv, TypeOK, Outs
<1>4. CASE InBounds(ea, n)
  <2>1. ea \in I32
    BY <1>2, <1>4, EffectiveAddress
  <2>2. table' \in Tables
    BY <1>4, <2>1, TouchByte DEF Load, IInv, TypeOK
  <2>3. PICK junk \in Byte : out' = Bytes(PeekAll(ea, n, junk))
    BY <1>4 DEF Load, Answer
  <2>4. PeekAll(ea, n, junk) \in Seq(Byte)
    <3>1. \A k \in 1 .. n : Off(ea) + k - 1 < HostPage => Off(ea) + k - 1 \in 0 .. HostPage - 1
      BY <2>1, AddressType, SizeAssumption, <1>2
    <3>2. PageAt(table, Vpn(ea)) \in Page
      BY <2>1, PageType DEF IInv, TypeOK
    <3>3. PeekAll(ea, n, junk) \in [1 .. n -> Byte]
      BY <3>1, <3>2 DEF PeekAll, Page
    <3>4. QED
      BY <3>3, <1>2
  <2>5. out' \in Outs
    BY <2>3, <2>4 DEF Outs, Bytes
  <2>6. QED
    BY <1>1, <2>2, <2>5, IdleOK, SameLimits DEF IInv, TypeOK
<1>5. QED
  BY <1>3, <1>4

LEMMA StoreOK ==
    ASSUME IInv, NEW i \in I32, NEW offset \in Offsets, NEW n \in Widths,
           NEW v \in [1 .. n -> Byte], Store(i, offset, v), instr' = NULL
    PROVE  IInv'
<1> DEFINE ea == i + offset
<1>1. /\ job' = Idle /\ num_pages' = num_pages /\ type' = type /\ data' = data
      /\ out' \in Outs
  BY DEF Store, Answer, Outs
<1>2. n \in Nat \ {0} /\ Len(v) = n
  BY ProgramAssumption
<1>3. CASE ~InBounds(ea, Len(v))
  BY <1>1, <1>3, IdleOK, SameLimits DEF Store, IInv, TypeOK
<1>4. CASE InBounds(ea, Len(v))
  <2>1. ea \in I32
    BY <1>2, <1>4, EffectiveAddress
  <2> DEFINE p == [o \in 0 .. HostPage - 1 |->
                      IF o - Off(ea) \in 0 .. Len(v) - 1 THEN v[o - Off(ea) + 1]
                      ELSE PageAt(table, Vpn(ea))[o]]
  <2>2. p \in Page
    <3>1. PageAt(table, Vpn(ea)) \in Page /\ Off(ea) \in 0 .. HostPage - 1
      BY <2>1, PageType, AddressType DEF IInv, TypeOK
    <3>2. \A o \in 0 .. HostPage - 1 :
             o - Off(ea) \in 0 .. n - 1 => o - Off(ea) + 1 \in 1 .. n
      BY <1>2, <3>1, SizeAssumption
    <3>3. QED
      BY <1>2, <3>1, <3>2 DEF Page
  <2>3. table' = [table EXCEPT ![Vpn(ea)] = p]
    BY <1>4 DEF Store, PokeAll
  <2> HIDE DEF p
  <2>4. table' \in Tables
    BY <2>2, <2>3 DEF IInv, TypeOK, Tables
  <2>5. QED
    BY <1>1, <2>4, IdleOK, SameLimits DEF IInv, TypeOK
<1>5. QED
  BY <1>3, <1>4

LEMMA GrowOK ==
    ASSUME IInv, NEW n \in GrowArgs, MemoryGrow(n), instr' = NULL
    PROVE  IInv'
<1> DEFINE total == num_pages + Signed(n)
<1>1. /\ job' = Idle /\ table' = table /\ data' = data
      /\ num_pages \in Nat /\ total \in Int /\ Signed(n) \in Int /\ NumPageMax \in Nat
  BY ProgramAssumption, SizeAssumption DEF MemoryGrow, IInv, TypeOK, Signed
<1>2. CASE num_pages' = num_pages /\ type' = type /\ out' = Num(-1)
  BY <1>1, <1>2, IdleOK, SameLimits DEF IInv, TypeOK, Outs, Num
<1>3. CASE /\ ~(total < 0) /\ ~(total > NumPageMax) /\ ~(type.max # 0 /\ total > type.max)
           /\ num_pages' = total
           /\ type' = [min |-> type.min + Signed(n), max |-> type.max]
           /\ out' = Num(num_pages)
  <2>1. total \in 0 .. NumPageMax /\ type.min = num_pages /\ type.max \in Nat
    BY <1>1, <1>3 DEF IInv, MinFollowsSize, TypeOK
  <2>2. TypeOK'
    BY <1>1, <1>3, <2>1, IdleOK DEF IInv, TypeOK, Outs, Num
  <2>3. MinFollowsSize' /\ SizeWithinMax' /\ (HasMax => type'.max = MaxPages)
    BY <1>1, <1>3, <2>1, LimitsAssumption DEF IInv, MinFollowsSize, SizeWithinMax
  <2>4. QED
    BY <1>1, <2>2, <2>3, IdleOK DEF IInv
<1>4. QED
  BY <1>2, <1>3 DEF MemoryGrow

LEMMA AskAndDropOK ==
    ASSUME IInv, MemorySize \/ \E seg \in Segments : DataDrop(seg), instr' = NULL
    PROVE  IInv'
<1>1. /\ job' = Idle /\ num_pages' = num_pages /\ type' = type /\ table' = table
      /\ out' \in Outs
  BY DEF MemorySize, DataDrop, Answer, Outs, Num, IInv, TypeOK
<1>2. data' \in [Segments -> Seq(Byte)]
  <2>1. data \in [Segments -> Seq(Byte)]
    BY DEF IInv, TypeOK
  <2>2. CASE data' = data
    BY <2>1, <2>2
  <2>3. ASSUME NEW seg \in Segments, data' = [data EXCEPT ![seg] = <<>>]
        PROVE  data' \in [Segments -> Seq(Byte)]
    BY <2>1, <2>3
  <2>4. QED
    BY <2>2, <2>3 DEF MemorySize, DataDrop
<1>3. QED
  BY <1>1, <1>2, IdleOK, SameLimits DEF IInv, TypeOK

\* The fields of the instruction in progress.
LEMMA JobFields ==
    ASSUME IInv, job # Idle
    PROVE  /\ job.op \in {"fill", "copy", "init"}
           /\ job.d \in I32 /\ job.d \in Nat
           /\ job.s \in Nat
           /\ job.n \in I32 /\ job.n \in Nat
           /\ job.val \in Byte
           /\ job.op = "init" => job.seg \in Segments
           /\ job.op # "init" => job.seg = NULL
           /\ InBounds(job.d, job.n)
           /\ job.op = "copy" => job.s \in I32 /\ InBounds(job.s, job.n)
           /\ job.op = "init" => job.s + job.n <= Len(data[job.seg])
           /\ Size \in Nat /\ Size <= W /\ W \in Nat
  BY SizeType, SizeAssumption DEF IInv, TypeOK, Jobs, I32, BulkStaysInBounds

\* A bulk instruction has a type whatever its operands.
LEMMA JobType ==
    ASSUME NEW d \in I32, NEW s \in Nat, NEW n \in I32, NEW val \in Byte
    PROVE  /\ Job("fill", d, s, n, val, NULL) \in Jobs
           /\ Job("copy", d, s, n, val, NULL) \in Jobs
           /\ \A seg \in Segments : Job("init", d, s, n, val, seg) \in Jobs
  BY DEF Job, Jobs

\* Starting a bulk instruction.
LEMMA BeginOK ==
    ASSUME IInv, NEW d \in I32, NEW s \in I32, NEW n \in I32,
           \/ \E val \in Byte : MemoryFill(d, val, n)
           \/ MemoryCopy(d, s, n)
           \/ \E seg \in Segments : MemoryInit(seg, d, s, n),
           instr' = NULL
    PROVE  IInv'
<1>1. /\ num_pages' = num_pages /\ type' = type /\ table' = table /\ data' = data
      /\ out' \in Outs /\ Size' = Size
  BY DEF MemoryFill, MemoryCopy, MemoryInit, Begin, Outs, Size
<1>2. s \in Nat /\ I32 \subseteq Nat
  BY SizeAssumption DEF I32
<1>3. CASE job' = Idle
  BY <1>1, <1>3, IdleOK, SameLimits DEF IInv, TypeOK
<1>4. ASSUME NEW val \in Byte, InBounds(d, n), job' = Job("fill", d, 0, n, val, NULL)
      PROVE  IInv'
  <2>1. BulkStaysInBounds'
    BY <1>1, <1>4 DEF BulkStaysInBounds, InBounds, Job
  <2>2. QED
    BY <1>1, <1>4, <2>1, JobType, SameLimits DEF IInv, TypeOK
<1>5. ASSUME InBounds(s, n), InBounds(d, n), job' = Job("copy", d, s, n, Zero, NULL)
      PROVE  IInv'
  <2>1. BulkStaysInBounds'
    BY <1>1, <1>5 DEF BulkStaysInBounds, InBounds, Job
  <2>2. QED
    BY <1>1, <1>2, <1>5, <2>1, JobType, SameLimits, ByteAssumption DEF IInv, TypeOK
<1>6. ASSUME NEW seg \in Segments, s + n <= Len(data[seg]), InBounds(d, n),
             job' = Job("init", d, s, n, Zero, seg)
      PROVE  IInv'
  <2>1. BulkStaysInBounds'
    BY <1>1, <1>6 DEF BulkStaysInBounds, InBounds, Job
  <2>2. QED
    BY <1>1, <1>2, <1>6, <2>1, JobType, SameLimits, ByteAssumption DEF IInv, TypeOK
<1>7. QED
  BY <1>3, <1>4, <1>5, <1>6 DEF MemoryFill, MemoryCopy, MemoryInit, Begin

\* The counters of a loop whose remaining range is in bounds.
LEMMA Counting ==
    ASSUME NEW a \in I32, NEW n \in I32, n # 0, NEW size \in Nat, size <= W, a + n <= size
    PROVE  /\ Wrap(n - 1) = n - 1 /\ n - 1 \in I32
           /\ Wrap(a + 1) \in I32
           /\ n - 1 # 0 => Wrap(a + 1) = a + 1
           /\ Wrap(a + 1) + (n - 1) <= size
           /\ Wrap(a + n - 1) = a + n - 1 /\ a + n - 1 \in I32 /\ a + n - 1 < size
           /\ a < size
  BY SizeAssumption DEF Wrap, I32

LEMMA Counters ==
    ASSUME IInv, job # Idle, job.n # 0
    PROVE  /\ Wrap(job.n - 1) = job.n - 1 /\ job.n - 1 \in I32
           /\ Wrap(job.d + 1) \in I32
           /\ job.n - 1 # 0 => Wrap(job.d + 1) = job.d + 1
           /\ Wrap(job.d + 1) + (job.n - 1) <= Size
           /\ Wrap(job.d + job.n - 1) = job.d + job.n - 1
           /\ job.d + job.n - 1 \in I32 /\ job.d + job.n - 1 < Size
           /\ job.d < Size
           /\ job.op = "copy" =>
                 /\ Wrap(job.s + 1) \in I32
                 /\ job.n - 1 # 0 => Wrap(job.s + 1) = job.s + 1
                 /\ Wrap(job.s + 1) + (job.n - 1) <= Size
                 /\ Wrap(job.s + job.n - 1) = job.s + job.n - 1
                 /\ job.s + job.n - 1 \in I32 /\ job.s + job.n - 1 < Size
                 /\ job.s < Size
<1>1. /\ job.d \in I32 /\ job.n \in I32 /\ Size \in Nat /\ Size <= W
      /\ job.d + job.n <= Size
      /\ job.op = "copy" => job.s \in I32 /\ job.s + job.n <= Size
  BY JobFields DEF InBounds
<1>2. QED
  BY <1>1, Counting

\* The nested store never fails.
LEMMA StoreByte ==
    ASSUME IInv, NEW a \in I32, a < Size, NEW b \in Byte, Store8(a, b)
    PROVE  /\ table' \in Tables
           /\ \A c \in I32 : ByteAt(table', c) = IF c = a THEN b ELSE Peek(c)
<1>1. InBounds(a, 1)
  BY SizeType, SizeAssumption DEF InBounds, I32, IInv, TypeOK
<1>2. QED
  BY <1>1, PokeByte DEF Store8, IInv, TypeOK

\* Moving on to the next byte.
LEMMA AdvanceOK ==
    ASSUME IInv, job # Idle, job.n # 0, table' \in Tables,
           NEW d \in I32, NEW s \in Nat,
           Advance(d, s),
           d + (job.n - 1) <= Size,
           job.op = "copy" => s \in I32 /\ s + (job.n - 1) <= Size,
           job.op = "init" => s + (job.n - 1) <= Len(data[job.seg])
    PROVE  IInv'
<1>1. /\ num_pages' = num_pages /\ type' = type /\ data' = data /\ out' = out
      /\ Size' = Size /\ instr' = instr
      /\ job' = Job(job.op, d, s, job.n - 1, job.val, job.seg)
  BY Counters DEF Advance, Size
<1>2. /\ job.op \in {"fill", "copy", "init"} /\ job.n - 1 \in I32 /\ job.val \in Byte
      /\ job.op = "init" => job.seg \in Segments
      /\ job.op # "init" => job.seg = NULL
  BY JobFields, Counters
<1>3. job' \in Jobs
  BY <1>1, <1>2, JobType
<1>4. /\ job'.op = job.op /\ job'.d = d /\ job'.s = s /\ job'.n = job.n - 1
      /\ job'.seg = job.seg
  BY <1>1 DEF Job
<1>5. BulkStaysInBounds'
  BY <1>1, <1>4 DEF BulkStaysInBounds, InBounds
<1>6. QED
  BY <1>1, <1>3, <1>5, SameLimits DEF IInv, TypeOK

LEMMA FillOK == ASSUME IInv, FillStep PROVE IInv'
<1>1. job # Idle /\ job.n # 0 /\ job.op = "fill"
  BY DEF FillStep, Idle
<1>2. table' \in Tables
  BY <1>1, StoreByte, JobFields, Counters DEF FillStep
<1>3. QED
  BY <1>1, <1>2, JobFields, Counters, AdvanceOK DEF FillStep

LEMMA InitStepOK == ASSUME IInv, InitStep PROVE IInv'
<1>1. job # Idle /\ job.n # 0 /\ job.op = "init"
  BY DEF InitStep, Idle
<1>2. /\ job.s \in Nat /\ job.n \in Nat /\ job.seg \in Segments
      /\ job.s + job.n <= Len(data[job.seg])
  BY <1>1, JobFields
<1>3. data[job.seg] \in Seq(Byte)
  BY <1>2 DEF IInv, TypeOK
<1>4. job.s + 1 \in 1 .. Len(data[job.seg]) /\ job.s + 1 + (job.n - 1) <= Len(data[job.seg])
  BY <1>1, <1>2, <1>3
<1>5. data[job.seg][job.s + 1] \in Byte
  BY <1>3, <1>4
<1>6. table' \in Tables
  BY <1>1, <1>5, StoreByte, JobFields, Counters DEF InitStep
<1>7. Advance(Wrap(job.d + 1), job.s + 1) /\ job.s + 1 \in Nat
  BY <1>2 DEF InitStep
<1>8. QED
  BY <1>1, <1>4, <1>6, <1>7, Counters, AdvanceOK

LEMMA PeekType == ASSUME table \in Tables, NEW a \in I32 PROVE Peek(a) \in Byte
  BY AddressType, PageType DEF Peek, ByteAt, Page

LEMMA CopyOK == ASSUME IInv, CopyStep PROVE IInv'
<1>1. job # Idle /\ job.n # 0 /\ job.op = "copy"
  BY DEF CopyStep, Idle
<1>2. table \in Tables
  BY DEF IInv, TypeOK
<1>3. /\ job.d \in I32 /\ job.s \in I32 /\ job.s \in Nat /\ job.n \in Nat
      /\ job.d + job.n <= Size /\ job.s + job.n <= Size /\ Size \in Nat
      /\ job.d \in Nat
  BY <1>1, JobFields DEF InBounds
<1>4. CASE Signed(job.d) <= Signed(job.s)
  <2>1. Store8(job.d, Peek(job.s)) /\ Advance(Wrap(job.d + 1), Wrap(job.s + 1))
    BY <1>4 DEF CopyStep
  <2>2. table' \in Tables
    BY <1>1, <1>2, <1>3, <2>1, PeekType, StoreByte, Counters
  <2>3. Wrap(job.s + 1) \in Nat
    BY <1>1, Counters, SizeAssumption DEF I32
  <2>4. QED
    BY <1>1, <2>1, <2>2, <2>3, Counters, AdvanceOK
<1>5. CASE ~(Signed(job.d) <= Signed(job.s))
  <2>1. /\ Store8(job.d + job.n - 1, Peek(job.s + job.n - 1))
        /\ Advance(job.d, job.s)
    BY <1>1, <1>5, Counters DEF CopyStep
  <2>2. table' \in Tables
    BY <1>1, <1>2, <2>1, PeekType, StoreByte, Counters
  <2>3. job.d + (job.n - 1) <= Size /\ job.s + (job.n - 1) <= Size
    BY <1>3
  <2>4. QED
    BY <1>1, <1>3, <2>1, <2>2, <2>3, AdvanceOK
<1>6. QED
  BY <1>4, <1>5

LEMMA BulkEndOK == ASSUME IInv, BulkEnd PROVE IInv'
<1>1. /\ num_pages' = num_pages /\ type' = type /\ table' = table /\ data' = data
      /\ out' = out /\ job' = Idle /\ instr' = instr
  BY DEF BulkEnd
<1>2. QED
  BY <1>1, IdleOK, SameLimits DEF IInv, TypeOK

LEMMA FetchOK == ASSUME IInv, NEW r \in Instrs, Fetch(r) PROVE IInv'
<1>1. /\ num_pages' = num_pages /\ type' = type /\ table' = table /\ data' = data
      /\ out' \in Outs /\ job' = Idle /\ instr' \in Instrs
  BY DEF Fetch, Outs
<1>2. QED
  BY <1>1, IdleOK, SameLimits DEF IInv, TypeOK

LEMMA ExecuteOK == ASSUME IInv, instr # NULL, Execute(instr) PROVE IInv'
<1> DEFINE r == instr
<1>1. r \in Instrs /\ instr' = NULL
  BY DEF IInv, TypeOK, Execute
<1>2. Operands \subseteq I32 /\ Zero \in Byte
  BY ProgramAssumption, ByteAssumption DEF I32
<1>3. CASE r.op = "load" /\ Load(r.i, r.offset, r.n)
  <2>1. r.i \in I32 /\ r.offset \in Offsets /\ r.n \in Widths
    BY <1>1, <1>2, <1>3 DEF Instrs
  <2>2. QED
    BY <1>1, <1>3, <2>1, LoadOK
<1>4. CASE r.op = "store" /\ Store(r.i, r.offset, r.v)
  <2>1. /\ r.i \in I32 /\ r.offset \in Offsets
        /\ \E n \in Widths : r.v \in [1 .. n -> Byte]
    BY <1>1, <1>2, <1>4 DEF Instrs
  <2>2. QED
    BY <1>1, <1>4, <2>1, StoreOK
<1>5. CASE r.op = "size" /\ MemorySize
  BY <1>1, <1>5, AskAndDropOK
<1>6. CASE r.op = "grow" /\ MemoryGrow(r.n)
  <2>1. r.n \in GrowArgs
    BY <1>1, <1>6 DEF Instrs
  <2>2. QED
    BY <1>1, <1>6, <2>1, GrowOK
<1>7. CASE r.op = "drop" /\ DataDrop(r.seg)
  <2>1. r.seg \in Segments
    BY <1>1, <1>7 DEF Instrs
  <2>2. QED
    BY <1>1, <1>7, <2>1, AskAndDropOK
<1>8. CASE r.op = "fill" /\ MemoryFill(r.d, r.val, r.n)
  <2>1. r.d \in I32 /\ r.val \in Byte /\ r.n \in I32
    BY <1>1, <1>2, <1>8 DEF Instrs
  <2>2. QED
    BY <1>1, <1>8, <2>1, BeginOK
<1>9. CASE r.op = "copy" /\ MemoryCopy(r.d, r.s, r.n)
  <2>1. r.d \in I32 /\ r.s \in I32 /\ r.n \in I32
    BY <1>1, <1>2, <1>9 DEF Instrs
  <2>2. QED
    BY <1>1, <1>9, <2>1, BeginOK
<1>10. CASE r.op = "init" /\ MemoryInit(r.seg, r.d, r.s, r.n)
  <2>1. r.d \in I32 /\ r.s \in I32 /\ r.n \in I32 /\ r.seg \in Segments
    BY <1>1, <1>2, <1>10 DEF Instrs
  <2>2. QED
    BY <1>1, <1>10, <2>1, BeginOK
<1>11. QED
  BY <1>3, <1>4, <1>5, <1>6, <1>7, <1>8, <1>9, <1>10 DEF Execute

LEMMA StepOK == ASSUME IInv, [Next]_vars PROVE IInv'
<1>1. ASSUME NEW r \in Instrs, Fetch(r) PROVE IInv'
  BY <1>1, FetchOK
<1>2. CASE instr # NULL /\ Execute(instr)
  BY <1>2, ExecuteOK
<1>3. CASE BulkStep
  BY <1>3, FillOK, CopyOK, InitStepOK, BulkEndOK DEF BulkStep
<1>4. CASE UNCHANGED vars
  BY <1>4, IdleOK, SameLimits DEF vars, IInv, TypeOK, BulkStaysInBounds, InBounds, Size
<1>5. QED
  BY <1>1, <1>2, <1>3, <1>4 DEF Next

-----------------------------------------------------------------------------

\* The inductive invariant of the memory holds in every run, for every size of
\* address, host page and WebAssembly page: what memory.grow, the loads and
\* stores and the loops of the bulk instructions keep true together.
THEOREM Invariant == Spec => []IInv
  BY InitOK, StepOK, PTL DEF Spec

\* num_pages never leaves 0 .. NUM_PAGE_MAX and the page table only ever holds
\* whole pages of bytes, whatever memory.grow is given.
THEOREM TypeCorrect == Spec => []TypeOK
<1>1. IInv => TypeOK
  BY DEF IInv
<1>2. QED
  BY <1>1, Invariant, PTL

\* The one bounds check of memory.fill, memory.copy and memory.init covers every
\* access of its loop, so the errors of nested stores that exec_expr ignores
\* never arise.
THEOREM BulkInBounds == Spec => []BulkStaysInBounds
<1>1. IInv => BulkStaysInBounds
  BY DEF IInv
<1>2. QED
  BY <1>1, Invariant, PTL

\* A memory never outgrows a declared maximum other than 0.
THEOREM WithinMax == Spec => []SizeWithinMax
<1>1. IInv => SizeWithinMax
  BY DEF IInv
<1>2. QED
  BY <1>1, Invariant, PTL

-----------------------------------------------------------------------------
(* The refinement: instructions of one step.                               *)

\* Host pages that have not been touched, and bytes between the end of the
\* memory and the end of its last host page, are zeros for memory.grow to find.
ZeroBeyond == \A a \in I32 : a >= Size => Peek(a) = Zero

\* A bulk instruction runs only between two others and has not trapped; the
\* program does not access bytes across the end of a host page.
RInv ==
    /\ IInv
    /\ ZeroBeyond
    /\ job # Idle => instr = NULL /\ out = Done
    /\ instr # NULL => ~Crossing(instr)

LEMMA SizeBound == IInv => Size \in Nat /\ Size <= W /\ W \in Nat /\ table \in Tables
  BY SizeType, SizeAssumption DEF IInv, TypeOK

LEMMA InMemory ==
    ASSUME IInv, NEW a \in 0 .. Size - 1
    PROVE  a \in I32 /\ a \in Nat
  BY SizeBound DEF I32

LEMMA FlatAddrs == F!Addrs(num_pages) = 0 .. Size - 1
  BY DEF F!Addrs, Size

\* The bytes that the mapping shows when no loop runs.
LEMMA IdleAbs ==
    ASSUME job = Idle
    PROVE  AbsMem = [a \in 0 .. Size - 1 |-> Peek(a)]
  BY DEF AbsMem, Eventual

\* Without a loop, and when no byte changes, the flat memory does not either.
LEMMA QuietAbs ==
    ASSUME IInv, Size' = Size, job = Idle, job' = Idle,
           \A c \in I32 : ByteAt(table', c) = Peek(c)
    PROVE  AbsMem' = AbsMem
<1>1. AbsMem' = [a \in 0 .. Size - 1 |-> ByteAt(table', a)]
  BY DEF AbsMem, Eventual, Peek, ByteAt, PageAt
<1>2. \A a \in 0 .. Size - 1 : ByteAt(table', a) = Peek(a)
  BY InMemory
<1>3. QED
  BY <1>1, <1>2, IdleAbs

LEMMA SameTable == \A c \in I32 : table' = table => ByteAt(table', c) = Peek(c)
  BY DEF Peek

\* No instruction but memory.grow moves the end of the memory, and none writes
\* beyond it.
KeepsBeyond ==
    num_pages' = num_pages /\ \A c \in I32 : c >= Size => ByteAt(table', c) = Peek(c)

\* An instruction that traps or only answers.
LEMMA AnswerAbs ==
    ASSUME IInv, job = Idle, job' = Idle, num_pages' = num_pages, table' = table
    PROVE  AbsMem' = AbsMem /\ Busy' = FALSE /\ KeepsBeyond
<1>1. Size' = Size
  BY DEF Size
<1>2. QED
  BY <1>1, QuietAbs, SameTable DEF Busy, KeepsBeyond

LEMMA TrapAbs ==
    ASSUME IInv, job = Idle, Answer(Trapped), UNCHANGED <<num_pages, type, table, data, job>>
    PROVE  F!Trap /\ KeepsBeyond
  BY AnswerAbs DEF Answer, F!Trap, F!Answer, Trapped

LEMMA LoadAbs ==
    ASSUME IInv, NEW i \in I32, NEW offset \in Offsets, NEW n \in Widths,
           Load(i, offset, n), InBounds(i + offset, n) => ~Crosses(i + offset, n)
    PROVE  F!Load(i + offset, n) /\ KeepsBeyond
<1> DEFINE ea == i + offset
<1>1. job = Idle /\ n \in Nat \ {0}
  BY ProgramAssumption DEF Load, Answer
<1>2. CASE ~InBounds(ea, n)
  <2>1. F!Trap /\ KeepsBeyond
    BY <1>1, <1>2, TrapAbs DEF Load
  <2>2. QED
    BY <1>2, <2>1 DEF F!Load, InBounds, Size
<1>3. CASE InBounds(ea, n)
  <2>1. ea \in I32 /\ ea \in Nat
    BY <1>1, <1>3, EffectiveAddress, AddressType
  <2>2. /\ table' = Touch(ea) /\ num_pages' = num_pages /\ data' = data /\ job' = Idle
    BY <1>1, <1>3 DEF Load
  <2>3. PICK junk \in Byte : out' = Bytes(PeekAll(ea, n, junk))
    BY <1>3 DEF Load, Answer
  <2>4. out' = Bytes([k \in 1 .. n |-> Peek(ea + k - 1)])
    BY <1>1, <1>3, <2>1, <2>3, PeekAllBytes
  <2>5. \A k \in 1 .. n : AbsMem[ea + k - 1] = Peek(ea + k - 1)
    <3>1. \A k \in 1 .. n : ea + k - 1 \in 0 .. Size - 1
      BY <1>1, <1>3, <2>1, SizeBound DEF InBounds
    <3>2. QED
      BY <1>1, <3>1, IdleAbs
  <2>6. AbsMem' = AbsMem
    <3>1. \A c \in I32 : ByteAt(table', c) = Peek(c)
      BY <2>1, <2>2, SizeBound, TouchByte
    <3>2. Size' = Size
      BY <2>2 DEF Size
    <3>3. QED
      BY <1>1, <2>2, <3>1, <3>2, QuietAbs
  <2>7. out' = [kind |-> "bytes", bytes |-> [k \in 1 .. n |-> AbsMem[ea + k - 1]]]
    BY <2>4, <2>5 DEF Bytes
  <2>8. Busy' = FALSE
    BY <2>2 DEF Busy
  <2>9. ea + n <= num_pages * WasmPage
    BY <1>3 DEF InBounds, Size
  <2>10. KeepsBeyond
    BY <2>1, <2>2, SizeBound, TouchByte DEF KeepsBeyond
  <2>11. QED
    BY <2>2, <2>6, <2>7, <2>8, <2>9, <2>10 DEF F!Load, F!Answer
<1>4. QED
  BY <1>2, <1>3

\* A range lies in the memory when its end does, unless it is empty.
LEMMA RangeFits ==
    ASSUME NEW a \in Nat, NEW n \in Nat, NEW size \in Nat
    PROVE  /\ a + n <= size => a .. a + n - 1 \subseteq 0 .. size - 1
           /\ n # 0 /\ a .. a + n - 1 \subseteq 0 .. size - 1 => a + n <= size
<1>1. ASSUME n # 0, a .. a + n - 1 \subseteq 0 .. size - 1
      PROVE  a + n <= size
  <2>1. a + n - 1 \in a .. a + n - 1
    BY <1>1
  <2>2. a + n - 1 \in 0 .. size - 1
    BY <1>1, <2>1
  <2>3. QED
    BY <2>2
<1>2. QED
  BY <1>1

LEMMA StoreAbs ==
    ASSUME IInv, NEW i \in I32, NEW offset \in Offsets, NEW n \in Widths,
           NEW v \in [1 .. n -> Byte], Store(i, offset, v),
           InBounds(i + offset, n) => ~Crosses(i + offset, n)
    PROVE  F!Store(i + offset, v) /\ KeepsBeyond
<1> DEFINE ea == i + offset
           f == [a \in ea .. ea + Len(v) - 1 |-> v[a - ea + 1]]
<1>1. /\ job = Idle /\ n \in Nat \ {0} /\ Len(v) = n /\ i \in Nat /\ offset \in Nat /\ ea \in Nat
      /\ Size \in Nat
  <2>1. n \in Nat \ {0} /\ offset \in Nat /\ i \in Nat
    BY ProgramAssumption, SizeAssumption DEF I32
  <2>2. QED
    BY <2>1, SizeBound DEF Store, Answer
<1>2. DOMAIN f = ea .. ea + n - 1
  BY <1>1
<1>3. DOMAIN f \subseteq 0 .. Size - 1 <=> InBounds(ea, n)
  <2>1. InBounds(ea, n) <=> ea + n <= Size
    BY DEF InBounds
  <2> HIDE DEF f, ea
  <2>2. QED
    BY <1>1, <1>2, <2>1, RangeFits
<1>4. CASE ~InBounds(ea, n)
  <2>1. F!Trap /\ KeepsBeyond
    BY <1>1, <1>4, TrapAbs DEF Store
  <2>2. QED
    BY <1>3, <1>4, <2>1, FlatAddrs DEF F!Store, F!Write
<1>5. CASE InBounds(ea, n)
  <2>1. ea \in I32
    BY <1>1, <1>5, EffectiveAddress
  <2>2. /\ table' = PokeAll(ea, v) /\ num_pages' = num_pages /\ data' = data /\ job' = Idle
        /\ out' = Done
    BY <1>1, <1>5 DEF Store, Answer
  <2>3. \A c \in I32 : ByteAt(table', c) = IF c \in ea .. ea + n - 1 THEN v[c - ea + 1] ELSE Peek(c)
    BY <1>1, <1>5, <2>1, <2>2, SizeBound, PokeAllBytes
  <2>4. AbsMem' = [a \in 0 .. Size - 1 |-> ByteAt(table', a)]
    <3>1. Size' = Size
      BY <2>2 DEF Size
    <3>2. QED
      BY <2>2, <3>1 DEF AbsMem, Eventual, Peek, ByteAt, PageAt
  <2>5. AbsMem' = [a \in 0 .. Size - 1 |-> IF a \in DOMAIN f THEN f[a] ELSE AbsMem[a]]
    <3>1. ASSUME NEW a \in 0 .. Size - 1
          PROVE  ByteAt(table', a) = IF a \in DOMAIN f THEN f[a] ELSE AbsMem[a]
      <4>1. a \in I32 /\ AbsMem[a] = Peek(a)
        BY <1>1, InMemory, IdleAbs
      <4>2. a \in DOMAIN f => f[a] = v[a - ea + 1]
        OBVIOUS
      <4> HIDE DEF f
      <4>3. QED
        BY <1>2, <2>3, <4>1, <4>2
    <3> HIDE DEF f
    <3>2. QED
      BY <2>4, <3>1
  <2>6. Busy' = FALSE
    BY <2>2 DEF Busy
  <2>7. F!Write(f, FALSE)
    <3> HIDE DEF f
    <3>1. QED
      BY <1>3, <1>5, <2>2, <2>5, <2>6, FlatAddrs DEF F!Write, Done
  <2>8. KeepsBeyond
    <3>1. ea + n <= Size
      BY <1>5 DEF InBounds
    <3>2. \A c \in I32 : c >= Size => c \notin ea .. ea + n - 1
      BY <1>1, <3>1, SizeAssumption DEF I32
    <3>3. QED
      BY <2>2, <2>3, <3>2 DEF KeepsBeyond
  <2>9. QED
    BY <2>7, <2>8 DEF F!Store
<1>6. QED
  BY <1>4, <1>5

LEMMA AskAbs ==
    ASSUME IInv, MemorySize
    PROVE  F!Ask /\ KeepsBeyond
  BY AnswerAbs DEF MemorySize, Answer, Num, F!Ask, F!Answer

LEMMA DropAbs ==
    ASSUME IInv, NEW seg, DataDrop(seg)
    PROVE  F!Drop(seg) /\ KeepsBeyond
  BY AnswerAbs DEF DataDrop, Answer, Done, F!Drop, F!Answer

LEMMA BehindTheEnd ==
    ASSUME NEW old \in Nat, NEW new \in Nat, NEW w \in Nat, new <= w,
           NEW a \in 0 .. new - 1, a \notin 0 .. old - 1
    PROVE  a \in 0 .. w - 1 /\ a >= old
OBVIOUS

\* Growing finds zeros behind the old end of the memory.
LEMMA GrowAbs ==
    ASSUME IInv, IInv', ZeroBeyond, WellBehaved, NEW n \in GrowArgs, MemoryGrow(n)
    PROVE  F!Grow(n) /\ ZeroBeyond'
<1> DEFINE total == num_pages + n
<1>1. /\ n \in Nat /\ Signed(n) = n /\ num_pages \in Nat /\ MaxPages # 0 /\ HasMax
      /\ type.max = MaxPages /\ MaxPages \in Nat /\ NumPageMax \in Nat
  BY ProgramAssumption, SizeAssumption, LimitsAssumption DEF WellBehaved, Signed, IInv, TypeOK
<1>2. job = Idle /\ job' = Idle /\ table' = table /\ data' = data /\ Busy' = FALSE
  BY DEF MemoryGrow, Busy
<1>3. CASE num_pages' = num_pages /\ out' = Num(-1)
  <2>1. AbsMem' = AbsMem
    BY <1>2, <1>3, AnswerAbs
  <2>2. ZeroBeyond'
    BY <1>2, <1>3 DEF ZeroBeyond, Size, Peek, ByteAt, PageAt
  <2>3. QED
    BY <1>2, <1>3, <2>1, <2>2 DEF F!Grow, F!Answer, Num
<1>4. CASE ~(total > MaxPages) /\ num_pages' = total /\ out' = Num(num_pages)
  <2>1. Size \in Nat /\ Size' \in Nat /\ Size' <= W /\ W \in Nat /\ Size <= Size'
    <3>1. IInv' => (Size \in Nat /\ Size <= W /\ W \in Nat /\ table \in Tables)'
      BY SizeBound, PTL
    <3>2. num_pages * WasmPage <= (num_pages + n) * WasmPage
      BY <1>1, SizeAssumption, SMT
    <3>3. Size <= Size'
      BY <1>4, <3>2 DEF Size
    <3>4. QED
      BY <3>1, <3>3, SizeBound
  <2>2. AbsMem' = [a \in 0 .. Size' - 1 |-> Peek(a)]
    BY <1>2 DEF AbsMem, Eventual, Peek, ByteAt, PageAt
  <2>3. ASSUME NEW a \in 0 .. Size' - 1
        PROVE  Peek(a) = IF a \in 0 .. Size - 1 THEN AbsMem[a] ELSE Zero
    <3>1. CASE a \in 0 .. Size - 1
      BY <1>2, <3>1, IdleAbs
    <3>2. CASE a \notin 0 .. Size - 1
      <4>1. a \in I32 /\ a >= Size
        BY <2>1, <3>2, BehindTheEnd DEF I32
      <4>2. QED
        BY <3>2, <4>1 DEF ZeroBeyond
    <3>3. QED
      BY <3>1, <3>2
  <2>4. AbsMem' = [a \in 0 .. Size' - 1 |-> IF a \in 0 .. Size - 1 THEN AbsMem[a] ELSE Zero]
    BY <2>2, <2>3
  <2>5. F!Addrs(num_pages + n) = 0 .. Size' - 1
    BY <1>4 DEF F!Addrs, Size
  <2>6. ZeroBeyond'
    <3>1. \A a \in I32 : a >= Size' => a >= Size
      BY <2>1 DEF I32
    <3>2. \A a \in I32 : a >= Size' => Peek(a)' = Zero
      BY <1>2, <3>1 DEF ZeroBeyond, Peek, ByteAt, PageAt
    <3>3. QED
      BY <3>2 DEF ZeroBeyond
  <2>7. num_pages + n <= MaxPages
    BY <1>1, <1>4
  <2>8. QED
    BY <1>1, <1>2, <1>4, <2>4, <2>5, <2>6, <2>7, FlatAddrs DEF F!Grow, F!Answer, Num
<1>5. QED
  BY <1>1, <1>3, <1>4 DEF MemoryGrow

-----------------------------------------------------------------------------
(* The refinement: bulk instructions.                                      *)

\* Passing the bounds check is the write of the whole range.
LEMMA BulkAbs ==
    ASSUME IInv, job = Idle, job' # Idle, NEW d \in Nat, NEW n \in Nat, InBounds(d, n),
           job'.d = d, job'.n = n, out' = Done,
           num_pages' = num_pages, table' = table, data' = data,
           NEW f, DOMAIN f = d .. d + n - 1,
           \A a \in d .. d + n - 1 : Eventual(a)' = f[a]
    PROVE  F!Write(f, TRUE) /\ KeepsBeyond
<1>1. d + n <= Size /\ Size \in Nat
  BY SizeBound DEF InBounds
<1>2. DOMAIN f \subseteq 0 .. Size - 1
  BY <1>1, RangeFits
<1>3. ASSUME NEW a \in 0 .. Size - 1
      PROVE  Eventual(a)' = IF a \in DOMAIN f THEN f[a] ELSE AbsMem[a]
  <2>1. AbsMem[a] = Peek(a)
    BY IdleAbs
  <2>2. a \notin d .. d + n - 1 => Eventual(a)' = Peek(a)
    BY DEF Eventual, Peek, ByteAt, PageAt
  <2>3. QED
    BY <2>1, <2>2
<1>4. Size' = Size
  BY DEF Size
<1>5. AbsMem' = [a \in 0 .. Size - 1 |-> IF a \in DOMAIN f THEN f[a] ELSE AbsMem[a]]
  BY <1>3, <1>4 DEF AbsMem
<1>6. Busy' = TRUE
  BY DEF Busy
<1>7. KeepsBeyond
  BY SameTable DEF KeepsBeyond
<1>8. QED
  BY <1>2, <1>5, <1>6, <1>7, FlatAddrs DEF F!Write, Done

LEMMA FillAbs ==
    ASSUME IInv, NEW d \in I32, NEW val, NEW n \in I32, MemoryFill(d, val, n)
    PROVE  F!Fill(d, val, n) /\ KeepsBeyond
<1>1. d \in Nat /\ n \in Nat /\ job = Idle
  BY SizeAssumption DEF I32, MemoryFill, Begin
<1>2. F!Fits(d, n) <=> InBounds(d, n)
  BY DEF F!Fits, InBounds, Size
<1>3. CASE ~InBounds(d, n)
  BY <1>1, <1>2, <1>3, TrapAbs DEF MemoryFill, Begin, F!Fill, Answer
<1>4. CASE InBounds(d, n)
  <2> DEFINE f == [a \in d .. d + n - 1 |-> val]
  <2>1. /\ job' = Job("fill", d, 0, n, val, NULL) /\ out' = Done
        /\ num_pages' = num_pages /\ table' = table /\ data' = data
    BY <1>4 DEF MemoryFill, Begin
  <2>2. job'.op = "fill" /\ job'.d = d /\ job'.n = n /\ job'.val = val /\ job' # Idle
    BY <2>1 DEF Job, Idle
  <2>3. \A a \in d .. d + n - 1 : Eventual(a)' = f[a]
    BY <2>2 DEF Eventual
  <2>4. DOMAIN f = d .. d + n - 1
    OBVIOUS
  <2> HIDE DEF f
  <2>5. F!Write(f, TRUE) /\ KeepsBeyond
    BY <1>1, <1>4, <2>1, <2>2, <2>3, <2>4, BulkAbs
  <2>6. QED
    BY <1>2, <1>4, <2>5 DEF F!Fill, f
<1>5. QED
  BY <1>3, <1>4

LEMMA CopyAbs ==
    ASSUME IInv, NEW d \in I32, NEW s \in I32, NEW n \in I32, MemoryCopy(d, s, n)
    PROVE  F!Copy(d, s, n) /\ KeepsBeyond
<1>1. d \in Nat /\ s \in Nat /\ n \in Nat /\ job = Idle
  BY SizeAssumption DEF I32, MemoryCopy, Begin
<1>2. (F!Fits(d, n) <=> InBounds(d, n)) /\ (F!Fits(s, n) <=> InBounds(s, n))
  BY DEF F!Fits, InBounds, Size
<1>3. CASE ~(InBounds(s, n) /\ InBounds(d, n))
  BY <1>1, <1>2, <1>3, TrapAbs DEF MemoryCopy, Begin, F!Copy, Answer
<1>4. CASE InBounds(s, n) /\ InBounds(d, n)
  <2> DEFINE f == [a \in d .. d + n - 1 |-> AbsMem[s + (a - d)]]
  <2>1. /\ job' = Job("copy", d, s, n, Zero, NULL) /\ out' = Done
        /\ num_pages' = num_pages /\ table' = table /\ data' = data
    BY <1>4 DEF MemoryCopy, Begin
  <2>2. job'.op = "copy" /\ job'.d = d /\ job'.s = s /\ job'.n = n /\ job' # Idle
    BY <2>1 DEF Job, Idle
  <2>3. ASSUME NEW a \in d .. d + n - 1 PROVE Eventual(a)' = f[a]
    <3>1. s + (a - d) \in 0 .. Size - 1
      BY <1>1, <1>4, SizeBound DEF InBounds
    <3>2. Eventual(a)' = Peek(s + (a - d))
      BY <2>1, <2>2 DEF Eventual, Peek, ByteAt, PageAt
    <3>3. QED
      BY <1>1, <3>1, <3>2, IdleAbs
  <2>4. DOMAIN f = d .. d + n - 1
    OBVIOUS
  <2> HIDE DEF f
  <2>5. F!Write(f, TRUE) /\ KeepsBeyond
    BY <1>1, <1>4, <2>1, <2>2, <2>3, <2>4, BulkAbs
  <2>6. QED
    BY <1>2, <1>4, <2>5 DEF F!Copy, f
<1>5. QED
  BY <1>3, <1>4

LEMMA CopyinAbs ==
    ASSUME IInv, NEW seg \in Segments, NEW d \in I32, NEW s \in I32, NEW n \in I32,
           MemoryInit(seg, d, s, n)
    PROVE  F!Copyin(seg, d, s, n) /\ KeepsBeyond
<1>1. d \in Nat /\ s \in Nat /\ n \in Nat /\ job = Idle
  BY SizeAssumption DEF I32, MemoryInit, Begin
<1>2. F!Fits(d, n) <=> InBounds(d, n)
  BY DEF F!Fits, InBounds, Size
<1>3. CASE ~(s + n <= Len(data[seg]) /\ InBounds(d, n))
  BY <1>1, <1>2, <1>3, TrapAbs DEF MemoryInit, Begin, F!Copyin, Answer
<1>4. CASE s + n <= Len(data[seg]) /\ InBounds(d, n)
  <2> DEFINE f == [a \in d .. d + n - 1 |-> data[seg][s + (a - d) + 1]]
  <2>1. /\ job' = Job("init", d, s, n, Zero, seg) /\ out' = Done
        /\ num_pages' = num_pages /\ table' = table /\ data' = data
    BY <1>4 DEF MemoryInit, Begin
  <2>2. /\ job'.op = "init" /\ job'.d = d /\ job'.s = s /\ job'.n = n /\ job'.seg = seg
        /\ job' # Idle
    BY <2>1 DEF Job, Idle
  <2>3. \A a \in d .. d + n - 1 : Eventual(a)' = f[a]
    BY <2>1, <2>2 DEF Eventual
  <2>4. DOMAIN f = d .. d + n - 1
    OBVIOUS
  <2> HIDE DEF f
  <2>5. F!Write(f, TRUE) /\ KeepsBeyond
    BY <1>1, <1>4, <2>1, <2>2, <2>3, <2>4, BulkAbs
  <2>6. QED
    BY <1>2, <1>4, <2>5 DEF F!Copyin, f
<1>5. QED
  BY <1>3, <1>4

-----------------------------------------------------------------------------
(* The refinement: the rounds of a loop.                                   *)

LEMMA LeftAfter ==
    ASSUME NEW d \in Nat, NEW n \in Nat \ {0}, NEW k \in Nat
    PROVE  /\ k \in d + 1 .. (d + 1) + (n - 1) - 1 <=> k \in d .. d + n - 1 /\ k # d
           /\ k \in d .. d + (n - 1) - 1 <=> k \in d .. d + n - 1 /\ k # d + n - 1
OBVIOUS

\* In the direction of d <= s a byte is read before it is written.
LEMMA ReadBeforeWritten ==
    ASSUME NEW d \in Nat, NEW s \in Nat, NEW n \in Nat \ {0}, NEW k \in d .. d + n - 1
    PROVE  /\ d <= s /\ k # d => s + (k - d) # d
           /\ s < d /\ k # d + n - 1 => s + (k - d) # d + n - 1
OBVIOUS

\* A round writes address p of what is left, with what it will hold, and takes p
\* out of what is left: what the loop will leave is as before.
LEMMA RoundAbs ==
    ASSUME IInv, job # Idle, job' # Idle, num_pages' = num_pages, data' = data,
           job'.op = job.op, job'.val = job.val, job'.seg = job.seg,
           job'.d \in Nat, job'.s \in Nat, job'.n \in Nat,
           NEW p \in job.d .. job.d + job.n - 1,
           \A c \in I32 : ByteAt(table', c) = IF c = p THEN Eventual(p) ELSE Peek(c),
           \A k \in Nat : k \in job'.d .. job'.d + job'.n - 1 <=>
                              k \in job.d .. job.d + job.n - 1 /\ k # p,
           job.op # "fill" => job'.s - job'.d = job.s - job.d,
           job.op = "copy" =>
               \A k \in job.d .. job.d + job.n - 1 : k # p => job.s + (k - job.d) # p
    PROVE  AbsMem' = AbsMem
<1>1. /\ job.op \in {"fill", "copy", "init"} /\ job.d \in Nat /\ job.s \in Nat /\ job.n \in Nat
      /\ job.d + job.n <= Size /\ Size \in Nat /\ Size <= W /\ W \in Nat
      /\ job.op = "copy" => job.s + job.n <= Size
  BY JobFields DEF InBounds
<1>2. ASSUME NEW a \in 0 .. Size - 1
      PROVE  Eventual(a)' = Eventual(a)
  <2>1. a \in I32 /\ a \in Nat
    BY InMemory
  <2>2. CASE a \notin job.d .. job.d + job.n - 1
    <3>1. a \notin job'.d .. job'.d + job'.n - 1 /\ a # p
      BY <2>1, <2>2
    <3>2. Eventual(a)' = ByteAt(table', a)
      BY <3>1 DEF Eventual, Peek, ByteAt, PageAt
    <3>3. Eventual(a) = Peek(a)
      BY <2>2 DEF Eventual
    <3>4. QED
      BY <2>1, <3>1, <3>2, <3>3
  <2>3. CASE a = p
    <3>1. a \notin job'.d .. job'.d + job'.n - 1
      BY <2>1, <2>3
    <3>2. Eventual(a)' = ByteAt(table', a)
      BY <3>1 DEF Eventual, Peek, ByteAt, PageAt
    <3>3. QED
      BY <2>1, <2>3, <3>2
  <2>4. CASE a \in job.d .. job.d + job.n - 1 /\ a # p
    <3>1. a \in job'.d .. job'.d + job'.n - 1
      BY <2>1, <2>4
    <3>2. job.op # "fill" => job'.s + (a - job'.d) = job.s + (a - job.d)
      BY <1>1, <2>1
    <3>3. CASE job.op = "fill"
      BY <2>4, <3>1, <3>3 DEF Eventual
    <3>4. CASE job.op = "init"
      BY <2>4, <3>1, <3>2, <3>4 DEF Eventual
    <3>5. CASE job.op = "copy"
      <4> DEFINE q == job.s + (a - job.d)
      <4>1. q \in 0 .. Size - 1 /\ q # p
        BY <1>1, <2>1, <2>4, <3>5
      <4>2. Eventual(a) = Peek(q)
        BY <2>4, <3>5 DEF Eventual
      <4>3. job'.s + (a - job'.d) = q
        BY <3>2, <3>5
      <4> HIDE DEF q
      <4>4. Eventual(a)' = ByteAt(table', q)
        BY <3>1, <3>5, <4>3 DEF Eventual, Peek, ByteAt, PageAt
      <4>5. ByteAt(table', q) = Peek(q)
        BY <4>1, InMemory
      <4>6. QED
        BY <4>2, <4>4, <4>5
    <3>6. QED
      BY <1>1, <3>3, <3>4, <3>5
  <2>5. QED
    BY <2>2, <2>3, <2>4
<1>3. Size' = Size
  BY DEF Size
<1>4. QED
  BY <1>2, <1>3 DEF AbsMem

\* Below half of the addresses an int32_t is what its bits count.
LEMMA HalfMemory ==
    ASSUME IInv, WellBehaved
    PROVE  2 * Size <= W
<1>1. /\ num_pages \in Nat /\ WasmPage \in Nat /\ MaxPages \in Nat /\ W \in Nat
      /\ num_pages <= MaxPages /\ 2 * (MaxPages * WasmPage) <= W
  BY SizeAssumption, LimitsAssumption DEF WellBehaved, IInv, TypeOK, SizeWithinMax
<1>2. num_pages * WasmPage \in Nat /\ num_pages * WasmPage <= MaxPages * WasmPage
  BY <1>1, SMT
<1>3. MaxPages * WasmPage \in Nat
  BY <1>1, SMT
<1>4. QED
  BY <1>1, <1>2, <1>3 DEF Size

LEMMA NoWrap ==
    ASSUME NEW a \in Nat, NEW size \in Nat, a < size, 2 * size <= W
    PROVE  Wrap(a + 1) = a + 1 /\ Signed(a) = a
  BY SizeAssumption DEF Wrap, Signed

\* A round is no step of the flat memory.
LEMMA StepAbs ==
    ASSUME IInv, WellBehaved, FillStep \/ CopyStep \/ InitStep
    PROVE  /\ AbsMem' = AbsMem /\ job' # Idle /\ KeepsBeyond
           /\ UNCHANGED <<num_pages, data, instr, out>>
<1>1. /\ job # Idle /\ job.n # 0 /\ UNCHANGED <<num_pages, data, instr, out>>
  BY DEF FillStep, CopyStep, InitStep, Advance, Idle
<1>2. /\ job.op \in {"fill", "copy", "init"} /\ job.d \in Nat /\ job.s \in Nat
      /\ job.n \in Nat \ {0} /\ job.val \in Byte
      /\ job.d + job.n <= Size /\ Size \in Nat /\ 2 * Size <= W
      /\ job.op = "copy" => job.s + job.n <= Size
  BY <1>1, JobFields, HalfMemory DEF InBounds
<1>3. /\ Wrap(job.n - 1) = job.n - 1 /\ job.d < Size
      /\ Wrap(job.d + 1) = job.d + 1 /\ Signed(job.d) = job.d
      /\ job.op = "copy" => Wrap(job.s + 1) = job.s + 1 /\ Signed(job.s) = job.s
      /\ Wrap(job.d + job.n - 1) = job.d + job.n - 1
      /\ job.op = "copy" => Wrap(job.s + job.n - 1) = job.s + job.n - 1
  <2>1. job.d < Size /\ (job.op = "copy" => job.s < Size)
    BY <1>2
  <2>2. QED
    BY <1>1, <1>2, <2>1, Counters, NoWrap
<1>4. ASSUME NEW d \in Nat, NEW s \in Nat, Advance(d, s)
      PROVE  /\ job' # Idle /\ job'.d = d /\ job'.s = s /\ job'.n = job.n - 1 /\ job'.n \in Nat
             /\ job'.op = job.op /\ job'.val = job.val /\ job'.seg = job.seg
  <2>1. job' = Job(job.op, d, s, job.n - 1, job.val, job.seg)
    BY <1>3, <1>4 DEF Advance
  <2>2. /\ job'.d = d /\ job'.s = s /\ job'.n = job.n - 1
        /\ job'.op = job.op /\ job'.val = job.val /\ job'.seg = job.seg
    BY <2>1 DEF Job
  <2>3. job' # Idle
    BY <1>2, <2>2 DEF Idle
  <2>4. QED
    BY <1>2, <2>2, <2>3
<1>5. ASSUME NEW i \in 0 .. job.n - 1, Store8(job.d + i, Eventual(job.d + i)),
             Eventual(job.d + i) \in Byte,
             NEW d \in Nat, NEW s \in Nat, Advance(d, s),
             job.op # "fill" => d - job.d = s - job.s,
             \/ i = 0 /\ d = job.d + 1
             \/ i = job.n - 1 /\ d = job.d,
             job.op = "copy" =>
                 (i = 0 /\ job.d <= job.s) \/ (i = job.n - 1 /\ job.s < job.d)
      PROVE  AbsMem' = AbsMem /\ job' # Idle /\ KeepsBeyond
  <2> DEFINE p == job.d + i
  <2>1. p \in job.d .. job.d + job.n - 1 /\ p < Size /\ p \in 0 .. Size - 1
    BY <1>2
  <2>2. \A c \in I32 : ByteAt(table', c) = IF c = p THEN Eventual(p) ELSE Peek(c)
    BY <1>5, <2>1, InMemory, StoreByte
  <2>3. /\ job' # Idle /\ job'.d = d /\ job'.s = s /\ job'.n = job.n - 1 /\ job'.n \in Nat
        /\ job'.op = job.op /\ job'.val = job.val /\ job'.seg = job.seg
    BY <1>4, <1>5
  <2>4. job.op # "fill" => job'.s - job'.d = job.s - job.d
    <3>1. d - job.d = s - job.s => s - d = job.s - job.d
      BY <1>2
    <3>2. QED
      BY <1>5, <2>3, <3>1
  <2>5. \A k \in Nat : k \in job'.d .. job'.d + job'.n - 1 <=>
                           k \in job.d .. job.d + job.n - 1 /\ k # p
    <3>1. CASE i = 0 /\ d = job.d + 1
      <4>1. p = job.d
        BY <1>2, <3>1
      <4>2. QED
        BY <1>2, <2>3, <3>1, <4>1, LeftAfter
    <3>2. CASE i = job.n - 1 /\ d = job.d
      <4>1. p = job.d + job.n - 1
        BY <1>2, <3>2
      <4>2. QED
        BY <1>2, <2>3, <3>2, <4>1, LeftAfter
    <3>3. QED
      BY <1>5, <3>1, <3>2
  <2>6. job.op = "copy" =>
            \A k \in job.d .. job.d + job.n - 1 : k # p => job.s + (k - job.d) # p
    <3>1. CASE i = 0 /\ job.d <= job.s
      <4>1. p = job.d
        BY <1>2, <3>1
      <4>2. QED
        BY <1>2, <3>1, <4>1, ReadBeforeWritten
    <3>2. CASE i = job.n - 1 /\ job.s < job.d
      <4>1. p = job.d + job.n - 1
        BY <1>2, <3>2
      <4>2. QED
        BY <1>2, <3>2, <4>1, ReadBeforeWritten
    <3>3. QED
      BY <1>5, <3>1, <3>2
  <2> HIDE DEF p
  <2>7. AbsMem' = AbsMem
    BY <1>1, <1>5, <2>1, <2>2, <2>3, <2>4, <2>5, <2>6, RoundAbs
  <2>8. KeepsBeyond
    <3>1. \A c \in I32 : c >= Size => c # p
      BY <1>2, <2>1, SizeAssumption DEF I32
    <3>2. QED
      BY <1>1, <2>2, <3>1 DEF KeepsBeyond
  <2>9. QED
    BY <2>3, <2>7, <2>8
<1>6. CASE FillStep
  <2>1. job.op = "fill" /\ Store8(job.d + 0, job.val) /\ Advance(job.d + 1, job.s)
    BY <1>2, <1>3, <1>6 DEF FillStep
  <2>2. /\ 0 \in 0 .. job.n - 1 /\ job.d + 0 \in job.d .. job.d + job.n - 1 /\ job.d + 1 \in Nat
    BY <1>2
  <2>3. Eventual(job.d + 0) = job.val
    BY <1>1, <2>1, <2>2 DEF Eventual
  <2>4. AbsMem' = AbsMem /\ job' # Idle /\ KeepsBeyond
    BY <1>2, <1>5, <2>1, <2>2, <2>3
  <2>5. QED
    BY <1>1, <2>4
<1>7. CASE InitStep
  <2>1. /\ job.op = "init" /\ Store8(job.d + 0, data[job.seg][job.s + 1])
        /\ Advance(job.d + 1, job.s + 1)
    BY <1>2, <1>3, <1>7 DEF InitStep
  <2>2. /\ 0 \in 0 .. job.n - 1 /\ job.d + 0 \in job.d .. job.d + job.n - 1
        /\ job.s + ((job.d + 0) - job.d) + 1 = job.s + 1
        /\ job.d + 1 \in Nat /\ job.s + 1 \in Nat
        /\ (job.d + 1) - job.d = (job.s + 1) - job.s
    BY <1>2
  <2>3. Eventual(job.d + 0) = data[job.seg][job.s + 1]
    BY <1>1, <2>1, <2>2 DEF Eventual
  <2>4. data[job.seg][job.s + 1] \in Byte
    <3>1. data[job.seg] \in Seq(Byte) /\ job.s + job.n <= Len(data[job.seg])
      BY <1>1, <2>1, JobFields DEF IInv, TypeOK
    <3>2. job.s + 1 \in 1 .. Len(data[job.seg])
      BY <1>2, <3>1, SMTT(40)
    <3>3. QED
      BY <3>1, <3>2
  <2>5. AbsMem' = AbsMem /\ job' # Idle /\ KeepsBeyond
    BY <1>2, <1>5, <2>1, <2>2, <2>3, <2>4
  <2>6. QED
    BY <1>1, <2>5
<1>8. CASE CopyStep
  <2>1. job.op = "copy"
    BY <1>8 DEF CopyStep
  <2>2. ASSUME NEW i \in 0 .. job.n - 1
        PROVE  /\ Eventual(job.d + i) = Peek(job.s + i)
               /\ Eventual(job.d + i) \in Byte
    <3>1. /\ job.d + i \in job.d .. job.d + job.n - 1
          /\ job.s + ((job.d + i) - job.d) = job.s + i
          /\ job.s + i \in 0 .. Size - 1
      BY <1>2, <2>1
    <3>2. Eventual(job.d + i) = Peek(job.s + i)
      BY <1>1, <2>1, <3>1 DEF Eventual
    <3>3. Peek(job.s + i) \in Byte
      BY <3>1, InMemory, SizeBound, PeekType
    <3>4. QED
      BY <3>2, <3>3
  <2>3. CASE job.d <= job.s
    <3>1. Store8(job.d, Peek(job.s)) /\ Advance(job.d + 1, job.s + 1)
      BY <1>3, <1>8, <2>1, <2>3 DEF CopyStep
    <3>2. /\ 0 \in 0 .. job.n - 1 /\ job.d + 0 = job.d /\ job.s + 0 = job.s
          /\ job.d + 1 \in Nat /\ job.s + 1 \in Nat
          /\ (job.d + 1) - job.d = (job.s + 1) - job.s
      BY <1>2
    <3>3. Store8(job.d + 0, Eventual(job.d + 0)) /\ Eventual(job.d + 0) \in Byte
      BY <2>2, <3>1, <3>2
    <3>4. AbsMem' = AbsMem /\ job' # Idle /\ KeepsBeyond
      BY <1>2, <1>5, <2>3, <3>1, <3>2, <3>3
    <3>5. QED
      BY <1>1, <3>4
  <2>4. CASE job.s < job.d
    <3>1. Store8(job.d + job.n - 1, Peek(job.s + job.n - 1)) /\ Advance(job.d, job.s)
      <4>1. ~(Signed(job.d) <= Signed(job.s))
        BY <1>2, <1>3, <2>1, <2>4
      <4>2. QED
        BY <1>3, <1>8, <2>1, <4>1 DEF CopyStep
    <3>2. /\ job.n - 1 \in 0 .. job.n - 1
          /\ job.d + (job.n - 1) = job.d + job.n - 1 /\ job.s + (job.n - 1) = job.s + job.n - 1
          /\ job.d - job.d = job.s - job.s
      BY <1>2
    <3>3. /\ Store8(job.d + (job.n - 1), Eventual(job.d + (job.n - 1)))
          /\ Eventual(job.d + (job.n - 1)) \in Byte
      BY <2>2, <3>1, <3>2
    <3>4. AbsMem' = AbsMem /\ job' # Idle /\ KeepsBeyond
      BY <1>2, <1>5, <2>4, <3>1, <3>2, <3>3
    <3>5. QED
      BY <1>1, <3>4
  <2>5. QED
    BY <1>2, <2>3, <2>4
<1>9. QED
  BY <1>6, <1>7, <1>8

-----------------------------------------------------------------------------
(* The refinement: the theorem.                                            *)

LEMMA InitAbs ==
    ASSUME Init
    PROVE  RInv /\ F!Init
<1>1. /\ num_pages = MinPages /\ table = [p \in HostPages |-> NULL] /\ data = Content
      /\ job = Idle /\ instr = NULL /\ out = Done
  BY DEF Init
<1>2. IInv
  BY InitOK
<1>3. \A a \in I32 : Peek(a) = Zero
  <2>1. ASSUME NEW a \in I32 PROVE Peek(a) = Zero
    <3>1. Vpn(a) \in HostPages /\ Off(a) \in 0 .. HostPage - 1
      BY AddressType
    <3>2. PageAt(table, Vpn(a)) = NoPage
      BY <1>1, <3>1 DEF PageAt
    <3>3. QED
      BY <3>1, <3>2 DEF Peek, ByteAt, NoPage
  <2>2. QED
    BY <2>1
<1>4. AbsMem = [a \in 0 .. Size - 1 |-> Zero]
  BY <1>1, <1>2, <1>3, IdleAbs, InMemory
<1>5. F!Init
  BY <1>1, <1>4, FlatAddrs DEF F!Init, Busy, Done
<1>6. RInv
  BY <1>1, <1>2, <1>3 DEF RInv, ZeroBeyond
<1>7. QED
  BY <1>5, <1>6

\* What a step has to show of the bytes beyond the end.
LEMMA BeyondKept ==
    ASSUME ZeroBeyond, KeepsBeyond
    PROVE  ZeroBeyond'
<1>1. Size' = Size /\ \A c \in I32 : c >= Size => ByteAt(table', c) = Zero
  BY DEF KeepsBeyond, ZeroBeyond, Size
<1>2. \A c \in I32 : Peek(c)' = ByteAt(table', c)
  BY DEF Peek, ByteAt, PageAt
<1>3. QED
  BY <1>1, <1>2 DEF ZeroBeyond

LEMMA FetchAbs ==
    ASSUME RInv, WellBehaved, NEW r \in Instrs, Fetch(r)
    PROVE  F!Begin /\ KeepsBeyond /\ job' = Idle /\ (instr' # NULL => ~Crossing(instr)')
<1>1. /\ job = Idle /\ instr = NULL /\ instr' = r /\ out' = Done /\ ~Crossing(r)
      /\ num_pages' = num_pages /\ table' = table /\ data' = data /\ job' = job
  BY DEF Fetch, WellBehaved
<1>2. AbsMem' = AbsMem /\ KeepsBeyond
  BY <1>1, AnswerAbs DEF RInv
<1>3. ~Busy /\ Busy' = Busy
  BY <1>1 DEF Busy
<1>4. ~Crossing(instr)'
  BY <1>1 DEF Crossing, InBounds, Size
<1>5. QED
  BY <1>1, <1>2, <1>3, <1>4 DEF F!Begin, Done

LEMMA ExecuteAbs ==
    ASSUME RInv, IInv', WellBehaved, instr # NULL, Execute(instr)
    PROVE  F!Perform(instr) /\ ZeroBeyond'
<1>1. /\ IInv /\ ZeroBeyond /\ job = Idle /\ instr \in Instrs /\ instr' = NULL
      /\ ~Crossing(instr)
  BY DEF RInv, IInv, TypeOK, Execute
<1>2. Operands \subseteq I32
  BY ProgramAssumption DEF I32
<1>3. CASE instr.op = "load" /\ Load(instr.i, instr.offset, instr.n)
  <2>1. instr.i \in I32 /\ instr.offset \in Offsets /\ instr.n \in Widths
    BY <1>1, <1>2, <1>3 DEF Instrs
  <2>2. InBounds(instr.i + instr.offset, instr.n) => ~Crosses(instr.i + instr.offset, instr.n)
    BY <1>1, <1>3 DEF Crossing
  <2>3. F!Load(instr.i + instr.offset, instr.n) /\ KeepsBeyond
    BY <1>1, <1>3, <2>1, <2>2, LoadAbs
  <2>4. QED
    BY <1>1, <1>3, <2>3, BeyondKept DEF F!Perform
<1>4. CASE instr.op = "store" /\ Store(instr.i, instr.offset, instr.v)
  <2>1. instr.i \in I32 /\ instr.offset \in Offsets
    BY <1>1, <1>2, <1>4 DEF Instrs
  <2>2. PICK n \in Widths : instr.v \in [1 .. n -> Byte]
    BY <1>1, <1>4 DEF Instrs
  <2>3. n \in Nat /\ Len(instr.v) = n
    BY <2>2, ProgramAssumption
  <2>4. InBounds(instr.i + instr.offset, n) => ~Crosses(instr.i + instr.offset, n)
    BY <1>1, <1>4, <2>3 DEF Crossing
  <2>5. F!Store(instr.i + instr.offset, instr.v) /\ KeepsBeyond
    BY <1>1, <1>4, <2>1, <2>2, <2>4, StoreAbs
  <2>6. QED
    BY <1>1, <1>4, <2>5, BeyondKept DEF F!Perform
<1>5. CASE instr.op = "size" /\ MemorySize
  BY <1>1, <1>5, AskAbs, BeyondKept DEF F!Perform
<1>6. CASE instr.op = "grow" /\ MemoryGrow(instr.n)
  <2>1. instr.n \in GrowArgs
    BY <1>1, <1>6 DEF Instrs
  <2>2. F!Grow(instr.n) /\ ZeroBeyond'
    BY <1>1, <1>6, <2>1, GrowAbs
  <2>3. QED
    BY <1>1, <1>6, <2>2 DEF F!Perform
<1>7. CASE instr.op = "drop" /\ DataDrop(instr.seg)
  BY <1>1, <1>7, DropAbs, BeyondKept DEF F!Perform
<1>8. CASE instr.op = "fill" /\ MemoryFill(instr.d, instr.val, instr.n)
  <2>1. instr.d \in I32 /\ instr.n \in I32
    BY <1>1, <1>2, <1>8 DEF Instrs
  <2>2. F!Fill(instr.d, instr.val, instr.n) /\ KeepsBeyond
    BY <1>1, <1>8, <2>1, FillAbs
  <2>3. QED
    BY <1>1, <1>8, <2>2, BeyondKept DEF F!Perform
<1>9. CASE instr.op = "copy" /\ MemoryCopy(instr.d, instr.s, instr.n)
  <2>1. instr.d \in I32 /\ instr.s \in I32 /\ instr.n \in I32
    BY <1>1, <1>2, <1>9 DEF Instrs
  <2>2. F!Copy(instr.d, instr.s, instr.n) /\ KeepsBeyond
    BY <1>1, <1>9, <2>1, CopyAbs
  <2>3. QED
    BY <1>1, <1>9, <2>2, BeyondKept DEF F!Perform
<1>10. CASE instr.op = "init" /\ MemoryInit(instr.seg, instr.d, instr.s, instr.n)
  <2>1. instr.seg \in Segments /\ instr.d \in I32 /\ instr.s \in I32 /\ instr.n \in I32
    BY <1>1, <1>2, <1>10 DEF Instrs
  <2>2. F!Copyin(instr.seg, instr.d, instr.s, instr.n) /\ KeepsBeyond
    BY <1>1, <1>10, <2>1, CopyinAbs
  <2>3. QED
    BY <1>1, <1>10, <2>2, BeyondKept DEF F!Perform
<1>11. QED
  BY <1>3, <1>4, <1>5, <1>6, <1>7, <1>8, <1>9, <1>10 DEF Execute

\* With nothing left the memory is what the loop was to leave.
LEMMA EndAbs ==
    ASSUME IInv, BulkEnd
    PROVE  F!End /\ KeepsBeyond
<1>1. /\ job # Idle /\ job.n = 0 /\ job' = Idle /\ num_pages' = num_pages /\ table' = table
      /\ data' = data /\ instr' = instr /\ out' = out
  BY DEF BulkEnd
<1>2. job.d .. job.d + job.n - 1 = {}
  BY <1>1, JobFields
<1>3. \A a : Eventual(a) = Peek(a) /\ Eventual(a)' = Peek(a)
  BY <1>1, <1>2 DEF Eventual, Peek, ByteAt, PageAt
<1>4. AbsMem' = AbsMem
  BY <1>1, <1>3 DEF AbsMem, Size
<1>5. Busy /\ Busy' = FALSE
  BY <1>1 DEF Busy
<1>6. QED
  BY <1>1, <1>4, <1>5, SameTable DEF F!End, KeepsBeyond

LEMMA StepRefines ==
    ASSUME RInv, WellBehaved, [Next]_vars
    PROVE  RInv' /\ [F!Next]_(F!fvars)
<1>1. IInv /\ IInv'
  BY StepOK DEF RInv
<1>2. CASE UNCHANGED vars
  <2>1. AbsMem' = AbsMem /\ Busy' = Busy
    BY <1>2 DEF vars, AbsMem, Eventual, Peek, ByteAt, PageAt, Size, Busy
  <2>2. KeepsBeyond
    BY <1>2, SameTable DEF vars, KeepsBeyond
  <2>3. instr' # NULL => ~Crossing(instr)'
    BY <1>2 DEF vars, RInv, Crossing, InBounds, Size
  <2>4. QED
    BY <1>1, <1>2, <2>1, <2>2, <2>3, BeyondKept DEF RInv, vars, F!fvars
<1>3. ASSUME NEW r \in Instrs, Fetch(r)
      PROVE  RInv' /\ F!Begin
  BY <1>1, <1>3, FetchAbs, BeyondKept DEF RInv
<1>4. CASE instr # NULL /\ Execute(instr)
  <2>1. F!Perform(instr) /\ ZeroBeyond'
    BY <1>1, <1>4, ExecuteAbs
  <2>2. instr' = NULL /\ job = Idle
    BY <1>4 DEF Execute, RInv
  <2>3. job' # Idle => out' = Done
    BY <1>4, <2>2 DEF Execute, Load, Store, MemorySize, MemoryGrow, DataDrop, MemoryFill,
                      MemoryCopy, MemoryInit, Begin, Answer
  <2>4. QED
    BY <1>1, <1>4, <2>1, <2>2, <2>3 DEF RInv, F!Next
<1>5. CASE FillStep \/ CopyStep \/ InitStep
  <2>1. /\ AbsMem' = AbsMem /\ job' # Idle /\ KeepsBeyond
        /\ UNCHANGED <<num_pages, data, instr, out>>
    BY <1>1, <1>5, StepAbs
  <2>2. job # Idle
    BY <1>5 DEF FillStep, CopyStep, InitStep, Idle
  <2>3. Busy' = Busy
    BY <2>1, <2>2 DEF Busy
  <2>4. QED
    BY <1>1, <2>1, <2>2, <2>3, BeyondKept DEF RInv, F!fvars
<1>6. CASE BulkEnd
  <2>1. F!End /\ KeepsBeyond /\ job # Idle /\ job' = Idle /\ instr' = instr
    BY <1>1, <1>6, EndAbs DEF BulkEnd
  <2>2. QED
    BY <1>1, <2>1, BeyondKept DEF RInv, F!Next
<1>7. QED
  <2>1. CASE \E r \in Instrs : Fetch(r)
    BY <1>3, <2>1 DEF F!Next
  <2>2. QED
    BY <1>2, <1>4, <1>5, <1>6, <2>1 DEF Next, BulkStep

\* For every size of address, host page and memory and every well-behaved program,
\* pages that are allocated when they are touched and loops that go byte by byte
\* behave as a flat array of bytes on which an instruction is one step.
THEOREM MemoryRefines ==
    ASSUME WellBehaved
    PROVE  Spec => ImplementsFlatMemory
<1>1. Init => RInv /\ F!Init
  BY InitAbs
<1>2. RInv /\ [Next]_vars => RInv' /\ [F!Next]_(F!fvars)
  BY StepRefines
<1>3. QED
  BY <1>1, <1>2, PTL DEF Spec, ImplementsFlatMemory, F!Spec
=============================================================================
