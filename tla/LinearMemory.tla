---------------------------- MODULE LinearMemory ----------------------------
(***************************************************************************)
(* A memory instance and the instructions that work on it.  The bytes live *)
(* in host pages that eaddr_to_paddr allocates when they are first touched *)
(* (its three levels of tables are one map here), and memory.fill, copy    *)
(* and init run an i32.load8_u or i32.store8 per byte.                     *)
(*                                                                         *)
(* The instructions compute with i32: a number is the pattern 0 .. W-1 of  *)
(* its bits, and Signed is what C makes of it in an int32_t.               *)
(***************************************************************************)
EXTENDS Integers, Sequences

CONSTANTS
    W,           \* the number of i32 patterns, 2^32
    HostPage,    \* PAGE_SIZE
    WasmPage,    \* WASM_PAGE_SIZE
    NumPageMax,  \* NUM_PAGE_MAX
    Byte, Zero,  \* the bytes, and the one calloc writes
    MinPages,    \* the limits the module declares for the memory
    MaxPages,
    HasMax,
    Segments,    \* the data segments of the module
    Content,     \* their bytes
    Offsets,     \* static offsets of the program's loads and stores
    Widths,      \* widths of the program's loads and stores: 1, 2, 4 and 8
    Straddle,    \* whether an access may cross the end of a host page
    Operands,    \* i32 operands the program gives to these instructions,
    GrowArgs,    \* and to memory.grow
    NULL

ASSUME SizeAssumption ==
    /\ W \in Nat /\ HostPage \in Nat \ {0} /\ WasmPage \in Nat \ {0}
    /\ NumPageMax \in Nat /\ NumPageMax * WasmPage <= W
ASSUME ByteAssumption == Zero \in Byte
\* What validate_memtype checks.
ASSUME LimitsAssumption ==
    /\ MinPages \in 0 .. NumPageMax
    /\ HasMax \in BOOLEAN
    /\ MaxPages \in MinPages .. NumPageMax
ASSUME ProgramAssumption ==
    /\ Content \in [Segments -> Seq(Byte)]
    /\ \A seg \in Segments : Len(Content[seg]) < W
    /\ Offsets \subseteq 0 .. W - 1
    /\ Widths \subseteq Nat \ {0}
    /\ Straddle \in BOOLEAN
    /\ Operands \subseteq 0 .. W - 1
    /\ GrowArgs \subseteq 0 .. W - 1

I32 == 0 .. W - 1
Signed(x) == IF 2 * x < W THEN x ELSE x - W
Wrap(x) == IF x >= W THEN x - W ELSE IF x < 0 THEN x + W ELSE x

Page == [0 .. HostPage - 1 -> Byte]
ASSUME NullAssumption == NULL \notin Page
NoPage == [o \in 0 .. HostPage - 1 |-> Zero]     \* what calloc returns

\* The host page and the offset of an address.
Vpn(a) == a \div HostPage
Off(a) == a % HostPage
HostPages == {Vpn(a) : a \in I32}
Tables == [HostPages -> Page \cup {NULL}]

VARIABLES
    num_pages,  \* mem->num_pages
    type,       \* mem->type: min and max
    table,      \* the host pages allocated so far
    data,       \* the data instances, empty when dropped
    job,        \* the bulk instruction in progress: its operands in C
    instr,      \* the instruction to run, with its operands
    out         \* what the last one answered

vars == <<num_pages, type, table, data, job, instr, out>>

\* The memory instructions of the program, with their operands.
Instrs ==
    [op : {"load"}, i : Operands, offset : Offsets, n : Widths]
    \cup [op : {"store"}, i : Operands, offset : Offsets, v : UNION {[1 .. n -> Byte] : n \in Widths}]
    \cup [op : {"size"}]
    \cup [op : {"grow"}, n : GrowArgs]
    \cup [op : {"drop"}, seg : Segments]
    \cup [op : {"fill"}, d : Operands, val : Byte, n : Operands]
    \cup [op : {"copy"}, d : Operands, s : Operands, n : Operands]
    \cup [op : {"init"}, seg : Segments, d : Operands, s : Operands, n : Operands]

Idle == [op |-> "none"]
Job(op, d, s, n, val, seg) ==
    [op |-> op, d |-> d, s |-> s, n |-> n, val |-> val, seg |-> seg]

Done == [kind |-> "done"]
Trapped == [kind |-> "trap"]
Num(n) == [kind |-> "num", num |-> n]
Bytes(v) == [kind |-> "bytes", bytes |-> v]

Size == num_pages * WasmPage
InBounds(a, n) == a + n <= Size

\* Without a maximum decode_limits leaves max as malloc returned it.
Init ==
    /\ num_pages = MinPages
    /\ \E max \in IF HasMax THEN {MaxPages} ELSE 0 .. W - 1 :
           type = [min |-> MinPages, max |-> max]
    /\ table = [p \in HostPages |-> NULL]
    /\ data = Content
    /\ job = Idle
    /\ instr = NULL
    /\ out = Done

-----------------------------------------------------------------------------
(* eaddr_to_paddr.                                                         *)

PageAt(t, p) == IF t[p] = NULL THEN NoPage ELSE t[p]

Touch(a) == [table EXCEPT ![Vpn(a)] = PageAt(table, Vpn(a))]

ByteAt(t, a) == PageAt(t, Vpn(a))[Off(a)]

Peek(a) == ByteAt(table, a)

Poke(a, b) ==
    [table EXCEPT ![Vpn(a)] = [PageAt(table, Vpn(a)) EXCEPT ![Off(a)] = b]]

Crosses(a, n) == Off(a) + n > HostPage

\* The host pages of neighbouring addresses are separate allocations: the bytes
\* beyond the end of the page are not this memory's.
PokeAll(a, v) ==
    [table EXCEPT ![Vpn(a)] =
        [o \in 0 .. HostPage - 1 |->
            IF o - Off(a) \in 0 .. Len(v) - 1 THEN v[o - Off(a) + 1]
            ELSE PageAt(table, Vpn(a))[o]]]

PeekAll(a, n, junk) ==
    [k \in 1 .. n |-> IF Off(a) + k - 1 < HostPage
                      THEN PageAt(table, Vpn(a))[Off(a) + k - 1]
                      ELSE junk]

-----------------------------------------------------------------------------
(* Instructions of one step.                                               *)

Answer(o) ==
    /\ job = Idle
    /\ out' = o

Load(i, offset, n) ==
    LET ea == i + offset
    IN  \/ /\ ~InBounds(ea, n)
           /\ Answer(Trapped)
           /\ UNCHANGED <<num_pages, type, table, data, job>>
        \/ /\ InBounds(ea, n)
           /\ table' = Touch(ea)
           /\ \E junk \in Byte : Answer(Bytes(PeekAll(ea, n, junk)))
           /\ UNCHANGED <<num_pages, type, data, job>>

Store(i, offset, v) ==
    LET ea == i + offset
    IN  \/ /\ ~InBounds(ea, Len(v))
           /\ Answer(Trapped)
           /\ UNCHANGED <<num_pages, type, table, data, job>>
        \/ /\ InBounds(ea, Len(v))
           /\ table' = PokeAll(ea, v)
           /\ Answer(Done)
           /\ UNCHANGED <<num_pages, type, data, job>>

MemorySize ==
    /\ Answer(Num(num_pages))
    /\ UNCHANGED <<num_pages, type, table, data, job>>

\* Mutant: the declared maximum is not looked at.
MemoryGrowFree(n) ==
    LET total == num_pages + Signed(n)
    IN  /\ job = Idle
        /\ IF total < 0 \/ total > NumPageMax
           THEN /\ out' = Num(-1)
                /\ UNCHANGED <<num_pages, type>>
           ELSE /\ num_pages' = total
                /\ type' = [min |-> type.min + Signed(n), max |-> type.max]
                /\ out' = Num(num_pages)
        /\ UNCHANGED <<table, data, job>>

\* n is an int32_t, num_pages a size_t: a negative sum is a huge number.
MemoryGrow(n) ==
    LET total == num_pages + Signed(n)
    IN  /\ job = Idle
        /\ IF \/ total < 0
              \/ type.max # 0 /\ total > type.max
              \/ total > NumPageMax
           THEN /\ out' = Num(-1)
                /\ UNCHANGED <<num_pages, type>>
           ELSE /\ num_pages' = total
                /\ type' = [min |-> type.min + Signed(n), max |-> type.max]
                /\ out' = Num(num_pages)
        /\ UNCHANGED <<table, data, job>>

DataDrop(seg) ==
    /\ Answer(Done)
    /\ data' = [data EXCEPT ![seg] = <<>>]
    /\ UNCHANGED <<num_pages, type, table, job>>

-----------------------------------------------------------------------------
(* Bulk instructions: one bounds check, then one step per byte.            *)

Begin(ok, j) ==
    /\ job = Idle
    /\ IF ok THEN job' = j /\ out' = Done
             ELSE job' = job /\ out' = Trapped
    /\ UNCHANGED <<num_pages, type, table, data>>

\* Mutant: the end of the range is computed in 32 bits.
MemoryFillNarrow(d, val, n) ==
    Begin(InBounds((d + n) % W, 0), Job("fill", d, 0, n, val, NULL))

MemoryFill(d, val, n) == Begin(InBounds(d, n), Job("fill", d, 0, n, val, NULL))

\* Mutant: only the destination is checked.
MemoryCopyUnchecked(d, s, n) ==
    Begin(InBounds(d, n), Job("copy", d, s, n, Zero, NULL))

MemoryCopy(d, s, n) ==
    Begin(InBounds(s, n) /\ InBounds(d, n), Job("copy", d, s, n, Zero, NULL))

MemoryInit(seg, d, s, n) ==
    Begin(s + n <= Len(data[seg]) /\ InBounds(d, n), Job("init", d, s, n, Zero, seg))

\* The nested i32.store8 checks its own address again and leaves the memory
\* alone if it is out of bounds; memory.fill and memory.copy ignore its error.
Store8(a, b) == table' = IF InBounds(a, 1) THEN Poke(a, b) ELSE table

Advance(d, s) ==
    /\ job' = Job(job.op, d, s, Wrap(job.n - 1), job.val, job.seg)
    /\ UNCHANGED <<num_pages, type, data, instr, out>>

FillStep ==
    /\ job.op = "fill" /\ job.n # 0
    /\ Store8(job.d, job.val)
    /\ Advance(Wrap(job.d + 1), job.s)

InitStep ==
    /\ job.op = "init" /\ job.n # 0
    /\ Store8(job.d, data[job.seg][job.s + 1])
    /\ Advance(Wrap(job.d + 1), job.s + 1)

\* Mutant: copies upwards whatever the overlap.
CopyStepUp ==
    /\ job.op = "copy" /\ job.n # 0
    /\ Store8(job.d, Peek(job.s))
    /\ Advance(Wrap(job.d + 1), Wrap(job.s + 1))

\* Mutant: n is decremented on the way up only.
CopyStepStuck ==
    /\ job.op = "copy" /\ job.n # 0
    /\ IF Signed(job.d) <= Signed(job.s)
       THEN /\ Store8(job.d, Peek(job.s))
            /\ Advance(Wrap(job.d + 1), Wrap(job.s + 1))
       ELSE /\ Store8(Wrap(job.d + job.n - 1), Peek(Wrap(job.s + job.n - 1)))
            /\ UNCHANGED <<num_pages, type, data, job, instr, out>>

\* d <= s compares two int32_t.
CopyStep ==
    /\ job.op = "copy" /\ job.n # 0
    /\ IF Signed(job.d) <= Signed(job.s)
       THEN /\ Store8(job.d, Peek(job.s))
            /\ Advance(Wrap(job.d + 1), Wrap(job.s + 1))
       ELSE /\ Store8(Wrap(job.d + job.n - 1), Peek(Wrap(job.s + job.n - 1)))
            /\ Advance(job.d, job.s)

BulkEnd ==
    /\ job # Idle /\ job.n = 0
    /\ job' = Idle
    /\ UNCHANGED <<num_pages, type, table, data, instr, out>>

-----------------------------------------------------------------------------

BulkStep == FillStep \/ CopyStep \/ InitStep \/ BulkEnd

Crossing(r) ==
    /\ r.op \in {"load", "store"}
    /\ LET ea == r.i + r.offset
           n  == IF r.op = "load" THEN r.n ELSE Len(r.v)
       IN  InBounds(ea, n) /\ Crosses(ea, n)

\* The operands are popped off the operand stack.
Fetch(r) ==
    /\ job = Idle /\ instr = NULL
    /\ Crossing(r) => Straddle
    /\ instr' = r
    /\ out' = Done
    /\ UNCHANGED <<num_pages, type, table, data, job>>

Execute(r) ==
    /\ instr' = NULL
    /\ \/ r.op = "load" /\ Load(r.i, r.offset, r.n)
       \/ r.op = "store" /\ Store(r.i, r.offset, r.v)
       \/ r.op = "size" /\ MemorySize
       \/ r.op = "grow" /\ MemoryGrow(r.n)
       \/ r.op = "drop" /\ DataDrop(r.seg)
       \/ r.op = "fill" /\ MemoryFill(r.d, r.val, r.n)
       \/ r.op = "copy" /\ MemoryCopy(r.d, r.s, r.n)
       \/ r.op = "init" /\ MemoryInit(r.seg, r.d, r.s, r.n)

Next ==
    \/ \E r \in Instrs : Fetch(r)
    \/ instr # NULL /\ Execute(instr)
    \/ BulkStep

Spec == Init /\ [][Next]_vars

\* The loop of a bulk instruction runs on.
FairSpec == Spec /\ WF_vars(BulkStep)

-----------------------------------------------------------------------------
(* Properties.                                                             *)

Jobs == {Idle}
        \cup [op : {"fill", "copy"}, d : I32, s : Nat, n : I32, val : Byte, seg : {NULL}]
        \cup [op : {"init"}, d : I32, s : Nat, n : I32, val : Byte, seg : Segments]

Outs == {Done, Trapped} \cup [kind : {"num"}, num : Int]
        \cup [kind : {"bytes"}, bytes : Seq(Byte)]

TypeOK ==
    /\ num_pages \in 0 .. NumPageMax
    /\ type \in [min : Int, max : Nat]
    /\ table \in Tables
    /\ data \in [Segments -> Seq(Byte)]
    /\ job \in Jobs
    /\ instr \in Instrs \cup {NULL}
    /\ out \in Outs

\* The check that a bulk instruction makes once covers every access of its loop:
\* no nested load or store fails, so the errors that memory.fill and memory.copy
\* ignore do not happen, and an instruction that traps has written nothing.
BulkStaysInBounds ==
    job # Idle =>
        /\ InBounds(job.d, job.n)
        /\ job.op = "copy" => job.s \in I32 /\ InBounds(job.s, job.n)
        /\ job.op = "init" => job.s + job.n <= Len(data[job.seg])

\* The minimum an importing module is matched against follows the size of the
\* memory, which only memory.grow changes.
MinFollowsSize == type.min = num_pages

\* A memory stays within a declared maximum other than 0.
SizeWithinMax == (HasMax /\ MaxPages # 0) => num_pages <= MaxPages

\* The inductive invariant.
IInv ==
    /\ TypeOK
    /\ BulkStaysInBounds
    /\ MinFollowsSize
    /\ SizeWithinMax
    /\ HasMax => type.max = MaxPages

\* The loop of a bulk instruction comes to its end, though its counter is an
\* int32_t that may start out negative.
BulkEnds == job # Idle ~> job = Idle

\* memory.grow only ever grows the memory: "grow n page(always success)".
GrowNeverShrinks == [][num_pages' >= num_pages]_num_pages
=============================================================================
