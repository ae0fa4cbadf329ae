---------------------------- MODULE ModuleFields ----------------------------
(***************************************************************************)
(* The fields of a decoded module and what validate_module checks of them, *)
(* function bodies left out: those are the subject of Validator.  A module *)
(* is a record; indices count from 0 as they do in the code.  All tables   *)
(* hold functions and all functions but the start function have one type   *)
(* name each; a constant expression is one instruction.                    *)
(***************************************************************************)
EXTENDS Integers, Sequences, FiniteSets

CONSTANTS
    MaxPages, \* 2^16, the k of validate_memtype
    JunkRefs  \* the function indices malloc may hand out as marked

ASSUME PagesAssumption == MaxPages \in Nat /\ JunkRefs \subseteq Nat

Unit == "unit" \* the function type [] -> []

\* VECTOR_ELEM
In(s, x) == x < Len(s)
At(s, x) == s[x + 1]

Map(s, Op(_)) == [i \in 1 .. Len(s) |-> Op(s[i])]
Elems(s) == {s[i] : i \in 1 .. Len(s)}

\* The elements of s that are in P, in their order: a loop that looks through s.
Where(s, P) ==
    LET found[n \in 0 .. Len(s)] ==
            IF n = 0 THEN <<>>
            ELSE IF s[n] \in P THEN Append(found[n - 1], s[n]) ELSE found[n - 1]
    IN  found[Len(s)]

OfKind(ds, kind) == Where(ds, {d \in Elems(ds) : d.kind = kind})

\* What decode_module hands over.
Kinds == {"func", "table", "mem", "global"}
LimitsType == [min : Nat, max : Nat, has_max : BOOLEAN]
GlobalType == [type : {"i32", "funcref"}, mut : BOOLEAN]
Expr == [op : {"i32"}, n : Nat] \cup [op : {"func", "get"}, x : Nat] \cup [op : {"null", "other"}]

GlobalDecl == [gt : GlobalType, init : Expr]
ElemDecl ==
    [mode : {"active", "passive", "declarative"}, table : Nat, offset : Expr, init : Seq(Expr)]
DataDecl == [mode : {"active", "passive"}, memory : Nat, offset : Expr, len : Nat]

IsSequence(s) == s \in Seq(Elems(s))

IsImport(d) ==
    /\ d.kind \in Kinds
    /\ CASE d.kind = "func"              -> d.desc.func \in Nat
         [] d.kind \in {"table", "mem"} -> d.desc \in LimitsType
         [] d.kind = "global"            -> d.desc \in GlobalType

IsModule(M) ==
    /\ IsSequence(M.types) /\ IsSequence(M.imports) /\ IsSequence(M.exports)
    /\ \A d \in Elems(M.imports) : IsImport(d)
    /\ M.funcs \in Seq(Nat)
    /\ M.tables \in Seq(LimitsType) /\ M.mems \in Seq(LimitsType)
    /\ M.globals \in Seq(GlobalDecl) /\ M.elems \in Seq(ElemDecl) /\ M.datas \in Seq(DataDecl)
    /\ \A e \in Elems(M.exports) : e.kind \in Kinds /\ e.idx \in Nat
    /\ M.has_start \in BOOLEAN /\ M.start \in Nat /\ M.refs \subseteq Nat

\* What the imports of one kind describe.
Imported(M, kind) ==
    LET Desc(d) == d.desc
    IN  Map(OfKind(M.imports, kind), Desc)

\* The type indices of the imported functions.
ImportedTypes(M) ==
    LET Index(d) == d.func
    IN  Map(Imported(M, "func"), Index)

\* C.funcs, C.tables, C.mems; C.globals while constant expressions are
\* validated and after that.
FuncTypes(M) ==
    LET Type(x) == At(M.types, x)
    IN  Map(ImportedTypes(M) \o M.funcs, Type)
TableTypes(M) == Imported(M, "table") \o M.tables
MemTypes(M) == Imported(M, "mem") \o M.mems
ConstGlobals(M) == Imported(M, "global")
GlobalTypes(M) ==
    LET Type(g) == g.gt
    IN  ConstGlobals(M) \o Map(M.globals, Type)

Space(M, kind) ==
    CASE kind = "func"   -> Len(ImportedTypes(M) \o M.funcs)
      [] kind = "table"  -> Len(TableTypes(M))
      [] kind = "mem"    -> Len(MemTypes(M))
      [] kind = "global" -> Len(GlobalTypes(M))

Limited(l, k) ==
    /\ l.min <= k
    /\ l.has_max => l.max <= k /\ l.min <= l.max

\* The tables of a module are limited by what fits their type, 2^32 - 1.
ValidTable(l) == l.has_max => l.min <= l.max
ValidMem(l) == Limited(l, MaxPages)

-----------------------------------------------------------------------------
(* Constant expressions and references to functions                        *)

FuncsNamed(es) == {e.x : e \in {f \in es : f.op = "func"}}

Initialisers(M) ==
    {g.init : g \in Elems(M.globals)} \cup UNION {Elems(e.init) : e \in Elems(M.elems)}

Exported(M) == {e.idx : e \in {d \in Elems(M.exports) : d.kind = "func"}}

\* The functions a body may take a reference to.
Declared(M) == FuncsNamed(Initialisers(M)) \cup Exported(M)

\* C.refs: of an import it is the type index that is marked.
refs(M) ==
    {x \in Declared(M) \cup Elems(ImportedTypes(M)) \cup JunkRefs : x < Space(M, "func")}

is_constant_expr(M, e) ==
    CASE e.op = "get" -> In(ConstGlobals(M), e.x) => ~At(ConstGlobals(M), e.x).mut
      [] e.op = "other" -> FALSE
      [] OTHER -> TRUE

\* The expression leaves one value of type t.
Leaves(M, e, t) ==
    CASE e.op = "i32"  -> t = "i32"
      [] e.op = "null" -> t = "funcref"
      [] e.op = "func" -> t = "funcref" /\ e.x < Space(M, "func") /\ e.x \in refs(M)
      [] e.op = "get"  -> In(ConstGlobals(M), e.x) /\ At(ConstGlobals(M), e.x).type = t

ValidConst(M, e, t) == is_constant_expr(M, e) /\ Leaves(M, e, t)

-----------------------------------------------------------------------------
(* validate_module, in its order                                           *)

ValidImport(M, d) ==
    CASE d.kind = "func"   -> In(M.types, d.desc.func)
      [] d.kind = "table"  -> ValidTable(d.desc)
      [] d.kind = "mem"    -> ValidMem(d.desc)
      [] d.kind = "global" -> TRUE

ValidElem(M, e) ==
    /\ \A i \in Elems(e.init) : ValidConst(M, i, "funcref")
    /\ e.mode = "active" =>
           In(TableTypes(M), e.table) /\ ValidConst(M, e.offset, "i32")

ValidData(M, d) ==
    d.mode = "active" => In(MemTypes(M), d.memory) /\ ValidConst(M, d.offset, "i32")

\* Mutant: a body may take a reference to any function of the module.
ValidBodiesAny(M) == M.refs \subseteq 0 .. Space(M, "func") - 1

\* What OP_REF_FUNC asks of the bodies.
ValidBodies(M) == M.refs \subseteq 0 .. Space(M, "func") - 1 /\ M.refs \subseteq refs(M)

ValidExport(M, e) == e.idx < Space(M, e.kind)

Valid(M) ==
    /\ \A d \in Elems(M.imports) : ValidImport(M, d)
    /\ \A x \in Elems(M.funcs) : In(M.types, x)
    /\ M.has_start => In(FuncTypes(M), M.start) /\ At(FuncTypes(M), M.start) = Unit
    /\ \A l \in Elems(M.tables) : ValidTable(l)
    /\ \A l \in Elems(M.mems) : ValidMem(l)
    /\ \A g \in Elems(M.globals) : ValidConst(M, g.init, g.gt.type)
    /\ \A e \in Elems(M.elems) : ValidElem(M, e)
    /\ \A d \in Elems(M.datas) : ValidData(M, d)
    /\ ValidBodies(M)
    /\ Len(MemTypes(M)) <= 1
    /\ \A i, j \in 1 .. Len(M.exports) : M.exports[i].name = M.exports[j].name => i = j
    /\ \A e \in Elems(M.exports) : ValidExport(M, e)
=============================================================================
