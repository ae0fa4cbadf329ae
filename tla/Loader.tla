------------------------------- MODULE Loader -------------------------------
(***************************************************************************)
(* The store, instantiate and the script runner that loads modules, links  *)
(* them by name and calls what they export.  Addresses are the positions   *)
(* of the vectors of the store, from 1, and 0 is the null reference.       *)
(* instantiate is taken apart into the steps at which it can fail: the     *)
(* interpreter runs in between, and what a failed instantiation has done   *)
(* to the store stays.                                                     *)
(*                                                                         *)
(* What the functions do when they are called is left open as far as their *)
(* instance lets them: Effect.                                             *)
(***************************************************************************)
EXTENDS ModuleFields

CONSTANTS
    Modules,      \* the modules of the script: a function from file names,
    Ids,          \* the names it gives to instances
    Names,        \* and those it registers them under
    PageSize,     \* bytes of a page
    MaxInsts,     \* the most instantiations of a script
    Reregister,   \* whether the script registers an instance or a name again
    NoName, NULL

ASSUME LoaderAssumption ==
    /\ PageSize \in Nat \ {0} /\ MaxInsts \in Nat
    /\ Reregister \in BOOLEAN
    /\ NoName \notin Names \cup Ids
    /\ NULL \notin Nat
    /\ \A m \in DOMAIN Modules : IsModule(Modules[m])

VARIABLES
    funcs,    \* S->funcs: the instance and the type of each function
    tables,   \* S->tables: type and entries
    mems,     \* S->mems: type, and who wrote each byte
    globals,  \* S->globals: type and value
    elems,    \* S->elems
    datas,    \* S->datas
    insts,    \* the module instances, in the order of their making
    test_modules, \* the test modules that were made,
    linked,       \* those in the list, in its order,
    current,      \* and current_test_module
    job,      \* the instantiation in progress
    verdict   \* what became of the last command

store == <<funcs, tables, mems, globals, elems, datas>>
host == <<test_modules, linked, current>>
vars == <<store, insts, host, job, verdict>>

Idle == [step |-> "idle"]

\* The outcome of a command and, if it loads one, its module.
Said(what, m) == [what |-> what, module |-> m]

Init ==
    /\ funcs = <<>> /\ tables = <<>> /\ mems = <<>>
    /\ globals = <<>> /\ elems = <<>> /\ datas = <<>>
    /\ insts = <<>>
    /\ test_modules = <<>> /\ linked = <<>> /\ current = NULL
    /\ job = Idle
    /\ verdict = Said("none", NULL)

-----------------------------------------------------------------------------
(* Linking                                                                 *)

\* find_exported_module: the first in the list.
FindExported(name) ==
    LET found == Where(linked, {t \in Elems(linked) : test_modules[t].export_name = name})
    IN  IF found = <<>> THEN NULL ELSE Head(found)

\* find_export
FindExport(t, name) ==
    LET exports == insts[test_modules[t].inst].exports
    IN  Where(exports, {e \in Elems(exports) : e.name = name})

match_limits(l1, l2) ==
    /\ l1.min >= l2.min
    /\ l2.has_max => l1.has_max /\ l1.max <= l2.max

\* Mutant: the limits of memories are not compared.
MatchesAnyMem(M, d, ext) ==
    /\ ext.kind = d.kind
    /\ CASE d.kind = "func"   -> funcs[ext.addr].type = At(M.types, d.desc.func)
         [] d.kind = "table"  -> match_limits(tables[ext.addr].type, d.desc)
         [] d.kind = "mem"    -> TRUE
         [] d.kind = "global" -> globals[ext.addr].gt = d.desc

\* The type check of resolve_imports.
Matches(M, d, ext) ==
    /\ ext.kind = d.kind
    /\ CASE d.kind = "func"   -> funcs[ext.addr].type = At(M.types, d.desc.func)
         [] d.kind = "table"  -> match_limits(tables[ext.addr].type, d.desc)
         [] d.kind = "mem"    -> match_limits(mems[ext.addr].type, d.desc)
         [] d.kind = "global" -> globals[ext.addr].gt = d.desc

Export(d) == FindExport(FindExported(d.from), d.name)

Resolved(M) ==
    \A d \in Elems(M.imports) : Export(d) # <<>> /\ Matches(M, d, Head(Export(d)))

\* The input: the runner looks into a module nobody has registered.
NamesKnown(M) == \A d \in Elems(M.imports) : FindExported(d.from) # NULL

Refuse(m, why) ==
    /\ job = Idle
    /\ verdict' = Said(why, m)
    /\ UNCHANGED <<store, insts, host, job>>

\* What validate_module accepts of the script.
ValidModules == {m \in DOMAIN Modules : Valid(Modules[m])}

\* assert_invalid, assert_unlinkable
AssertInvalid(m) == m \notin ValidModules /\ Refuse(m, "invalid")

AssertUnlinkable(m) ==
    /\ m \in ValidModules /\ NamesKnown(Modules[m]) /\ ~Resolved(Modules[m])
    /\ Refuse(m, "unlinkable")

-----------------------------------------------------------------------------
(* instantiate                                                             *)

Inst == insts[job.inst]
Mod == Modules[Inst.module]

\* Mutant: VECTOR_APPEND returns the new length, addresses start from 0.
AddressesNext(old, n) == [i \in 1 .. n |-> Len(old) + i + 1]

Addresses(old, n) == [i \in 1 .. n |-> Len(old) + i]

ImportedAddrs(M, kind) ==
    LET Addr(d) == Head(Export(d)).addr
    IN  Map(OfKind(M.imports, kind), Addr)

\* alloc_func, alloc_table and alloc_mem; the others wait for their values.
NewFuncs(M) ==
    LET New(x) == [inst |-> Len(insts) + 1, type |-> At(M.types, x)] IN Map(M.funcs, New)
NewTables(M) ==
    LET New(l) == [type |-> l, elem |-> [k \in 1 .. l.min |-> 0]] IN Map(M.tables, New)
NewMems(M) ==
    LET New(l) == [type |-> l, bytes |-> [k \in 1 .. l.min * PageSize |-> 0]] IN Map(M.mems, New)

NewInst(m, M) ==
    [module      |-> m,
     funcaddrs   |-> ImportedAddrs(M, "func") \o Addresses(funcs, Len(M.funcs)),
     tableaddrs  |-> ImportedAddrs(M, "table") \o Addresses(tables, Len(M.tables)),
     memaddrs    |-> ImportedAddrs(M, "mem") \o Addresses(mems, Len(M.mems)),
     dataaddrs   |-> Addresses(datas, Len(M.datas)),
     globaladdrs |-> ImportedAddrs(M, "global"),
     elemaddrs   |-> <<>>,
     exports     |-> <<>>]

\* The module is decoded, valid and linked: its imports and whatever needs no
\* value is allocated, and a frame is pushed for the expressions that follow.
BeginInstantiate(m, name) ==
    /\ job = Idle
    /\ Len(insts) < MaxInsts
    /\ LET M == Modules[m] IN
       /\ m \in ValidModules /\ NamesKnown(M) /\ Resolved(M)
       /\ insts' = Append(insts, NewInst(m, M))
       /\ funcs' = funcs \o NewFuncs(M)
       /\ tables' = tables \o NewTables(M)
       /\ mems' = mems \o NewMems(M)
       /\ datas' = datas \o Map(M.datas, LAMBDA d : d.len)
    /\ job' = [step |-> "globals", i |-> 1, inst |-> Len(insts) + 1, name |-> name]
    /\ verdict' = Said("linked", m)
    /\ UNCHANGED <<globals, elems, host>>

Eval(e) ==
    CASE e.op = "i32"  -> e.n
      [] e.op = "null" -> 0
      [] e.op = "func" -> At(Inst.funcaddrs, e.x)
      [] e.op = "get"  -> globals[At(Inst.globaladdrs, e.x)].val

Goto(step) == job' = [job EXCEPT !.step = step, !.i = 1]
Again == job' = [job EXCEPT !.i = @ + 1]

\* Mutant: the loop counts with globalidx, which starts behind the imports.
AllocGlobalByIndex ==
    /\ job.step = "globals"
    /\ IF Len(Inst.globaladdrs) >= Len(Mod.globals)
       THEN Goto("elems") /\ UNCHANGED <<globals, insts>>
       ELSE LET g == Mod.globals[job.i] IN
            /\ globals' = Append(globals, [gt |-> g.gt, val |-> Eval(g.init)])
            /\ insts' = [insts EXCEPT ![job.inst].globaladdrs = Append(@, Len(globals) + 1)]
            /\ Again
    /\ UNCHANGED <<funcs, tables, mems, elems, datas, host, verdict>>

AllocGlobal ==
    /\ job.step = "globals"
    /\ IF job.i > Len(Mod.globals)
       THEN Goto("elems") /\ UNCHANGED <<globals, insts>>
       ELSE LET g == Mod.globals[job.i] IN
            /\ globals' = Append(globals, [gt |-> g.gt, val |-> Eval(g.init)])
            /\ insts' = [insts EXCEPT ![job.inst].globaladdrs = Append(@, Len(globals) + 1)]
            /\ Again
    /\ UNCHANGED <<funcs, tables, mems, elems, datas, host, verdict>>

AllocElem ==
    /\ job.step = "elems"
    /\ IF job.i > Len(Mod.elems)
       THEN Goto("exports") /\ UNCHANGED <<elems, insts>>
       ELSE /\ elems' = Append(elems, Map(Mod.elems[job.i].init, Eval))
            /\ insts' = [insts EXCEPT ![job.inst].elemaddrs = Append(@, Len(elems) + 1)]
            /\ Again
    /\ UNCHANGED <<funcs, tables, mems, globals, datas, host, verdict>>

ExportInst(e) ==
    [name |-> e.name, kind |-> e.kind,
     addr |-> CASE e.kind = "func"   -> At(Inst.funcaddrs, e.idx)
                [] e.kind = "table"  -> At(Inst.tableaddrs, e.idx)
                [] e.kind = "mem"    -> At(Inst.memaddrs, e.idx)
                [] e.kind = "global" -> At(Inst.globaladdrs, e.idx)]

CreateExports ==
    /\ job.step = "exports"
    /\ insts' = [insts EXCEPT ![job.inst].exports = Map(Mod.exports, ExportInst)]
    /\ Goto("tables")
    /\ UNCHANGED <<store, host, verdict>>

\* The error is handed to the runner; assert_uninstantiable expects it.  The
\* new instance gets no test module, but its functions are in the store.
Fail ==
    /\ job' = Idle
    /\ verdict' = Said("trapped", Inst.module)

Written(s, at, xs) ==
    [k \in 1 .. Len(s) |-> IF k \in at + 1 .. at + Len(xs) THEN xs[k - at] ELSE s[k]]

\* elem.drop, for active segments behind table.init.
Dropped == [elems EXCEPT ![Inst.elemaddrs[job.i]] = <<>>]

\* Mutant: what fits of an active segment is written before the trap.
InitTablePartly ==
    LET e == Mod.elems[job.i]
        t == At(Inst.tableaddrs, e.table)
        xs == elems[Inst.elemaddrs[job.i]]
        at == Eval(e.offset)
    IN  /\ tables' = [tables EXCEPT ![t].elem = Written(@, at, xs)]
        /\ IF at + Len(xs) > Len(tables[t].elem)
           THEN Fail /\ UNCHANGED elems
           ELSE elems' = Dropped /\ Again /\ UNCHANGED verdict

InitTable ==
    LET e == Mod.elems[job.i]
        t == At(Inst.tableaddrs, e.table)
        xs == elems[Inst.elemaddrs[job.i]]
        at == Eval(e.offset)
    IN  IF at + Len(xs) > Len(tables[t].elem)
        THEN Fail /\ UNCHANGED <<tables, elems>>
        ELSE /\ tables' = [tables EXCEPT ![t].elem = Written(@, at, xs)]
             /\ elems' = Dropped
             /\ Again
             /\ UNCHANGED verdict

InitTables ==
    /\ job.step = "tables"
    /\ IF job.i > Len(Mod.elems)
       THEN Goto("mems") /\ UNCHANGED <<tables, elems, verdict>>
       ELSE CASE Mod.elems[job.i].mode = "active" -> InitTable
              [] Mod.elems[job.i].mode = "declarative" ->
                     elems' = Dropped /\ Again /\ UNCHANGED <<tables, verdict>>
              [] OTHER -> Again /\ UNCHANGED <<tables, elems, verdict>>
    /\ UNCHANGED <<funcs, mems, globals, datas, insts, host>>

\* Mutant: the error of memory.init is not thrown on.
InitMemOn ==
    LET d == Mod.datas[job.i]
        a == At(Inst.memaddrs, 0)
        at == Eval(d.offset)
        xs == [k \in 1 .. datas[Inst.dataaddrs[job.i]] |-> job.inst]
    IN  /\ mems' = IF at + Len(xs) > Len(mems[a].bytes)
                   THEN mems
                   ELSE [mems EXCEPT ![a].bytes = Written(@, at, xs)]
        /\ Again
        /\ UNCHANGED verdict

\* Active data segments are copied and not dropped.
InitMem ==
    LET d == Mod.datas[job.i]
        a == At(Inst.memaddrs, 0)
        at == Eval(d.offset)
        xs == [k \in 1 .. datas[Inst.dataaddrs[job.i]] |-> job.inst]
    IN  IF at + Len(xs) > Len(mems[a].bytes)
        THEN Fail /\ UNCHANGED mems
        ELSE /\ mems' = [mems EXCEPT ![a].bytes = Written(@, at, xs)]
             /\ Again
             /\ UNCHANGED verdict

InitMems ==
    /\ job.step = "mems"
    /\ IF job.i > Len(Mod.datas)
       THEN Goto("start") /\ UNCHANGED <<mems, verdict>>
       ELSE IF Mod.datas[job.i].mode = "active"
       THEN InitMem
       ELSE Again /\ UNCHANGED <<mems, verdict>>
    /\ UNCHANGED <<funcs, tables, globals, elems, datas, insts, host>>

-----------------------------------------------------------------------------
(* Functions                                                               *)

Refs(i) == {At(insts[i].funcaddrs, x) : x \in Modules[insts[i].module].refs}

\* table.grow leaves the type of the table as it was declared.
GrowTable(a) ==
    /\ tables[a].type.has_max => Len(tables[a].elem) < tables[a].type.max
    /\ Len(tables[a].elem) < MaxPages
    /\ tables' = [tables EXCEPT ![a].elem = Append(@, 0)]
    /\ UNCHANGED <<funcs, mems, globals, elems, datas>>

SetTable(a, k, f) ==
    /\ k <= Len(tables[a].elem)
    /\ tables' = [tables EXCEPT ![a].elem[k] = f]
    /\ UNCHANGED <<funcs, mems, globals, elems, datas>>

\* Mutant: memory.grow leaves the type of the memory as it was declared.
GrowMemKeepsMin(a) ==
    /\ mems[a].type.has_max => mems[a].type.min < mems[a].type.max
    /\ Len(mems[a].bytes) < MaxPages * PageSize
    /\ mems' = [mems EXCEPT ![a].bytes = @ \o [k \in 1 .. PageSize |-> 0]]
    /\ UNCHANGED <<funcs, tables, globals, elems, datas>>

\* memory.grow makes the new size the minimum of the type.
GrowMem(a) ==
    /\ mems[a].type.has_max => mems[a].type.min < mems[a].type.max
    /\ mems[a].type.min < MaxPages
    /\ mems' = [mems EXCEPT ![a].type.min = @ + 1,
                            ![a].bytes = @ \o [k \in 1 .. PageSize |-> 0]]
    /\ UNCHANGED <<funcs, tables, globals, elems, datas>>

\* The functions that those of instance i call by their index or find in a
\* table, and the instances that calls lead to in the end.
Called(i) ==
    Elems(insts[i].funcaddrs)
      \cup ((UNION {Elems(tables[a].elem) : a \in Elems(insts[i].tableaddrs)}) \ {0})

Reached(i) ==
    {j \in DOMAIN insts :
        \A S \in SUBSET DOMAIN insts :
            (i \in S /\ \A k \in S : \A f \in Called(k) : funcs[f].inst \in S) => j \in S}

\* A call of a function of instance i has one effect on the store, or none.
Effect(i) ==
    \/ UNCHANGED store
    \/ \E j \in Reached(i) :
           \/ \E a \in Elems(insts[j].tableaddrs) :
                  \/ GrowTable(a)
                  \/ \E k \in 1 .. MaxPages, f \in Refs(j) : SetTable(a, k, f)
           \/ \E a \in Elems(insts[j].memaddrs) : GrowMem(a)

\* The start function, wherever it comes from, may trap after what it did.
Start ==
    /\ job.step = "start"
    /\ IF Mod.has_start
       THEN /\ Effect(funcs[At(Inst.funcaddrs, Mod.start)].inst)
            /\ \/ Fail
               \/ Goto("done") /\ UNCHANGED verdict
       ELSE Goto("done") /\ UNCHANGED <<store, verdict>>
    /\ UNCHANGED <<insts, host>>

\* A named module goes into the list, any module becomes the current one.
CreateTestModule ==
    /\ job.step = "done"
    /\ test_modules' = Append(test_modules,
           [name |-> job.name, export_name |-> NoName, inst |-> job.inst])
    /\ current' = Len(test_modules) + 1
    /\ linked' = IF job.name = NoName THEN linked ELSE Append(linked, Len(test_modules) + 1)
    /\ job' = Idle
    /\ verdict' = Said("passed", NULL)
    /\ UNCHANGED <<store, insts>>

Instantiate ==
    AllocGlobal \/ AllocElem \/ CreateExports \/ InitTables \/ InitMems \/ Start \/ CreateTestModule

-----------------------------------------------------------------------------
(* The other commands                                                      *)

\* The input, unless Reregister: an instance is registered once, under a name
\* of its own.
FreshName(name) ==
    /\ test_modules[current].export_name = NoName
    /\ FindExported(name) = NULL

\* Mutant: a module without a name is not put into the list.
RegisterUnlisted(name) ==
    /\ job = Idle
    /\ current # NULL
    /\ Reregister \/ FreshName(name)
    /\ test_modules' = [test_modules EXCEPT ![current].export_name = name]
    /\ verdict' = Said("passed", NULL)
    /\ UNCHANGED <<store, insts, linked, current, job>>

Register(name) ==
    /\ job = Idle
    /\ current # NULL
    /\ Reregister \/ FreshName(name)
    /\ test_modules' = [test_modules EXCEPT ![current].export_name = name]
    /\ linked' = IF current \in Elems(linked) THEN linked ELSE Append(linked, current)
    /\ verdict' = Said("passed", NULL)
    /\ UNCHANGED <<store, insts, current, job>>

\* find_test_module; the input names a module that is in the list.
Named(name) == Head(Where(linked, {t \in Elems(linked) : test_modules[t].name = name}))
IsNamed(name) == \E t \in Elems(linked) : test_modules[t].name = name

\* An action calls an exported function, of the module it names or of the
\* current one; what it names is the current module from then on.
Invoke(name) ==
    /\ job = Idle
    /\ IF name = NoName THEN current # NULL ELSE IsNamed(name)
    /\ LET t == IF name = NoName THEN current ELSE Named(name)
       IN  /\ \E e \in Elems(insts[test_modules[t].inst].exports) :
                  e.kind = "func" /\ Effect(funcs[e.addr].inst)
           /\ current' = t
    /\ verdict' = Said("passed", NULL)
    /\ UNCHANGED <<insts, test_modules, linked, job>>

Next ==
    \/ \E m \in DOMAIN Modules : AssertInvalid(m) \/ AssertUnlinkable(m)
    \/ \E m \in DOMAIN Modules, name \in Ids \cup {NoName} : BeginInstantiate(m, name)
    \/ Instantiate
    \/ \E name \in Names : Register(name)
    \/ \E name \in Ids \cup {NoName} : Invoke(name)

Spec == Init /\ [][Next]_vars
=============================================================================
