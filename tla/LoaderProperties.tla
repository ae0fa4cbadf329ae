-------------------------- MODULE LoaderProperties --------------------------
(***************************************************************************)
(* What the store, instantiate and the runner promise to the modules of a  *)
(* script.                                                                 *)
(***************************************************************************)
EXTENDS Loader

Allocated(kind) ==
    CASE kind = "func"   -> DOMAIN funcs
      [] kind = "table"  -> DOMAIN tables
      [] kind = "mem"    -> DOMAIN mems
      [] kind = "global" -> DOMAIN globals

\* Every address that an instance, an export, a table entry, a segment or a
\* reference in a global holds has been allocated in the store (alloc_func and
\* its likes, instantiate).
AddressesAllocated ==
    /\ \A f \in Elems(funcs) : f.inst \in DOMAIN insts
    /\ \A t \in Elems(tables) : Elems(t.elem) \subseteq DOMAIN funcs \cup {0}
    /\ \A e \in Elems(elems) : Elems(e) \subseteq DOMAIN funcs \cup {0}
    /\ \A g \in Elems(globals) : g.gt.type = "funcref" => g.val \in DOMAIN funcs \cup {0}
    /\ \A i \in Elems(insts) :
          /\ Elems(i.funcaddrs) \subseteq DOMAIN funcs
          /\ Elems(i.tableaddrs) \subseteq DOMAIN tables
          /\ Elems(i.memaddrs) \subseteq DOMAIN mems
          /\ Elems(i.globaladdrs) \subseteq DOMAIN globals
          /\ Elems(i.elemaddrs) \subseteq DOMAIN elems
          /\ Elems(i.dataaddrs) \subseteq DOMAIN datas
          /\ \A e \in Elems(i.exports) : e.kind \in Kinds /\ e.addr \in Allocated(e.kind)
    /\ Elems(linked) \subseteq DOMAIN test_modules
    /\ current \in DOMAIN test_modules \cup {NULL}

-----------------------------------------------------------------------------
(* Instances                                                               *)

Complete(i) ==
    LET M == Modules[insts[i].module]
    IN  /\ Len(insts[i].funcaddrs) = Space(M, "func")
        /\ Len(insts[i].tableaddrs) = Space(M, "table")
        /\ Len(insts[i].memaddrs) = Space(M, "mem")
        /\ Len(insts[i].globaladdrs) = Space(M, "global")
        /\ Len(insts[i].elemaddrs) = Len(M.elems)
        /\ Len(insts[i].dataaddrs) = Len(M.datas)

\* The functions that somebody can call: through a table, as an export of an
\* instance the runner kept, or as the start function.
Runnable ==
    ((UNION {Elems(t.elem) : t \in Elems(tables)}) \ {0})
      \cup {e.addr : e \in {x \in UNION {Elems(insts[t.inst].exports) : t \in Elems(test_modules)} :
                               x.kind = "func"}}
      \cup (IF job.step = "start" THEN Elems(Inst.funcaddrs) ELSE {})

\* A function that can be called belongs to an instance all of whose address
\* vectors are filled, even if the instantiation that made it trapped after it
\* had put the function into the table of another instance (instantiate).
RunnableIsComplete == \A f \in Runnable : Complete(funcs[f].inst)

\* The import d, with the address x it got, is satisfied by what is there now.
Satisfied(M, d, x) ==
    CASE d.kind = "func"   -> funcs[x].type = At(M.types, d.desc.func)
      [] d.kind = "table"  ->
             /\ Len(tables[x].elem) >= d.desc.min
             /\ d.desc.has_max => Len(tables[x].elem) <= d.desc.max
      [] d.kind = "mem"    ->
             /\ Len(mems[x].bytes) >= d.desc.min * PageSize
             /\ d.desc.has_max => Len(mems[x].bytes) <= d.desc.max * PageSize
      [] d.kind = "global" -> globals[x].gt = d.desc

AddressOf(i, kind) ==
    CASE kind = "func"   -> i.funcaddrs
      [] kind = "table"  -> i.tableaddrs
      [] kind = "mem"    -> i.memaddrs
      [] kind = "global" -> i.globaladdrs

\* What an instance imported keeps the size and the type it declared for it,
\* whatever other instances do to it later (resolve_imports, instantiate).
ImportsStayMatched ==
    \A i \in Elems(insts) : \A kind \in Kinds :
        LET M == Modules[i.module]
            ds == OfKind(M.imports, kind)
        IN  \A n \in DOMAIN ds : Satisfied(M, ds[n], AddressOf(i, kind)[n])

\* An export that a module refused: of another kind, of another type, smaller
\* than the import asks for or allowed to get larger.  A table counts with the
\* size it was allocated with; table.grow does not tell the type.
Misfit(M, d, e) ==
    \/ e.kind # d.kind
    \/ e.kind \in {"func", "global", "mem"} /\ ~Satisfied(M, d, e.addr)
    \/ e.kind = "table" /\ tables[e.addr].type.min < d.desc.min
    \/ e.kind \in {"table", "mem"} /\ d.desc.has_max /\
          LET l == IF e.kind = "table" THEN tables[e.addr].type ELSE mems[e.addr].type
          IN  l.has_max => l.max > d.desc.max

\* A module is called unlinkable only if one of its imports is missing or does
\* not fit: of a memory that functions grew, the type in the store tells the
\* size it has now (match_memtype, memory.grow).
RefusesOnlyMisfits ==
    verdict.what = "unlinkable" =>
        LET M == Modules[verdict.module]
        IN  \E d \in Elems(M.imports) :
               Export(d) = <<>> \/ Misfit(M, d, Head(Export(d)))

\* The bodies of an instance take references only to functions that are
\* mentioned outside of them (C.refs in validate_module, OP_REF_FUNC).
DeclaredOnly ==
    \A i \in Elems(insts) : Modules[i.module].refs \subseteq Declared(Modules[i.module])

-----------------------------------------------------------------------------
(* Segments                                                                *)

ValueOf(i, e) ==
    CASE e.op = "i32" -> e.n
      [] e.op = "get" -> globals[At(i.globaladdrs, e.x)].val

\* An instance the runner keeps has all of its active data in memory, except
\* where a later instance wrote over it, and all of its active and declarative
\* element segments are dropped (instantiate, elem.drop).
SegmentsInPlace ==
    \A t \in Elems(test_modules) :
        LET i == insts[t.inst]
            M == Modules[i.module]
        IN  /\ \A n \in DOMAIN M.datas : M.datas[n].mode = "active" =>
                   LET at == ValueOf(i, M.datas[n].offset)
                   IN  \A k \in at + 1 .. at + M.datas[n].len :
                          /\ k \in DOMAIN mems[i.memaddrs[1]].bytes
                          /\ mems[i.memaddrs[1]].bytes[k] >= t.inst
            /\ \A n \in DOMAIN M.elems :
                   M.elems[n].mode # "passive" => elems[i.elemaddrs[n]] = <<>>

\* Until its start function runs, an instantiation changes no table and no
\* memory but those of its own address vectors and no other instance; and a
\* segment that does not fit is not written at all.
InstantiationIsLocal ==
    [][/\ job.step \notin {"idle", "start"} =>
              /\ \A a \in DOMAIN tables \ Elems(Inst.tableaddrs) : tables'[a] = tables[a]
              /\ \A a \in DOMAIN mems \ Elems(Inst.memaddrs) : mems'[a] = mems[a]
              /\ \A i \in DOMAIN insts \ {job.inst} : insts'[i] = insts[i]
              /\ verdict'.what = "trapped" => UNCHANGED store
      ]_vars

-----------------------------------------------------------------------------
(* Names                                                                   *)

\* An import that names a registered instance finds that instance, however many
\* modules were loaded since (register, find_exported_module).
NamesFindTheirInstance ==
    \A t \in DOMAIN test_modules :
        test_modules[t].export_name # NoName => FindExported(test_modules[t].export_name) = t
=============================================================================
