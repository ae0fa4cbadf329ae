------------------------------ MODULE MCLoader ------------------------------
(* Model checking of scripts over six modules that share what one exports. *)
EXTENDS LoaderProperties

Limits(min, max) == [min |-> min, max |-> max, has_max |-> max > 0]
I32(n) == [op |-> "i32", n |-> n]
FuncRef(x) == [op |-> "func", x |-> x]
GlobalGet(x) == [op |-> "get", x |-> x]
Int32 == [type |-> "i32", mut |-> FALSE]

Import(name, kind, desc) == [from |-> "A", name |-> name, kind |-> kind, desc |-> desc]
Export1(name, kind) == [name |-> name, kind |-> kind, idx |-> 0]
ActiveElem(offset, init) == [mode |-> "active", table |-> 0, offset |-> offset, init |-> init]
ActiveData(offset) == [mode |-> "active", memory |-> 0, offset |-> offset, len |-> 1]

Empty ==
    [types |-> <<Unit, "binary">>, imports |-> <<>>, funcs |-> <<>>, tables |-> <<>>, mems |-> <<>>,
     globals |-> <<>>, elems |-> <<>>, datas |-> <<>>, exports |-> <<>>,
     has_start |-> FALSE, start |-> 0, refs |-> {}]

\* A function, a table with that function, a memory and a global for others; the
\* function also runs at the start.
Exporter ==
    [Empty EXCEPT
        !.funcs = <<0>>, !.tables = <<Limits(1, 2)>>, !.mems = <<Limits(1, 2)>>,
        !.globals = <<[gt |-> Int32, init |-> I32(1)]>>,
        !.elems = <<ActiveElem(I32(0), <<FuncRef(0)>>)>>,
        !.exports = <<Export1("f", "func"), Export1("t", "table"),
                      Export1("m", "mem"), Export1("g", "global")>>,
        !.has_start = TRUE]

\* Puts a function of its own into the table of another and traps, unless that
\* table was grown, with the second segment.
HalfElems ==
    [Empty EXCEPT
        !.imports = <<Import("t", "table", Limits(1, 2)), Import("g", "global", Int32)>>,
        !.funcs = <<0, 0>>,
        !.globals = <<[gt |-> [type |-> "funcref", mut |-> FALSE], init |-> FuncRef(0)],
                      [gt |-> Int32, init |-> I32(0)]>>,
        !.elems = <<ActiveElem(I32(0), <<FuncRef(0)>>), ActiveElem(I32(0), <<FuncRef(1), FuncRef(0)>>)>>]

\* The same with data: the second segment fits once the memory is grown.  Then
\* the start function runs.
HalfDatas ==
    [Empty EXCEPT
        !.imports = <<Import("m", "mem", Limits(1, 2)), Import("t", "table", Limits(1, 0)),
                      Import("g", "global", Int32)>>,
        !.funcs = <<0>>,
        !.elems = <<ActiveElem(I32(0), <<FuncRef(0)>>),
                    [mode |-> "declarative", table |-> 0, offset |-> I32(0), init |-> <<FuncRef(0)>>],
                    [mode |-> "passive", table |-> 0, offset |-> I32(0), init |-> <<FuncRef(0)>>]>>,
        !.datas = <<ActiveData(I32(0)),
                    [mode |-> "passive", memory |-> 0, offset |-> I32(0), len |-> 1],
                    ActiveData(GlobalGet(0))>>,
        !.has_start = TRUE, !.refs = {0}]

\* Links once the memory is grown.
Demanding ==
    [Empty EXCEPT
        !.imports = <<Import("m", "mem", Limits(2, 2)), Import("f", "func", [func |-> 0])>>,
        !.exports = <<Export1("f", "func")>>]

\* Imports a function of another type.
Unlinkable == [Empty EXCEPT !.imports = <<Import("f", "func", [func |-> 1])>>]

\* Refers in its body to a function that nothing declares.
Undeclared ==
    [Empty EXCEPT !.funcs = <<0, 0>>, !.exports = <<Export1("f", "func")>>, !.refs = {1}]

Script ==
    [m \in {"exporter", "half_elems", "half_datas", "demanding", "unlinkable", "undeclared"} |->
        CASE m = "exporter"   -> Exporter
          [] m = "half_elems" -> HalfElems
          [] m = "half_datas" -> HalfDatas
          [] m = "demanding"  -> Demanding
          [] m = "unlinkable" -> Unlinkable
          [] m = "undeclared" -> Undeclared]
=============================================================================
