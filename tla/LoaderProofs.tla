---------------------------- MODULE LoaderProofs ----------------------------
(***************************************************************************)
(* Proofs about the loader and the script runner, for any modules, any     *)
(* number of instances and any script: the inductive invariant LInv, which *)
(* follows an instantiation loop by loop, and on top of it what is known   *)
(* of sizes, of the owners of functions and of the segments written.       *)
(***************************************************************************)
EXTENDS LoaderProperties, TLAPS, NaturalsInduction, WellFoundedInduction

-----------------------------------------------------------------------------
(* Induction, as a fact about sets of numbers.                             *)

\* A non-empty part of a well-founded set has a least element.
LEMMA LeastBy ==
    ASSUME NEW R, NEW S, IsWellFoundedOn(R, S), NEW T, T \subseteq S, T # {}
    PROVE  \E x \in T : \A y \in T : ~(<<y, x>> \in R)
  BY WFMin, Zenon

\* The order of the numbers is well founded.
LEMMA LessThan == IsWellFoundedOn({ss \in Nat \X Nat : ss[1] < ss[2]}, Nat)
  BY NatLessThanWellFounded, Zenon DEF OpToRel

\* A non-empty set of numbers has a least one.
LEMMA LeastNat ==
    ASSUME NEW T \in SUBSET Nat, T # {}
    PROVE  \E m \in T : \A k \in T : m <= k
<1> DEFINE R == {ss \in Nat \X Nat : ss[1] < ss[2]}
<1>1. \A k, m \in Nat : k < m => <<k, m>> \in R
  OBVIOUS
<1>2. IsWellFoundedOn(R, Nat)
  BY LessThan
<1> HIDE DEF R
<1>3. T \subseteq Nat
  OBVIOUS
<1>4. \E m \in T : \A k \in T : ~(<<k, m>> \in R)
  BY <1>2, <1>3, LeastBy, Zenon
<1>5. PICK m \in T : \A k \in T : ~(<<k, m>> \in R)
  BY <1>4
<1>6. m \in Nat /\ \A k \in T : k \in Nat /\ ~(k < m)
  BY <1>1, <1>5
<1>7. QED
  BY <1>6

\* Induction, for a set of numbers.
LEMMA Induct ==
    ASSUME NEW T, 0 \in T, \A k \in Nat : k \in T => k + 1 \in T
    PROVE  Nat \subseteq T
<1> DEFINE U == Nat \ T
<1>1. SUFFICES ASSUME U # {} PROVE FALSE
  OBVIOUS
<1>2. PICK m \in U : \A k \in U : m <= k
  BY <1>1, LeastNat
<1>3. m \in Nat /\ m \notin T /\ m # 0
  OBVIOUS
<1>4. m - 1 \in Nat /\ m - 1 \in T
  BY <1>2, <1>3
<1>5. (m - 1) + 1 = m
  BY <1>3
<1>6. QED
  BY <1>3, <1>4, <1>5

-----------------------------------------------------------------------------
(* Looking through a sequence.                                             *)

\* g is what Where remembers after each of the first n elements.
IsSearch(g, s, P, n) ==
    g = [i \in 0 .. n |-> IF i = 0 THEN <<>>
                          ELSE IF s[i] \in P THEN Append(g[i - 1], s[i]) ELSE g[i - 1]]

\* What the function that collects the elements in P does at each index.
LEMMA SearchSteps ==
    ASSUME NEW g, NEW s, NEW P, NEW n \in Nat, IsSearch(g, s, P, n)
    PROVE  /\ g[0] = <<>>
           /\ \A i \in 1 .. n : g[i] = IF s[i] \in P THEN Append(g[i - 1], s[i]) ELSE g[i - 1]
<1>1. \A i \in 0 .. n : g[i] = IF i = 0 THEN <<>>
                                ELSE IF s[i] \in P THEN Append(g[i - 1], s[i]) ELSE g[i - 1]
  BY Zenon DEF IsSearch
<1>2. 0 \in 0 .. n /\ \A i \in 1 .. n : i \in 0 .. n /\ i # 0
  OBVIOUS
<1>3. QED
  BY <1>1, <1>2, Zenon

\* There is such a function.
LEMMA SearchExists ==
    ASSUME NEW s, NEW P, NEW n \in Nat
    PROVE  \E g : IsSearch(g, s, P, n)
<1> DEFINE T == {k \in Nat : \E g : IsSearch(g, s, P, k)}
<1>1. 0 \in T
  <2> DEFINE g == [i \in 0 .. 0 |-> <<>>]
  <2>1. IsSearch(g, s, P, 0)
    BY DEF IsSearch
  <2>2. QED
    BY <2>1
<1>2. ASSUME NEW k \in Nat, k \in T
      PROVE  k + 1 \in T
  <2>1. PICK g : IsSearch(g, s, P, k)
    BY <1>2
  <2> DEFINE h == [i \in 0 .. k + 1 |->
                      IF i = k + 1
                      THEN IF s[i] \in P THEN Append(g[k], s[i]) ELSE g[k]
                      ELSE g[i]]
  <2>2. /\ g[0] = <<>>
        /\ \A i \in 1 .. k : g[i] = IF s[i] \in P THEN Append(g[i - 1], s[i]) ELSE g[i - 1]
    BY <2>1, SearchSteps
  <2>3. h[0] = <<>>
    BY <2>2
  <2>4. ASSUME NEW i \in 1 .. k + 1
        PROVE  h[i] = IF s[i] \in P THEN Append(h[i - 1], s[i]) ELSE h[i - 1]
    <3>1. CASE i = k + 1
      <4>1. h[i - 1] = g[k]
        BY <3>1
      <4>2. QED
        BY <3>1, <4>1
    <3>2. CASE i \in 1 .. k
      <4>1. h[i] = g[i] /\ h[i - 1] = g[i - 1]
        BY <3>2
      <4>2. QED
        BY <3>2, <2>2, <4>1
    <3>3. QED
      BY <3>1, <3>2
  <2>5. h = [i \in 0 .. k + 1 |-> h[i]]
    OBVIOUS
  <2> HIDE DEF h
  <2>6. \A i \in 0 .. k + 1 : h[i] =
           IF i = 0 THEN <<>>
           ELSE IF s[i] \in P THEN Append(h[i - 1], s[i]) ELSE h[i - 1]
    BY <2>3, <2>4
  <2>7. IsSearch(h, s, P, k + 1)
    BY <2>5, <2>6 DEF IsSearch
  <2>8. QED
    BY <2>7
<1> HIDE DEF T
<1>3. Nat \subseteq T
  BY <1>1, <1>2, Induct
<1>4. QED
  BY <1>3 DEF T

\* Where is the last value of such a function.
LEMMA WhereSearches ==
    ASSUME NEW s, NEW P, Len(s) \in Nat
    PROVE  \E g : IsSearch(g, s, P, Len(s)) /\ Where(s, P) = g[Len(s)]
<1> DEFINE g == CHOOSE g : IsSearch(g, s, P, Len(s))
<1>1. IsSearch(g, s, P, Len(s))
  BY SearchExists
<1>2. Where(s, P) = g[Len(s)]
  BY Zenon DEF Where, IsSearch
<1>3. QED
  BY <1>1, <1>2

\* What is found: a sequence of exactly the elements that are in P.
LEMMA WhereFinds ==
    ASSUME NEW X, NEW s \in Seq(X), NEW P
    PROVE  /\ Where(s, P) \in Seq(X)
           /\ Elems(Where(s, P)) = Elems(s) \cap P
<1>1. Len(s) \in Nat
  OBVIOUS
<1>2. PICK g : IsSearch(g, s, P, Len(s)) /\ Where(s, P) = g[Len(s)]
  BY <1>1, WhereSearches
<1>3. /\ g[0] = <<>>
      /\ \A i \in 1 .. Len(s) : g[i] = IF s[i] \in P THEN Append(g[i - 1], s[i]) ELSE g[i - 1]
  BY <1>1, <1>2, SearchSteps
<1> DEFINE T == {k \in Nat : k <= Len(s) =>
                    /\ g[k] \in Seq(X)
                    /\ Elems(g[k]) = {s[i] : i \in 1 .. k} \cap P}
<1>4. 0 \in T
  <2>1. <<>> \in Seq(X) /\ Elems(<<>>) = {} /\ {s[i] : i \in 1 .. 0} = {}
    BY DEF Elems
  <2>2. QED
    BY <1>3, <2>1
<1>5. ASSUME NEW k \in Nat, k \in T
      PROVE  k + 1 \in T
  <2>1. SUFFICES ASSUME k + 1 <= Len(s)
                 PROVE  /\ g[k + 1] \in Seq(X)
                        /\ Elems(g[k + 1]) = {s[i] : i \in 1 .. k + 1} \cap P
    OBVIOUS
  <2>2. /\ g[k] \in Seq(X) /\ Elems(g[k]) = {s[i] : i \in 1 .. k} \cap P
        /\ k + 1 \in 1 .. Len(s) /\ s[k + 1] \in X
    BY <1>1, <1>5, <2>1
  <2>3. g[k + 1] = IF s[k + 1] \in P THEN Append(g[k], s[k + 1]) ELSE g[k]
    <3>1. (k + 1) - 1 = k
      OBVIOUS
    <3>2. QED
      BY <1>3, <2>2, <3>1
  <2>4. {s[i] : i \in 1 .. k + 1} = {s[i] : i \in 1 .. k} \cup {s[k + 1]}
    OBVIOUS
  <2>5. Elems(Append(g[k], s[k + 1])) = Elems(g[k]) \cup {s[k + 1]}
    BY <2>2, SMTT(40) DEF Elems
  <2>6. QED
    BY <2>2, <2>3, <2>4, <2>5
<1> HIDE DEF T
<1>6. Len(s) \in T
  BY <1>1, <1>4, <1>5, Induct
<1>7. QED
  BY <1>1, <1>2, <1>6 DEF T, Elems

-----------------------------------------------------------------------------
(* Sequences and index spaces.                                             *)

\* The length of a sequence.
LEMMA LenOf ==
    ASSUME NEW X, NEW s \in Seq(X)
    PROVE  Len(s) \in Nat
  OBVIOUS

\* A sequence and the set of its elements.
LEMMA SequenceOfElems ==
    ASSUME NEW X, NEW s \in Seq(X)
    PROVE  /\ Len(s) \in Nat /\ DOMAIN s = 1 .. Len(s)
           /\ Elems(s) \subseteq X
           /\ \A k \in 1 .. Len(s) : s[k] \in Elems(s)
           /\ \A e \in Elems(s) : \E k \in 1 .. Len(s) : e = s[k]
  BY DEF Elems

\* The imports of one kind.
LEMMA OfKindFinds ==
    ASSUME NEW ds, IsSequence(ds), NEW kind
    PROVE  /\ OfKind(ds, kind) \in Seq(Elems(ds))
           /\ Elems(OfKind(ds, kind)) = {d \in Elems(ds) : d.kind = kind}
<1> DEFINE P == {d \in Elems(ds) : d.kind = kind}
<1>1. ds \in Seq(Elems(ds))
  BY DEF IsSequence
<1>2. OfKind(ds, kind) = Where(ds, P)
  BY DEF OfKind
<1> HIDE DEF P
<1>3. /\ Where(ds, P) \in Seq(Elems(ds)) /\ Elems(Where(ds, P)) = Elems(ds) \cap P
  BY <1>1, WhereFinds
<1>4. QED
  BY <1>2, <1>3 DEF P

\* The imports of one kind are imports of the module, of that kind.
LEMMA ImportsOfKind ==
    ASSUME NEW M, IsModule(M), NEW kind
    PROVE  LET ds == OfKind(M.imports, kind)
           IN  /\ Len(ds) \in Nat /\ DOMAIN ds = 1 .. Len(ds)
               /\ \A n \in 1 .. Len(ds) :
                     ds[n] \in Elems(M.imports) /\ ds[n].kind = kind /\ IsImport(ds[n])
<1> DEFINE ds == OfKind(M.imports, kind)
<1>1. IsSequence(M.imports) /\ \A d \in Elems(M.imports) : IsImport(d)
  BY DEF IsModule
<1>2. /\ ds \in Seq(Elems(M.imports)) /\ Elems(ds) = {d \in Elems(M.imports) : d.kind = kind}
  BY <1>1, OfKindFinds
<1> HIDE DEF ds
<1>3. /\ Len(ds) \in Nat /\ DOMAIN ds = 1 .. Len(ds)
      /\ \A n \in 1 .. Len(ds) : ds[n] \in Elems(ds)
  BY <1>2, SequenceOfElems
<1>4. QED
  BY <1>1, <1>2, <1>3 DEF ds

\* Two sequences one after the other.
LEMMA Joined ==
    ASSUME NEW X, NEW s \in Seq(X), NEW t \in Seq(X)
    PROVE  /\ s \o t \in Seq(X) /\ Len(s \o t) = Len(s) + Len(t)
           /\ \A k \in 1 .. Len(s) : (s \o t)[k] = s[k]
           /\ \A k \in 1 .. Len(t) : (s \o t)[Len(s) + k] = t[k]
           /\ Elems(s \o t) = Elems(s) \cup Elems(t)
<1>1. /\ Len(s) \in Nat /\ Len(t) \in Nat
      /\ s \o t \in Seq(X) /\ Len(s \o t) = Len(s) + Len(t)
      /\ \A k \in 1 .. Len(s) : (s \o t)[k] = s[k]
      /\ \A k \in 1 .. Len(t) : (s \o t)[Len(s) + k] = t[k]
  OBVIOUS
<1>2. Elems(s) \subseteq Elems(s \o t) /\ Elems(t) \subseteq Elems(s \o t)
  BY <1>1, SMTT(40) DEF Elems
<1>3. ASSUME NEW k \in 1 .. Len(s \o t)
      PROVE  (s \o t)[k] \in Elems(s) \cup Elems(t)
  <2>1. CASE k <= Len(s)
    BY <1>1, <2>1 DEF Elems
  <2>2. CASE k > Len(s)
    <3>1. k - Len(s) \in 1 .. Len(t) /\ Len(s) + (k - Len(s)) = k
      BY <1>1, <2>2
    <3>2. QED
      BY <1>1, <3>1 DEF Elems
  <2>3. QED
    BY <1>1, <2>1, <2>2
<1>4. Elems(s \o t) \subseteq Elems(s) \cup Elems(t)
  BY <1>3 DEF Elems
<1>5. QED
  BY <1>1, <1>2, <1>4

\* The length of two sequences one after the other, whatever they hold.
LEMMA LengthOfJoined ==
    ASSUME NEW X, NEW s \in Seq(X), NEW Y, NEW t \in Seq(Y)
    PROVE  Len(s \o t) = Len(s) + Len(t)
<1>1. s \in Seq(X \cup Y) /\ t \in Seq(X \cup Y)
  OBVIOUS
<1>2. QED
  BY <1>1, Joined

\* Imported is the descriptions of the imports of a kind, in their order.
LEMMA Described ==
    ASSUME NEW M, NEW kind
    PROVE  LET ds == OfKind(M.imports, kind)
           IN  Imported(M, kind) = [n \in 1 .. Len(ds) |-> ds[n].desc]
  BY DEF Imported, Map

\* The types of the imported functions are those their descriptions name.
LEMMA TypeIndices ==
    ASSUME NEW M
    PROVE  LET ds == OfKind(M.imports, "func")
           IN  Len(ds) \in Nat => ImportedTypes(M) = [n \in 1 .. Len(ds) |-> ds[n].desc.func]
<1> DEFINE ds == OfKind(M.imports, "func")
           im == Imported(M, "func")
<1>1. im = [n \in 1 .. Len(ds) |-> ds[n].desc]
  BY Described
<1>2. ImportedTypes(M) = [n \in 1 .. Len(im) |-> im[n].func]
  BY DEF ImportedTypes, Map
<1> HIDE DEF ds, im
<1>3. Len(ds) \in Nat => Len(im) = Len(ds)
  BY <1>1
<1>4. QED
  BY <1>1, <1>2, <1>3 DEF ds

\* The index spaces.
LEMMA Spaces ==
    ASSUME NEW M, IsModule(M)
    PROVE  LET n(kind) == Len(OfKind(M.imports, kind))
           IN  /\ \A kind \in Kinds : n(kind) \in Nat
               /\ Space(M, "func") = n("func") + Len(M.funcs)
               /\ Space(M, "table") = n("table") + Len(M.tables)
               /\ Space(M, "mem") = n("mem") + Len(M.mems)
               /\ Space(M, "global") = n("global") + Len(M.globals)
               /\ Len(TableTypes(M)) = Space(M, "table") /\ Len(MemTypes(M)) = Space(M, "mem")
               /\ Len(FuncTypes(M)) = Space(M, "func")
               /\ Len(ConstGlobals(M)) = n("global")
               /\ \A x \in 0 .. n("global") - 1 :
                     At(ConstGlobals(M), x) = OfKind(M.imports, "global")[x + 1].desc
<1> DEFINE ds(kind) == OfKind(M.imports, kind)
           n(kind) == Len(ds(kind))
<1>1. \A kind \in Kinds : n(kind) \in Nat
  BY ImportsOfKind
<1>2. \A kind \in Kinds : Imported(M, kind) = [k \in 1 .. n(kind) |-> ds(kind)[k].desc]
  BY Described
<1>3. ImportedTypes(M) = [k \in 1 .. n("func") |-> ds("func")[k].desc.func]
  BY <1>1, TypeIndices DEF Kinds
<1> DEFINE globals1 == [i \in 1 .. Len(M.globals) |-> M.globals[i].gt]
<1>4. GlobalTypes(M) = Imported(M, "global") \o globals1
  BY DEF GlobalTypes, ConstGlobals, Map
<1> HIDE DEF ds, n, globals1
<1>5. ASSUME NEW kind \in Kinds
      PROVE  Imported(M, kind) \in Seq({ds(kind)[k].desc : k \in 1 .. n(kind)}) /\ Len(Imported(M, kind)) = n(kind)
  BY <1>1, <1>2
<1>6. ImportedTypes(M) \in Seq({ds("func")[k].desc.func : k \in 1 .. n("func")}) /\ Len(ImportedTypes(M)) = n("func")
  BY <1>1, <1>3 DEF Kinds
<1>7. /\ M.funcs \in Seq(Nat) /\ M.tables \in Seq(LimitsType) /\ M.mems \in Seq(LimitsType)
      /\ M.globals \in Seq(GlobalDecl)
      /\ Len(M.globals) \in Nat
  BY DEF IsModule
<1>8. globals1 \in Seq({M.globals[i].gt : i \in 1 .. Len(M.globals)}) /\ Len(globals1) = Len(M.globals)
  <2>1. Len(M.globals) \in Nat
    BY <1>7
  <2>2. QED
    BY <2>1 DEF globals1
<1>9. Len(ImportedTypes(M) \o M.funcs) = n("func") + Len(M.funcs)
  BY <1>6, <1>7, LengthOfJoined
<1>10. /\ Len(TableTypes(M)) = n("table") + Len(M.tables)
       /\ Len(MemTypes(M)) = n("mem") + Len(M.mems)
  BY <1>5, <1>7, LengthOfJoined DEF TableTypes, MemTypes, Kinds
<1>11. Len(GlobalTypes(M)) = n("global") + Len(M.globals)
  BY <1>4, <1>5, <1>8, LengthOfJoined DEF Kinds
<1>12. Len(FuncTypes(M)) = Len(ImportedTypes(M) \o M.funcs)
  <2> DEFINE all == ImportedTypes(M) \o M.funcs
  <2>1. FuncTypes(M) = [i \in 1 .. Len(all) |-> At(M.types, all[i])]
    BY DEF FuncTypes, Map
  <2>2. Len(all) \in Nat
    BY <1>1, <1>7, <1>9 DEF Kinds
  <2> HIDE DEF all
  <2>3. Len(FuncTypes(M)) = Len(all)
    BY <2>1, <2>2
  <2>4. QED
    BY <2>3 DEF all
<1>13. /\ Len(ConstGlobals(M)) = n("global")
       /\ \A x \in 0 .. n("global") - 1 : At(ConstGlobals(M), x) = ds("global")[x + 1].desc
  BY <1>1, <1>2, <1>5, SMTT(40) DEF ConstGlobals, At, Kinds
<1>14. /\ Space(M, "func") = n("func") + Len(M.funcs)
       /\ Space(M, "table") = n("table") + Len(M.tables)
       /\ Space(M, "mem") = n("mem") + Len(M.mems)
       /\ Space(M, "global") = n("global") + Len(M.globals)
  BY <1>9, <1>10, <1>11 DEF Space
<1>15. QED
  BY <1>1, <1>9, <1>10, <1>12, <1>13, <1>14 DEF n, ds

-----------------------------------------------------------------------------
(* The inductive invariant.                                                *)

FuncTypeSet == UNION {Elems(Modules[m].types) : m \in DOMAIN Modules}
ExportNames == {e.name : e \in UNION {Elems(Modules[m].exports) : m \in DOMAIN Modules}}

FuncSet == [inst : Nat, type : FuncTypeSet]
TableSet == [type : LimitsType, elem : Seq(Nat)]
MemSet == [type : LimitsType, bytes : Seq(Nat)]
GlobalSet == [gt : GlobalType, val : Nat]
ExportSet == [name : ExportNames, kind : Kinds, addr : Nat]
InstSet ==
    [module : DOMAIN Modules,
     funcaddrs : Seq(Nat), tableaddrs : Seq(Nat), memaddrs : Seq(Nat),
     globaladdrs : Seq(Nat), elemaddrs : Seq(Nat), dataaddrs : Seq(Nat),
     exports : Seq(ExportSet)]
TestModuleSet ==
    [name : Ids \cup {NoName}, export_name : Names \cup {NoName}, inst : Nat]

Steps == {"globals", "elems", "exports", "tables", "mems", "start", "done"}
JobSet == [step : Steps, i : Nat \ {0}, inst : Nat, name : Ids \cup {NoName}]

TypeOK ==
    /\ funcs \in Seq(FuncSet) /\ tables \in Seq(TableSet) /\ mems \in Seq(MemSet)
    /\ globals \in Seq(GlobalSet) /\ elems \in Seq(Seq(Nat)) /\ datas \in Seq(Nat)
    /\ insts \in Seq(InstSet)
    /\ test_modules \in Seq(TestModuleSet)
    /\ linked \in Seq(Nat) /\ current \in Nat \cup {NULL}
    /\ job \in {Idle} \cup JobSet

JobOK ==
    /\ job # Idle =>
          /\ job.inst = Len(insts) /\ Len(insts) # 0
          /\ verdict.what = "linked"
          /\ job.step = "globals" => job.i <= Len(Mod.globals) + 1
          /\ job.step = "elems" => job.i <= Len(Mod.elems) + 1
    /\ verdict.what = "unlinkable" => job = Idle

\* The store.
Store == [funcs |-> funcs, tables |-> tables, mems |-> mems, globals |-> globals,
          elems |-> elems, datas |-> datas]

Ref(S) == 0 .. Len(S.funcs)

Addrs(S, kind) ==
    CASE kind = "func"   -> 1 .. Len(S.funcs)
      [] kind = "table"  -> 1 .. Len(S.tables)
      [] kind = "mem"    -> 1 .. Len(S.mems)
      [] kind = "global" -> 1 .. Len(S.globals)

StoreOK(S, n) ==
    /\ \A f \in 1 .. Len(S.funcs) : S.funcs[f].inst \in 1 .. n
    /\ \A a \in 1 .. Len(S.tables) : Elems(S.tables[a].elem) \subseteq Ref(S)
    /\ \A a \in 1 .. Len(S.elems) : Elems(S.elems[a]) \subseteq Ref(S)
    /\ \A a \in 1 .. Len(S.globals) :
          S.globals[a].gt.type = "funcref" => S.globals[a].val \in Ref(S)

HostOK ==
    /\ Elems(linked) \subseteq DOMAIN test_modules
    /\ current \in DOMAIN test_modules \cup {NULL}
    /\ \A t \in DOMAIN test_modules : test_modules[t].inst \in DOMAIN insts

\* What an instance holds is in the store,
Held(r, S) ==
    /\ \A kind \in Kinds : Elems(AddressOf(r, kind)) \subseteq Addrs(S, kind)
    /\ Elems(r.elemaddrs) \subseteq 1 .. Len(S.elems)
    /\ Elems(r.dataaddrs) \subseteq 1 .. Len(S.datas)
    /\ \A e \in Elems(r.exports) : e.addr \in Addrs(S, e.kind)

\* its address vectors are filled as far as the job j has come,
GlobalsOf(M, i, j) ==
    IF j.step = "globals" /\ j.inst = i THEN j.i - 1 ELSE Len(M.globals)
ElemsOf(M, i, j) ==
    CASE j.step = "globals" /\ j.inst = i -> 0
      [] j.step = "elems" /\ j.inst = i   -> j.i - 1
      [] OTHER -> Len(M.elems)

FilledTo(r, g, e) ==
    LET M == Modules[r.module]
    IN  /\ Valid(M)
        /\ Len(r.funcaddrs) = Space(M, "func")
        /\ Len(r.tableaddrs) = Space(M, "table")
        /\ Len(r.memaddrs) = Space(M, "mem")
        /\ Len(r.dataaddrs) = Len(M.datas)
        /\ Len(r.globaladdrs) = Len(ConstGlobals(M)) + g
        /\ Len(r.elemaddrs) = e

\* and its imports fit what was declared for them.
Fits(M, d, a, S) ==
    CASE d.kind = "func"   -> S.funcs[a].type = At(M.types, d.desc.func)
      [] d.kind = "table"  -> match_limits(S.tables[a].type, d.desc)
      [] d.kind = "mem"    -> match_limits(S.mems[a].type, d.desc)
      [] d.kind = "global" -> S.globals[a].gt = d.desc

ImportsFit(r, S) ==
    LET M == Modules[r.module]
    IN  \A kind \in Kinds : \A n \in 1 .. Len(OfKind(M.imports, kind)) :
           Fits(M, OfKind(M.imports, kind)[n], AddressOf(r, kind)[n], S)

InstOK(r, g, e, S) == Held(r, S) /\ FilledTo(r, g, e) /\ ImportsFit(r, S)

InstsOK(is, j, S) ==
    \A i \in 1 .. Len(is) :
        LET M == Modules[is[i].module] IN InstOK(is[i], GlobalsOf(M, i, j), ElemsOf(M, i, j), S)

LInv ==
    /\ TypeOK /\ JobOK
    /\ StoreOK(Store, Len(insts)) /\ HostOK
    /\ InstsOK(insts, job, Store)

StoreSet ==
    [funcs : Seq(FuncSet), tables : Seq(TableSet), mems : Seq(MemSet),
     globals : Seq(GlobalSet), elems : Seq(Seq(Nat)), datas : Seq(Nat)]

\* A store that has grown: what was there is still there.
Grown(S, U) ==
    /\ Len(S.funcs) <= Len(U.funcs) /\ Len(S.tables) <= Len(U.tables)
    /\ Len(S.mems) <= Len(U.mems) /\ Len(S.globals) <= Len(U.globals)
    /\ Len(S.elems) <= Len(U.elems) /\ Len(S.datas) <= Len(U.datas)
    /\ \A f \in 1 .. Len(S.funcs) : U.funcs[f] = S.funcs[f]
    /\ \A a \in 1 .. Len(S.tables) : U.tables[a].type = S.tables[a].type
    /\ \A a \in 1 .. Len(S.mems) :
          /\ U.mems[a].type.min >= S.mems[a].type.min
          /\ U.mems[a].type.has_max = S.mems[a].type.has_max
          /\ U.mems[a].type.max = S.mems[a].type.max
    /\ \A a \in 1 .. Len(S.globals) : U.globals[a] = S.globals[a]

\* The parts of the store are the variables.
LEMMA StoreFields ==
    /\ Store.funcs = funcs /\ Store.tables = tables /\ Store.mems = mems
    /\ Store.globals = globals /\ Store.elems = elems /\ Store.datas = datas
  BY DEF Store

\* The store is typed.
LEMMA StoreTyped == TypeOK => Store \in StoreSet
  BY DEF TypeOK, Store, StoreSet

\* What a typed store holds, address by address.
LEMMA StoreLens ==
    ASSUME NEW S \in StoreSet
    PROVE  /\ Len(S.funcs) \in Nat /\ Len(S.tables) \in Nat /\ Len(S.mems) \in Nat
           /\ Len(S.globals) \in Nat /\ Len(S.elems) \in Nat /\ Len(S.datas) \in Nat
           /\ \A a \in 1 .. Len(S.funcs) : S.funcs[a] \in FuncSet
           /\ \A a \in 1 .. Len(S.tables) : S.tables[a] \in TableSet
           /\ \A a \in 1 .. Len(S.mems) : S.mems[a] \in MemSet
           /\ \A a \in 1 .. Len(S.globals) : S.globals[a] \in GlobalSet
           /\ \A a \in 1 .. Len(S.elems) : S.elems[a] \in Seq(Nat)
  BY DEF StoreSet

\* A store that grew is no shorter.
LEMMA GrownLens ==
    ASSUME NEW S, NEW U, Grown(S, U)
    PROVE  /\ Len(S.funcs) <= Len(U.funcs) /\ Len(S.tables) <= Len(U.tables)
           /\ Len(S.mems) <= Len(U.mems) /\ Len(S.globals) <= Len(U.globals)
           /\ Len(S.elems) <= Len(U.elems) /\ Len(S.datas) <= Len(U.datas)
  BY DEF Grown

\* What was allocated stays allocated.
LEMMA MoreAddrs ==
    ASSUME NEW S \in StoreSet, NEW U \in StoreSet, Grown(S, U)
    PROVE  /\ \A kind \in Kinds : Addrs(S, kind) \subseteq Addrs(U, kind)
           /\ Ref(S) \subseteq Ref(U)
           /\ 1 .. Len(S.elems) \subseteq 1 .. Len(U.elems)
           /\ 1 .. Len(S.datas) \subseteq 1 .. Len(U.datas)
<1>1. /\ Len(S.funcs) <= Len(U.funcs) /\ Len(S.tables) <= Len(U.tables)
      /\ Len(S.mems) <= Len(U.mems) /\ Len(S.globals) <= Len(U.globals)
      /\ Len(S.elems) <= Len(U.elems) /\ Len(S.datas) <= Len(U.datas)
  BY GrownLens
<1>2. /\ Len(S.funcs) \in Nat /\ Len(S.tables) \in Nat /\ Len(S.mems) \in Nat
      /\ Len(S.globals) \in Nat /\ Len(S.elems) \in Nat /\ Len(S.datas) \in Nat
      /\ Len(U.funcs) \in Nat /\ Len(U.tables) \in Nat /\ Len(U.mems) \in Nat
      /\ Len(U.globals) \in Nat /\ Len(U.elems) \in Nat /\ Len(U.datas) \in Nat
  BY StoreLens
<1>3. ASSUME NEW kind \in Kinds
      PROVE  Addrs(S, kind) \subseteq Addrs(U, kind)
  <2>1. CASE kind = "func"
    BY <1>1, <1>2, <2>1 DEF Addrs
  <2>2. CASE kind = "table"
    BY <1>1, <1>2, <2>2 DEF Addrs
  <2>3. CASE kind = "mem"
    BY <1>1, <1>2, <2>3 DEF Addrs
  <2>4. CASE kind = "global"
    BY <1>1, <1>2, <2>4 DEF Addrs
  <2>5. QED
    BY <2>1, <2>2, <2>3, <2>4 DEF Kinds
<1>4. QED
  BY <1>1, <1>2, <1>3, SMTT(40) DEF Ref

\* An instance that holds allocated addresses does so in a store that grew.
LEMMA HeldStays ==
    ASSUME NEW S \in StoreSet, NEW U \in StoreSet, Grown(S, U), NEW r \in InstSet, Held(r, S)
    PROVE  Held(r, U)
<1>1. \A e \in Elems(r.exports) : e.kind \in Kinds
  <2>1. r.exports \in Seq(ExportSet)
    BY DEF InstSet
  <2>2. Elems(r.exports) \subseteq ExportSet
    BY <2>1, SequenceOfElems
  <2>3. QED
    BY <2>2 DEF ExportSet
<1>2. QED
  BY <1>1, MoreAddrs DEF Held

\* An address that fits an import (match_limits, the type, the mutability) fits it in a store
\* that grew: types stay, and a memory only gets larger.
LEMMA FitsStays ==
    ASSUME NEW S \in StoreSet, NEW U \in StoreSet, Grown(S, U), NEW M,
           NEW d, IsImport(d), NEW a \in Addrs(S, d.kind), Fits(M, d, a, S)
    PROVE  Fits(M, d, a, U)
<1>1. d.kind \in Kinds
  BY DEF IsImport
<1>2. CASE d.kind = "func"
  BY <1>2 DEF Fits, Addrs, Grown
<1>3. CASE d.kind = "table"
  <2>1. a \in 1 .. Len(S.tables) /\ match_limits(S.tables[a].type, d.desc)
    BY <1>3 DEF Fits, Addrs
  <2>2. U.tables[a].type = S.tables[a].type
    BY <2>1 DEF Grown
  <2>3. QED
    BY <1>3, <2>1, <2>2 DEF Fits
<1>4. CASE d.kind = "mem"
  <2>1. a \in 1 .. Len(S.mems) /\ match_limits(S.mems[a].type, d.desc)
    BY <1>4 DEF Fits, Addrs
  <2>2. /\ U.mems[a].type.min >= S.mems[a].type.min
        /\ U.mems[a].type.has_max = S.mems[a].type.has_max
        /\ U.mems[a].type.max = S.mems[a].type.max
    BY <2>1 DEF Grown
  <2>3. Len(S.mems) <= Len(U.mems) /\ Len(S.mems) \in Nat /\ Len(U.mems) \in Nat
    BY GrownLens, StoreLens
  <2>4. a \in 1 .. Len(U.mems)
    BY <2>1, <2>3
  <2>5. S.mems[a] \in MemSet /\ U.mems[a] \in MemSet
    BY <2>1, <2>4, StoreLens
  <2>6. U.mems[a].type.min \in Nat /\ S.mems[a].type.min \in Nat /\ d.desc.min \in Nat
    BY <1>4, <2>5 DEF MemSet, LimitsType, IsImport
  <2>7. match_limits(U.mems[a].type, d.desc)
    BY <2>1, <2>2, <2>6 DEF match_limits
  <2>8. QED
    BY <1>4, <2>7 DEF Fits
<1>5. CASE d.kind = "global"
  BY <1>5 DEF Fits, Addrs, Grown
<1>6. QED
  BY <1>1, <1>2, <1>3, <1>4, <1>5 DEF Kinds

\* The address vectors of an instance are sequences, and its module is a module.
LEMMA InstTyped ==
    ASSUME NEW r \in InstSet
    PROVE  /\ IsModule(Modules[r.module])
           /\ \A kind \in Kinds : AddressOf(r, kind) \in Seq(Nat)
           /\ r.elemaddrs \in Seq(Nat) /\ r.dataaddrs \in Seq(Nat) /\ r.exports \in Seq(ExportSet)
           /\ r.funcaddrs \in Seq(Nat) /\ r.tableaddrs \in Seq(Nat) /\ r.memaddrs \in Seq(Nat)
           /\ r.globaladdrs \in Seq(Nat)
<1>1. IsModule(Modules[r.module])
  BY LoaderAssumption DEF InstSet
<1>2. QED
  BY <1>1 DEF InstSet, AddressOf, Kinds

\* The imports come first in the address vectors.
LEMMA ImportAddress ==
    ASSUME NEW r \in InstSet, NEW g \in Nat, NEW e, FilledTo(r, g, e), NEW kind \in Kinds,
           NEW n \in 1 .. Len(OfKind(Modules[r.module].imports, kind))
    PROVE  /\ n \in 1 .. Len(AddressOf(r, kind))
           /\ AddressOf(r, kind)[n] \in Elems(AddressOf(r, kind))
<1> DEFINE M == Modules[r.module]
           k == Len(OfKind(M.imports, kind))
<1>0. IsModule(M) /\ AddressOf(r, kind) \in Seq(Nat)
  BY InstTyped
<1>1. /\ IsModule(M) /\ AddressOf(r, kind) \in Seq(Nat)
      /\ Len(M.funcs) \in Nat /\ Len(M.tables) \in Nat /\ Len(M.mems) \in Nat
  <2> HIDE DEF M
  <2>1. M.funcs \in Seq(Nat) /\ M.tables \in Seq(LimitsType) /\ M.mems \in Seq(LimitsType)
    BY <1>0 DEF IsModule
  <2>2. QED
    BY <1>0, <2>1
<1>2. /\ k \in Nat
      /\ kind = "func" => Space(M, "func") = k + Len(M.funcs)
      /\ kind = "table" => Space(M, "table") = k + Len(M.tables)
      /\ kind = "mem" => Space(M, "mem") = k + Len(M.mems)
      /\ kind = "global" => Len(ConstGlobals(M)) = k
  BY <1>1, Spaces
<1> HIDE DEF k
<1>3. k <= Len(AddressOf(r, kind))
  <2>1. CASE kind = "func"
    BY <1>1, <1>2, <2>1, SMTT(40) DEF FilledTo, AddressOf
  <2>2. CASE kind = "table"
    <3>1. AddressOf(r, kind) = r.tableaddrs
      BY <2>2 DEF AddressOf
    <3>2. Len(r.tableaddrs) = Space(M, "table")
      BY DEF FilledTo
    <3>3. QED
      BY <1>1, <1>2, <2>2, <3>1, <3>2
  <2>3. CASE kind = "mem"
    <3>1. AddressOf(r, kind) = r.memaddrs
      BY <2>3 DEF AddressOf
    <3>2. Len(r.memaddrs) = Space(M, "mem")
      BY DEF FilledTo
    <3>3. QED
      BY <1>1, <1>2, <2>3, <3>1, <3>2
  <2>4. CASE kind = "global"
    BY <1>1, <1>2, <2>4 DEF FilledTo, AddressOf
  <2>5. QED
    BY <2>1, <2>2, <2>3, <2>4 DEF Kinds
<1>4. n \in 1 .. Len(AddressOf(r, kind))
  BY <1>1, <1>2, <1>3 DEF k
<1>5. QED
  BY <1>1, <1>4, SequenceOfElems

\* An instance of which nothing changes.
LEMMA InstStays ==
    ASSUME NEW S \in StoreSet, NEW U \in StoreSet, Grown(S, U),
           NEW r \in InstSet, NEW g \in Nat, NEW e, InstOK(r, g, e, S)
    PROVE  InstOK(r, g, e, U)
<1> DEFINE M == Modules[r.module]
<1>1. Held(r, S) /\ FilledTo(r, g, e) /\ ImportsFit(r, S)
  BY DEF InstOK
<1>2. Held(r, U)
  BY <1>1, HeldStays
<1>3. ASSUME NEW kind \in Kinds, NEW n \in 1 .. Len(OfKind(M.imports, kind))
      PROVE  Fits(M, OfKind(M.imports, kind)[n], AddressOf(r, kind)[n], U)
  <2> DEFINE d == OfKind(M.imports, kind)[n]
             a == AddressOf(r, kind)[n]
  <2>1. d.kind = kind /\ IsImport(d)
    BY InstTyped, ImportsOfKind
  <2>2. a \in Addrs(S, kind)
    BY <1>1, ImportAddress DEF Held
  <2>3. Fits(M, d, a, S)
    BY <1>1 DEF ImportsFit
  <2> HIDE DEF d, a
  <2>4. Fits(M, d, a, U)
    BY <2>1, <2>2, <2>3, FitsStays
  <2>5. QED
    BY <2>4 DEF d, a
<1>4. QED
  BY <1>1, <1>2, <1>3 DEF InstOK, ImportsFit

-----------------------------------------------------------------------------
(* The instantiation in progress.                                          *)

\* While a module is being instantiated, the instance in progress is the last one made.
LEMMA JobFacts ==
    ASSUME LInv, job.step # "idle"
    PROVE  /\ job \in JobSet /\ job # Idle
           /\ job.inst = Len(insts) /\ job.inst \in 1 .. Len(insts) /\ job.inst \in DOMAIN insts
           /\ Inst \in InstSet /\ IsModule(Mod) /\ Valid(Mod) /\ Store \in StoreSet
           /\ Held(Inst, Store) /\ ImportsFit(Inst, Store)
           /\ FilledTo(Inst, GlobalsOf(Mod, job.inst, job), ElemsOf(Mod, job.inst, job))
           /\ GlobalsOf(Mod, job.inst, job) \in Nat
<1>1. job # Idle
  BY DEF Idle
<1>2. job \in JobSet /\ insts \in Seq(InstSet) /\ Store \in StoreSet
  BY <1>1, StoreTyped DEF LInv, TypeOK
<1>3. job.inst = Len(insts) /\ job.inst \in 1 .. Len(insts)
  BY <1>1, <1>2 DEF LInv, JobOK
<1>4. Inst \in InstSet /\ job.inst \in DOMAIN insts
  BY <1>2, <1>3 DEF Inst
<1>5. IsModule(Mod)
  BY <1>4, InstTyped DEF Mod
<1>6. InstOK(Inst, GlobalsOf(Mod, job.inst, job), ElemsOf(Mod, job.inst, job), Store)
  BY <1>3 DEF LInv, InstsOK, Inst, Mod
<1>7. Held(Inst, Store) /\ ImportsFit(Inst, Store)
      /\ FilledTo(Inst, GlobalsOf(Mod, job.inst, job), ElemsOf(Mod, job.inst, job))
  BY <1>6 DEF InstOK
<1>8. Valid(Mod)
  BY <1>7 DEF FilledTo, Mod
<1>9. GlobalsOf(Mod, job.inst, job) \in Nat
  <2>1. Len(Mod.globals) \in Nat
    <3>1. Mod.globals \in Seq(GlobalDecl)
      BY <1>5 DEF IsModule
    <3>2. QED
      BY <3>1
  <2>2. job.i - 1 \in Nat
    BY <1>2 DEF JobSet
  <2>3. QED
    BY <2>1, <2>2 DEF GlobalsOf
<1>10. QED
  BY <1>1, <1>2, <1>3, <1>4, <1>5, <1>7, <1>8, <1>9

\* Elements of the address vectors.
LEMMA AddressAt ==
    ASSUME NEW r \in InstSet, NEW S, Held(r, S), NEW kind \in Kinds, NEW x \in Nat,
           x < Len(AddressOf(r, kind))
    PROVE  /\ At(AddressOf(r, kind), x) \in Addrs(S, kind)
           /\ At(AddressOf(r, kind), x) \in Elems(AddressOf(r, kind))
           /\ At(AddressOf(r, kind), x) \in Nat
<1>1. AddressOf(r, kind) \in Seq(Nat)
  BY InstTyped
<1>2. x + 1 \in 1 .. Len(AddressOf(r, kind))
  BY <1>1
<1>3. AddressOf(r, kind)[x + 1] \in Elems(AddressOf(r, kind)) /\ AddressOf(r, kind)[x + 1] \in Nat
  BY <1>1, <1>2, SequenceOfElems
<1>4. QED
  BY <1>3 DEF At, Held

\* What a constant expression of the module leaves.
LEMMA Evaluated ==
    ASSUME LInv, job.step # "idle", NEW e \in Expr, NEW t, ValidConst(Mod, e, t)
    PROVE  /\ Eval(e) \in Nat
           /\ t = "funcref" => Eval(e) \in Ref(Store)
<1>1. /\ Inst \in InstSet /\ IsModule(Mod) /\ Store \in StoreSet
      /\ Held(Inst, Store) /\ ImportsFit(Inst, Store)
      /\ FilledTo(Inst, GlobalsOf(Mod, job.inst, job), ElemsOf(Mod, job.inst, job))
      /\ GlobalsOf(Mod, job.inst, job) \in Nat
  BY JobFacts
<1>2. Leaves(Mod, e, t) /\ e.op # "other"
  BY DEF ValidConst, is_constant_expr
<1>3. Len(funcs) \in Nat /\ Ref(Store) = 0 .. Len(funcs)
  BY <1>1, StoreFields, StoreLens DEF Ref
<1>4. CASE e.op = "i32"
  <2>1. e.n \in Nat /\ Eval(e) = e.n
    BY <1>4 DEF Expr, Eval
  <2>2. t = "i32"
    BY <1>2, <1>4 DEF Leaves
  <2>3. QED
    BY <2>1, <2>2
<1>5. CASE e.op = "null"
  <2>1. Eval(e) = 0
    BY <1>5 DEF Eval
  <2>2. QED
    BY <1>3, <2>1
<1>6. CASE e.op = "func"
  <2>1. e.x \in Nat /\ Eval(e) = At(Inst.funcaddrs, e.x)
    BY <1>6 DEF Expr, Eval
  <2>2. e.x < Space(Mod, "func")
    BY <1>2, <1>6 DEF Leaves
  <2>3. AddressOf(Inst, "func") = Inst.funcaddrs /\ Len(Inst.funcaddrs) = Space(Mod, "func")
    BY <1>1 DEF AddressOf, FilledTo, Mod
  <2>4. Eval(e) \in Addrs(Store, "func")
    BY <1>1, <2>1, <2>2, <2>3, AddressAt DEF Kinds
  <2>5. Addrs(Store, "func") = 1 .. Len(funcs)
    BY StoreFields DEF Addrs
  <2>6. QED
    BY <1>3, <2>4, <2>5
<1>7. CASE e.op = "get"
  <2> DEFINE ds == OfKind(Mod.imports, "global")
             a == At(Inst.globaladdrs, e.x)
  <2>1. e.x \in Nat /\ Eval(e) = globals[a].val
    BY <1>7 DEF Expr, Eval
  <2>2. In(ConstGlobals(Mod), e.x) /\ At(ConstGlobals(Mod), e.x).type = t
    BY <1>2, <1>7 DEF Leaves
  <2>3. /\ Len(ConstGlobals(Mod)) = Len(ds) /\ Len(ds) \in Nat
        /\ \A x \in 0 .. Len(ds) - 1 : At(ConstGlobals(Mod), x) = ds[x + 1].desc
    BY <1>1, Spaces DEF Kinds
  <2>4. e.x \in 0 .. Len(ds) - 1 /\ e.x + 1 \in 1 .. Len(ds)
    BY <2>1, <2>2, <2>3 DEF In
  <2>5. ds[e.x + 1].desc.type = t
    BY <2>2, <2>3, <2>4
  <2>6. AddressOf(Inst, "global") = Inst.globaladdrs
    BY DEF AddressOf
  <2>7. e.x + 1 \in 1 .. Len(Inst.globaladdrs)
    BY <1>1, <2>4, <2>6, ImportAddress DEF Kinds, Mod
  <2>8. a \in Addrs(Store, "global")
    <3>1. Inst.globaladdrs \in Seq(Nat)
      BY <1>1, InstTyped
    <3>2. e.x < Len(Inst.globaladdrs)
      BY <2>1, <2>7, <3>1
    <3>3. QED
      BY <1>1, <2>1, <2>6, <3>2, AddressAt DEF Kinds
  <2>9. a \in 1 .. Len(globals)
    BY <2>8, StoreFields DEF Addrs
  <2>10. globals[a].gt = ds[e.x + 1].desc
    <3>1. ds[e.x + 1].kind = "global"
      <4>1. \A n \in 1 .. Len(ds) : ds[n].kind = "global"
        BY <1>1, ImportsOfKind
      <4>2. QED
        BY <2>4, <4>1
    <3>2. Fits(Mod, ds[e.x + 1], Inst.globaladdrs[e.x + 1], Store)
      BY <1>1, <2>4, <2>6 DEF ImportsFit, Kinds, Mod
    <3>3. QED
      BY <3>1, <3>2, StoreFields DEF Fits, At
  <2>11. globals[a] \in GlobalSet
    BY <1>1, <2>9, StoreLens, StoreFields
  <2>12. globals[a].val \in Nat
    BY <2>11 DEF GlobalSet
  <2>13. t = "funcref" => globals[a].val \in Ref(Store)
    BY <2>5, <2>9, <2>10, StoreFields DEF LInv, StoreOK
  <2> HIDE DEF a, ds
  <2>14. QED
    BY <2>1, <2>12, <2>13
<1>8. QED
  BY <1>2, <1>4, <1>5, <1>6, <1>7 DEF Expr

-----------------------------------------------------------------------------
(* Steps in general.                                                       *)

\* The parts of the store after a step are the variables after it.
LEMMA NextFields ==
    /\ Store'.funcs = funcs' /\ Store'.tables = tables' /\ Store'.mems = mems'
    /\ Store'.globals = globals' /\ Store'.elems = elems' /\ Store'.datas = datas'
  BY DEF Store

\* A sequence with one more element.
LEMMA Appended ==
    ASSUME NEW X, NEW s \in Seq(X), NEW x \in X
    PROVE  /\ Append(s, x) \in Seq(X) /\ Len(Append(s, x)) = Len(s) + 1
           /\ Elems(Append(s, x)) = Elems(s) \cup {x}
           /\ \A k \in 1 .. Len(s) : Append(s, x)[k] = s[k]
           /\ Append(s, x)[Len(s) + 1] = x
<1>1. /\ Len(s) \in Nat
      /\ Append(s, x) \in Seq(X) /\ Len(Append(s, x)) = Len(s) + 1
      /\ \A k \in 1 .. Len(s) : Append(s, x)[k] = s[k]
      /\ Append(s, x)[Len(s) + 1] = x
  OBVIOUS
<1>2. \A k \in 1 .. Len(s) + 1 : k \in 1 .. Len(s) \/ k = Len(s) + 1
  BY <1>1
<1>3. 1 .. Len(s) \subseteq 1 .. Len(s) + 1 /\ Len(s) + 1 \in 1 .. Len(s) + 1
  BY <1>1
<1> DEFINE a == Append(s, x)
<1> HIDE DEF a
<1>4. Elems(a) = Elems(s) \cup {x}
  BY <1>1, <1>2, <1>3, Zenon DEF Elems, a
<1>5. QED
  BY <1>1, <1>4 DEF a

\* What has to be shown of a store that grew.
LEMMA GrownBy ==
    ASSUME NEW S, NEW U,
           Len(S.funcs) <= Len(U.funcs), Len(S.tables) <= Len(U.tables),
           Len(S.mems) <= Len(U.mems), Len(S.globals) <= Len(U.globals),
           Len(S.elems) <= Len(U.elems), Len(S.datas) <= Len(U.datas),
           \A f \in 1 .. Len(S.funcs) : U.funcs[f] = S.funcs[f],
           \A a \in 1 .. Len(S.tables) : U.tables[a].type = S.tables[a].type,
           \A a \in 1 .. Len(S.mems) :
              /\ U.mems[a].type.min >= S.mems[a].type.min
              /\ U.mems[a].type.has_max = S.mems[a].type.has_max
              /\ U.mems[a].type.max = S.mems[a].type.max,
           \A a \in 1 .. Len(S.globals) : U.globals[a] = S.globals[a]
    PROVE  Grown(S, U)
  BY DEF Grown

\* A store that does not change.
LEMMA GrownSelf ==
    ASSUME NEW S \in StoreSet
    PROVE  Grown(S, S)
<1>1. /\ Len(S.funcs) \in Nat /\ Len(S.tables) \in Nat /\ Len(S.mems) \in Nat
      /\ Len(S.globals) \in Nat /\ Len(S.elems) \in Nat /\ Len(S.datas) \in Nat
      /\ \A a \in 1 .. Len(S.mems) : S.mems[a] \in MemSet
  BY StoreLens
<1>2. \A a \in 1 .. Len(S.mems) : S.mems[a].type.min >= S.mems[a].type.min
  BY <1>1 DEF MemSet, LimitsType
<1>3. QED
  BY <1>1, <1>2, GrownBy

\* How many globals of an instance are there is a number.
LEMMA GlobalsNat ==
    ASSUME NEW M, IsModule(M), NEW i, NEW j \in {Idle} \cup JobSet
    PROVE  GlobalsOf(M, i, j) \in Nat
<1>1. Len(M.globals) \in Nat
  <2>1. M.globals \in Seq(GlobalDecl)
    BY DEF IsModule
  <2>2. QED
    BY <2>1
<1>2. CASE j.step = "globals"
  <2>1. j \in JobSet
    BY <1>2 DEF Idle
  <2>2. j.i - 1 \in Nat
    BY <2>1 DEF JobSet
  <2>3. QED
    BY <1>1, <2>2 DEF GlobalsOf
<1>3. CASE j.step # "globals"
  BY <1>1, <1>3 DEF GlobalsOf
<1>4. QED
  BY <1>2, <1>3

\* All instances but the k-th are as they were.
LEMMA InstsNext ==
    ASSUME NEW is \in Seq(InstSet), NEW is2 \in Seq(InstSet),
           NEW S \in StoreSet, NEW U \in StoreSet, Grown(S, U),
           NEW j \in {Idle} \cup JobSet, NEW j2, InstsOK(is, j, S), NEW k,
           \A i \in (1 .. Len(is2)) \ {k} :
              LET M == Modules[is[i].module]
              IN  /\ i \in 1 .. Len(is) /\ is2[i] = is[i]
                  /\ GlobalsOf(M, i, j2) = GlobalsOf(M, i, j)
                  /\ ElemsOf(M, i, j2) = ElemsOf(M, i, j),
           k \in 1 .. Len(is2) =>
              LET M == Modules[is2[k].module]
              IN  InstOK(is2[k], GlobalsOf(M, k, j2), ElemsOf(M, k, j2), U)
    PROVE  InstsOK(is2, j2, U)
<1> SUFFICES ASSUME NEW i \in 1 .. Len(is2)
             PROVE  LET M == Modules[is2[i].module]
                    IN  InstOK(is2[i], GlobalsOf(M, i, j2), ElemsOf(M, i, j2), U)
  BY DEF InstsOK
<1>1. CASE i = k
  BY <1>1
<1>2. CASE i # k
  <2> DEFINE M == Modules[is[i].module]
             g == GlobalsOf(M, i, j)
             e == ElemsOf(M, i, j)
  <2>1. i \in 1 .. Len(is) /\ is2[i] = is[i] /\ GlobalsOf(M, i, j2) = g /\ ElemsOf(M, i, j2) = e
    BY <1>2
  <2>2. is[i] \in InstSet /\ InstOK(is[i], g, e, S)
    BY <2>1 DEF InstsOK
  <2>3. IsModule(M)
    BY <2>2, InstTyped
  <2>4. g \in Nat
    BY <2>3, GlobalsNat
  <2> HIDE DEF g, e
  <2>5. InstOK(is[i], g, e, U)
    BY <2>2, <2>4, InstStays
  <2>6. QED
    BY <2>1, <2>5 DEF M
<1>3. QED
  BY <1>1, <1>2

\* No instance changes, and no job that allocates is begun or goes on.
LEMMA InstsSame ==
    ASSUME LInv, insts' = insts, Store' \in StoreSet, Grown(Store, Store'),
           job.step \notin {"globals", "elems"}, job'.step \notin {"globals", "elems"}
    PROVE  InstsOK(insts', job', Store')
<1>1. /\ insts \in Seq(InstSet) /\ insts' \in Seq(InstSet) /\ Store \in StoreSet
      /\ job \in {Idle} \cup JobSet /\ InstsOK(insts, job, Store)
  BY StoreTyped DEF LInv, TypeOK
<1>2. \A M, i : /\ GlobalsOf(M, i, job') = GlobalsOf(M, i, job)
                /\ ElemsOf(M, i, job') = ElemsOf(M, i, job)
  BY DEF GlobalsOf, ElemsOf
<1>3. 0 \notin 1 .. Len(insts')
  BY <1>1
<1>4. \A i \in (1 .. Len(insts')) \ {0} :
         LET M == Modules[insts[i].module]
         IN  /\ i \in 1 .. Len(insts) /\ insts'[i] = insts[i]
             /\ GlobalsOf(M, i, job') = GlobalsOf(M, i, job)
             /\ ElemsOf(M, i, job') = ElemsOf(M, i, job)
  BY <1>2
<1> DEFINE is == insts'
           j == job'
           U == Store'
<1>5. is \in Seq(InstSet) /\ U \in StoreSet /\ Grown(Store, U)
  BY <1>1
<1> HIDE DEF LInv, is, j, U
<1>6. InstsOK(is, j, U)
  BY <1>1, <1>3, <1>4, <1>5, InstsNext, ZenonT(40) DEF is, j
<1>7. QED
  BY <1>6 DEF is, j, U

-----------------------------------------------------------------------------
(* Steps that leave the store as it is.                                    *)

\* A step that leaves the store alone leaves it typed.
LEMMA SameStore ==
    ASSUME LInv, UNCHANGED store
    PROVE  /\ Store' = Store /\ Store' \in StoreSet /\ Grown(Store, Store')
  BY GrownSelf, StoreTyped DEF LInv, Store, store

\* Refusing a module (decode, validate or link error) keeps the invariant.
LEMMA RefuseOK ==
    ASSUME LInv, NEW m, NEW why, Refuse(m, why)
    PROVE  LInv' /\ Grown(Store, Store')
<1>1. Store' = Store /\ Store' \in StoreSet /\ Grown(Store, Store')
  BY SameStore DEF Refuse
<1>2. job = Idle /\ job' = Idle /\ UNCHANGED <<store, insts, host, job>>
  BY DEF Refuse
<1>3. InstsOK(insts', job', Store')
  BY <1>1, <1>2, InstsSame DEF Idle
<1>4. TypeOK'
  BY <1>2 DEF LInv, TypeOK, store, host
<1>5. JobOK'
  BY <1>2 DEF JobOK
<1>6. StoreOK(Store, Len(insts))' /\ HostOK'
  BY <1>1, <1>2 DEF LInv, HostOK, host
<1>7. QED
  BY <1>1, <1>3, <1>4, <1>5, <1>6 DEF LInv

\* Linking an instance under its names (create_test_module) keeps the invariant.
LEMMA CreateTestModuleOK ==
    ASSUME LInv, CreateTestModule
    PROVE  LInv' /\ Grown(Store, Store')
<1>1. Store' = Store /\ Store' \in StoreSet /\ Grown(Store, Store')
  BY SameStore DEF CreateTestModule
<1>2. /\ job.step = "done" /\ job' = Idle /\ insts' = insts /\ UNCHANGED store
      /\ verdict' = Said("passed", NULL)
  BY DEF CreateTestModule
<1>3. InstsOK(insts', job', Store')
  BY <1>1, <1>2, InstsSame DEF Idle
<1>4. job \in JobSet /\ job.inst \in DOMAIN insts /\ insts \in Seq(InstSet)
  BY <1>2, JobFacts DEF LInv, TypeOK
<1> DEFINE t == [name |-> job.name, export_name |-> NoName, inst |-> job.inst]
<1>5. t \in TestModuleSet /\ t.inst = job.inst
  BY <1>4 DEF TestModuleSet, JobSet
<1>6. /\ test_modules \in Seq(TestModuleSet) /\ linked \in Seq(Nat)
      /\ Elems(linked) \subseteq DOMAIN test_modules
      /\ \A u \in DOMAIN test_modules : test_modules[u].inst \in DOMAIN insts
  BY DEF LInv, TypeOK, HostOK
<1>7. test_modules' = Append(test_modules, t) /\ current' = Len(test_modules) + 1
  BY DEF CreateTestModule
<1> HIDE DEF t
<1>8. /\ test_modules' \in Seq(TestModuleSet)
      /\ Len(test_modules) \in Nat /\ DOMAIN test_modules = 1 .. Len(test_modules)
      /\ DOMAIN test_modules' = 1 .. Len(test_modules) + 1
      /\ \A u \in 1 .. Len(test_modules) : test_modules'[u] = test_modules[u]
      /\ test_modules'[Len(test_modules) + 1] = t
  BY <1>5, <1>6, <1>7
<1>9. linked' \in Seq(Nat) /\ Elems(linked') \subseteq Elems(linked) \cup {Len(test_modules) + 1}
  <2>1. linked' = linked \/ linked' = Append(linked, Len(test_modules) + 1)
    BY DEF CreateTestModule
  <2> DEFINE n == Len(test_modules) + 1
  <2>2. n \in Nat
    BY <1>8
  <2> HIDE DEF n
  <2>3. Append(linked, n) \in Seq(Nat) /\ Elems(Append(linked, n)) = Elems(linked) \cup {n}
    BY <1>6, <2>2, Appended
  <2>4. QED
    BY <1>6, <2>1, <2>3 DEF n
<1>10. HostOK'
  <2>1. current' \in DOMAIN test_modules' /\ Elems(linked') \subseteq DOMAIN test_modules'
    BY <1>6, <1>7, <1>8, <1>9
  <2>2. ASSUME NEW u \in DOMAIN test_modules'
        PROVE  test_modules'[u].inst \in DOMAIN insts
    <3>1. CASE u = Len(test_modules) + 1
      BY <1>4, <1>5, <1>8, <3>1
    <3>2. CASE u \in 1 .. Len(test_modules)
      BY <1>6, <1>8, <3>2
    <3>3. QED
      BY <1>8, <3>1, <3>2
  <2>3. QED
    BY <1>2, <2>1, <2>2 DEF HostOK
<1>11. current' \in Nat
  BY <1>7, <1>8
<1>12. TypeOK'
  BY <1>2, <1>8, <1>9, <1>11 DEF LInv, TypeOK, store
<1>13. JobOK'
  BY <1>2 DEF JobOK, Said
<1>14. StoreOK(Store, Len(insts))'
  BY <1>1, <1>2 DEF LInv
<1>15. QED
  BY <1>1, <1>3, <1>10, <1>12, <1>13, <1>14 DEF LInv

\* The script's register (register_module) keeps the invariant.
LEMMA RegisterOK ==
    ASSUME LInv, NEW name \in Names, Register(name)
    PROVE  LInv' /\ Grown(Store, Store')
<1>1. Store' = Store /\ Store' \in StoreSet /\ Grown(Store, Store')
  BY SameStore DEF Register
<1>2. /\ job = Idle /\ job' = Idle /\ insts' = insts /\ UNCHANGED <<store, current>>
      /\ current # NULL
  BY DEF Register
<1>3. InstsOK(insts', job', Store')
  BY <1>1, <1>2, InstsSame DEF Idle
<1>4. /\ test_modules \in Seq(TestModuleSet) /\ linked \in Seq(Nat)
      /\ Elems(linked) \subseteq DOMAIN test_modules
      /\ \A u \in DOMAIN test_modules : test_modules[u].inst \in DOMAIN insts
      /\ current \in DOMAIN test_modules
  BY <1>2 DEF LInv, TypeOK, HostOK
<1> DEFINE t == [test_modules[current] EXCEPT !.export_name = name]
<1>5. test_modules[current] \in TestModuleSet
  BY <1>4
<1>6. t \in TestModuleSet /\ t.inst = test_modules[current].inst
  BY <1>5 DEF TestModuleSet
<1>7. test_modules' = [test_modules EXCEPT ![current] = t]
  BY DEF Register
<1> HIDE DEF t
<1>8. /\ test_modules' \in Seq(TestModuleSet) /\ DOMAIN test_modules' = DOMAIN test_modules
      /\ \A u \in DOMAIN test_modules : test_modules'[u].inst = test_modules[u].inst
  BY <1>4, <1>6, <1>7
<1>9. linked' \in Seq(Nat) /\ Elems(linked') \subseteq Elems(linked) \cup {current}
  <2>1. linked' = linked \/ linked' = Append(linked, current)
    BY DEF Register
  <2>2. current \in Nat
    BY <1>4
  <2>3. Append(linked, current) \in Seq(Nat) /\ Elems(Append(linked, current)) = Elems(linked) \cup {current}
    BY <1>4, <2>2, Appended, SMTT(40)
  <2>4. QED
    BY <1>4, <2>1, <2>3
<1>10. HostOK'
  BY <1>2, <1>4, <1>8, <1>9 DEF HostOK
<1>11. TypeOK'
  BY <1>2, <1>8, <1>9 DEF LInv, TypeOK, store
<1>12. JobOK'
  BY <1>2 DEF JobOK
<1>13. StoreOK(Store, Len(insts))'
  BY <1>1, <1>2 DEF LInv
<1>14. QED
  BY <1>1, <1>3, <1>10, <1>11, <1>12, <1>13 DEF LInv

-----------------------------------------------------------------------------
(* Globals, element segments and exports.                                  *)

\* Where the job is after it went on to another loop.
LEMMA GotoTyped ==
    ASSUME job \in JobSet, NEW s \in Steps, Goto(s)
    PROVE  /\ job' \in JobSet /\ job'.step = s /\ job'.i = 1
           /\ job'.inst = job.inst /\ job'.name = job.name
<1> DEFINE m == [job EXCEPT !.step = s]
<1>1. m \in JobSet /\ m.step = s /\ m.inst = job.inst /\ m.name = job.name
  BY DEF JobSet
<1>2. [job EXCEPT !.step = s, !.i = 1] = [m EXCEPT !.i = 1]
  OBVIOUS
<1>3. job' = [m EXCEPT !.i = 1]
  BY <1>2 DEF Goto
<1> HIDE DEF m
<1>4. QED
  BY <1>1, <1>3 DEF JobSet

\* Where the job is after one more turn of its loop.
LEMMA AgainTyped ==
    ASSUME job \in JobSet, Again
    PROVE  /\ job' \in JobSet /\ job'.step = job.step /\ job'.i = job.i + 1
           /\ job'.inst = job.inst /\ job'.name = job.name
<1>1. job.i \in Nat \ {0}
  BY DEF JobSet
<1>2. job.i + 1 \in Nat \ {0}
  BY <1>1
<1>3. QED
  BY <1>2 DEF Again, JobSet

\* The part of a step that goes on with the job.
LEMMA JobGoesOn ==
    ASSUME LInv, job.step # "idle", job' \in JobSet, job'.inst = job.inst,
           Len(insts') = Len(insts), insts'[job.inst].module = Inst.module,
           verdict' = verdict,
           job'.step = "globals" => job'.i <= Len(Mod.globals) + 1,
           job'.step = "elems" => job'.i <= Len(Mod.elems) + 1
    PROVE  JobOK'
<1>1. Mod' = Mod
  BY DEF Mod, Inst
<1>2. job # Idle /\ verdict.what = "linked" /\ job.inst = Len(insts) /\ Len(insts) # 0
  BY JobFacts DEF LInv, JobOK
<1>3. job' # Idle
  BY DEF JobSet, Steps, Idle
<1>4. QED
  BY <1>1, <1>2, <1>3 DEF JobOK

\* What a module's fields hold.
LEMMA ModuleTyped ==
    ASSUME NEW M, IsModule(M)
    PROVE  /\ Len(M.funcs) \in Nat /\ Len(M.tables) \in Nat /\ Len(M.mems) \in Nat
           /\ Len(M.globals) \in Nat /\ Len(M.elems) \in Nat /\ Len(M.datas) \in Nat
           /\ Len(M.exports) \in Nat /\ Len(M.types) \in Nat /\ Len(M.imports) \in Nat
           /\ \A i \in 1 .. Len(M.globals) : M.globals[i].gt \in GlobalType /\ M.globals[i].init \in Expr
           /\ \A i \in 1 .. Len(M.elems) :
                 /\ M.elems[i].mode \in {"active", "passive", "declarative"}
                 /\ M.elems[i].table \in Nat /\ M.elems[i].offset \in Expr
                 /\ M.elems[i].init \in Seq(Expr)
           /\ \A i \in 1 .. Len(M.datas) :
                 /\ M.datas[i].mode \in {"active", "passive"}
                 /\ M.datas[i].memory \in Nat /\ M.datas[i].offset \in Expr
                 /\ M.datas[i].len \in Nat
           /\ \A i \in 1 .. Len(M.exports) : M.exports[i].kind \in Kinds /\ M.exports[i].idx \in Nat
<1>1. /\ M.funcs \in Seq(Nat)
      /\ M.tables \in Seq(LimitsType) /\ M.mems \in Seq(LimitsType)
      /\ M.globals \in Seq(GlobalDecl) /\ M.elems \in Seq(ElemDecl) /\ M.datas \in Seq(DataDecl)
      /\ M.exports \in Seq(Elems(M.exports)) /\ M.types \in Seq(Elems(M.types))
      /\ M.imports \in Seq(Elems(M.imports))
      /\ \A e \in Elems(M.exports) : e.kind \in Kinds /\ e.idx \in Nat
  <2>1. /\ IsSequence(M.types) /\ IsSequence(M.imports) /\ IsSequence(M.exports)
        /\ M.funcs \in Seq(Nat)
        /\ M.tables \in Seq(LimitsType) /\ M.mems \in Seq(LimitsType)
        /\ M.globals \in Seq(GlobalDecl) /\ M.elems \in Seq(ElemDecl) /\ M.datas \in Seq(DataDecl)
        /\ \A e \in Elems(M.exports) : e.kind \in Kinds /\ e.idx \in Nat
    BY Zenon DEF IsModule
  <2>2. /\ M.exports \in Seq(Elems(M.exports)) /\ M.types \in Seq(Elems(M.types))
        /\ M.imports \in Seq(Elems(M.imports))
    BY <2>1, Zenon DEF IsSequence
  <2>3. QED
    BY <2>1, <2>2, Zenon
<1> HIDE DEF IsModule
<1>2. /\ Len(M.funcs) \in Nat /\ Len(M.tables) \in Nat /\ Len(M.mems) \in Nat
      /\ Len(M.globals) \in Nat /\ Len(M.elems) \in Nat /\ Len(M.datas) \in Nat
      /\ Len(M.exports) \in Nat /\ Len(M.types) \in Nat /\ Len(M.imports) \in Nat
  BY <1>1, LenOf, Zenon
<1>3. \A i \in 1 .. Len(M.globals) : M.globals[i].gt \in GlobalType /\ M.globals[i].init \in Expr
  <2>1. \A i \in 1 .. Len(M.globals) : M.globals[i] \in GlobalDecl
    BY <1>1
  <2>2. QED
    BY <2>1 DEF GlobalDecl
<1>4. \A i \in 1 .. Len(M.elems) :
         /\ M.elems[i].mode \in {"active", "passive", "declarative"}
         /\ M.elems[i].table \in Nat /\ M.elems[i].offset \in Expr
         /\ M.elems[i].init \in Seq(Expr)
  <2>1. \A i \in 1 .. Len(M.elems) :
           M.elems[i] \in ElemDecl
    BY <1>1
  <2>2. QED
    BY <2>1 DEF ElemDecl
<1>5. \A i \in 1 .. Len(M.datas) :
         /\ M.datas[i].mode \in {"active", "passive"}
         /\ M.datas[i].memory \in Nat /\ M.datas[i].offset \in Expr
         /\ M.datas[i].len \in Nat
  <2>1. \A i \in 1 .. Len(M.datas) :
           M.datas[i] \in DataDecl
    BY <1>1
  <2>2. QED
    BY <2>1 DEF DataDecl
<1>6. \A i \in 1 .. Len(M.exports) : M.exports[i].kind \in Kinds /\ M.exports[i].idx \in Nat
  BY <1>1, SequenceOfElems
<1>7. QED
  BY <1>2, <1>3, <1>4, <1>5, <1>6, Zenon

\* In the loop over the globals those before the index are allocated, and no element segment is.
LEMMA NextGlobalFollows ==
    ASSUME LInv, job.step = "globals"
    PROVE  /\ job \in JobSet /\ job.i \in Nat /\ job.i >= 1 /\ job.i <= Len(Mod.globals) + 1
           /\ Len(Mod.globals) \in Nat /\ Len(Mod.elems) \in Nat
           /\ GlobalsOf(Mod, job.inst, job) = job.i - 1
           /\ ElemsOf(Mod, job.inst, job) = 0
<1>1. job \in JobSet /\ job # Idle /\ IsModule(Mod)
  BY JobFacts
<1>2. job.i \in Nat \ {0}
  BY <1>1 DEF JobSet
<1>3. job.i <= Len(Mod.globals) + 1
  BY <1>1 DEF LInv, JobOK
<1>4. QED
  BY <1>1, <1>2, <1>3, ModuleTyped DEF GlobalsOf, ElemsOf

\* The end of the loop over the globals keeps the invariant.
LEMMA GlobalsDone ==
    ASSUME LInv, AllocGlobal, job.i > Len(Mod.globals)
    PROVE  LInv' /\ Grown(Store, Store')
<1>1. /\ job.step = "globals" /\ Goto("elems")
      /\ UNCHANGED <<store, insts, host, verdict>>
  BY DEF AllocGlobal, store
<1>2. Store' = Store /\ Store' \in StoreSet /\ Grown(Store, Store')
  BY <1>1, SameStore
<1>3. /\ job \in JobSet /\ job.i \in Nat /\ job.i - 1 = Len(Mod.globals)
      /\ Len(Mod.globals) \in Nat /\ Len(Mod.elems) \in Nat
  BY <1>1, NextGlobalFollows
<1>4. job' \in JobSet /\ job'.step = "elems" /\ job'.i = 1 /\ job'.inst = job.inst
  BY <1>1, <1>3, GotoTyped DEF Steps
<1>5. ASSUME NEW i \in 1 .. Len(insts)
      PROVE  LET M == Modules[insts[i].module]
             IN  /\ GlobalsOf(M, i, job') = GlobalsOf(M, i, job)
                 /\ ElemsOf(M, i, job') = ElemsOf(M, i, job)
  <2>1. CASE i = job.inst
    <3>1. Modules[insts[i].module] = Mod
      BY <2>1 DEF Mod, Inst
    <3>2. QED
      BY <1>1, <1>3, <1>4, <2>1, <3>1 DEF GlobalsOf, ElemsOf
  <2>2. CASE i # job.inst
    BY <1>4, <2>2 DEF GlobalsOf, ElemsOf
  <2>3. QED
    BY <2>1, <2>2
<1>6. /\ insts \in Seq(InstSet) /\ Store \in StoreSet /\ InstsOK(insts, job, Store)
  BY StoreTyped DEF LInv, TypeOK
<1>7. InstsOK(insts', job', Store')
  <2> DEFINE j == job'
  <2>1. 0 \notin 1 .. Len(insts)
    BY <1>6
  <2>2. \A i \in (1 .. Len(insts)) \ {0} :
           LET M == Modules[insts[i].module]
           IN  /\ i \in 1 .. Len(insts) /\ insts[i] = insts[i]
               /\ GlobalsOf(M, i, j) = GlobalsOf(M, i, job)
               /\ ElemsOf(M, i, j) = ElemsOf(M, i, job)
    BY <1>5
  <2> HIDE DEF j
  <2>3. InstsOK(insts, j, Store)
    BY <1>2, <1>3, <1>6, <2>1, <2>2, GrownSelf, InstsNext
  <2>4. QED
    BY <1>1, <1>2, <2>3 DEF j
<1>8. JobOK'
  <2>1. 1 <= Len(Mod.elems) + 1
    BY <1>3
  <2>2. QED
    BY <1>1, <1>4, <2>1, JobGoesOn DEF Inst
<1>9. TypeOK'
  BY <1>1, <1>4 DEF LInv, TypeOK, store, host
<1>10. StoreOK(Store, Len(insts))' /\ HostOK'
  BY <1>1, <1>2 DEF LInv, HostOK, host
<1>11. QED
  BY <1>2, <1>7, <1>8, <1>9, <1>10 DEF LInv

\* An instance that got another global.
LEMMA GlobalAdded ==
    ASSUME NEW r \in InstSet, NEW g \in Nat, NEW e, NEW S \in StoreSet, NEW U \in StoreSet,
           InstOK(r, g, e, S), Grown(S, U), NEW a \in 1 .. Len(U.globals)
    PROVE  LET q == [r EXCEPT !.globaladdrs = Append(@, a)]
           IN  q \in InstSet /\ q.module = r.module /\ InstOK(q, g + 1, e, U)
<1> DEFINE q == [r EXCEPT !.globaladdrs = Append(@, a)]
           M == Modules[r.module]
<1>1. a \in Nat /\ r.globaladdrs \in Seq(Nat) /\ IsModule(M)
  BY StoreLens, InstTyped
<1>2. /\ q.module = r.module /\ q.funcaddrs = r.funcaddrs /\ q.tableaddrs = r.tableaddrs
      /\ q.memaddrs = r.memaddrs /\ q.elemaddrs = r.elemaddrs /\ q.dataaddrs = r.dataaddrs
      /\ q.exports = r.exports /\ q.globaladdrs = Append(r.globaladdrs, a)
  BY DEF InstSet
<1>3. /\ Append(r.globaladdrs, a) \in Seq(Nat)
      /\ Len(Append(r.globaladdrs, a)) = Len(r.globaladdrs) + 1
      /\ Elems(Append(r.globaladdrs, a)) = Elems(r.globaladdrs) \cup {a}
      /\ \A k \in 1 .. Len(r.globaladdrs) : Append(r.globaladdrs, a)[k] = r.globaladdrs[k]
  BY <1>1, Appended, SMTT(40)
<1>4. q \in InstSet
  BY <1>3 DEF InstSet
<1> HIDE DEF q
<1>5. InstOK(r, g, e, U)
  BY InstStays
<1>6. /\ AddressOf(q, "func") = AddressOf(r, "func")
      /\ AddressOf(q, "table") = AddressOf(r, "table")
      /\ AddressOf(q, "mem") = AddressOf(r, "mem")
      /\ AddressOf(r, "global") = r.globaladdrs
      /\ AddressOf(q, "global") = Append(r.globaladdrs, a)
  BY <1>2 DEF AddressOf
<1>7. Held(q, U)
  <2>1. Held(r, U)
    BY <1>5 DEF InstOK
  <2>2. ASSUME NEW kind \in Kinds
        PROVE  Elems(AddressOf(q, kind)) \subseteq Addrs(U, kind)
    <3>1. CASE kind = "global"
      <4>1. Elems(AddressOf(q, kind)) = Elems(AddressOf(r, kind)) \cup {a}
        BY <1>3, <1>6, <3>1
      <4>2. a \in Addrs(U, kind)
        BY <3>1 DEF Addrs
      <4>3. QED
        BY <2>1, <4>1, <4>2 DEF Held
    <3>2. CASE kind # "global"
      <4>1. AddressOf(q, kind) = AddressOf(r, kind)
        BY <1>6, <3>2 DEF Kinds
      <4>2. QED
        BY <2>1, <4>1 DEF Held
    <3>3. QED
      BY <3>1, <3>2
  <2>3. QED
    BY <1>2, <2>1, <2>2 DEF Held
<1>8. FilledTo(q, g + 1, e)
  <2>1. FilledTo(r, g, e)
    BY <1>5 DEF InstOK
  <2>2. Len(ConstGlobals(M)) \in Nat
    BY <1>1, Spaces DEF Kinds
  <2>3. Len(q.globaladdrs) = Len(ConstGlobals(M)) + (g + 1)
    BY <1>2, <1>3, <2>1, <2>2 DEF FilledTo
  <2>4. QED
    BY <1>2, <2>1, <2>3 DEF FilledTo
<1>9. ImportsFit(q, U)
  <2>1. FilledTo(r, g, e) /\ ImportsFit(r, U)
    BY <1>5 DEF InstOK
  <2>2. ASSUME NEW kind \in Kinds, NEW n \in 1 .. Len(OfKind(M.imports, kind))
        PROVE  AddressOf(q, kind)[n] = AddressOf(r, kind)[n]
    <3>1. n \in 1 .. Len(AddressOf(r, kind))
      BY <2>1, ImportAddress
    <3>2. CASE kind = "global"
      BY <1>3, <1>6, <3>1, <3>2
    <3>3. CASE kind # "global"
      BY <1>6, <3>3 DEF Kinds
    <3>4. QED
      BY <3>2, <3>3
  <2>3. QED
    BY <1>2, <2>1, <2>2 DEF ImportsFit
<1>10. QED
  BY <1>2, <1>4, <1>7, <1>8, <1>9 DEF InstOK, q

\* A store to which something was appended.
LEMMA GlobalAppended ==
    ASSUME LInv, NEW g \in GlobalSet, globals' = Append(globals, g),
           UNCHANGED <<funcs, tables, mems, elems, datas>>,
           g.gt.type = "funcref" => g.val \in Ref(Store)
    PROVE  /\ Store' \in StoreSet /\ Grown(Store, Store') /\ StoreOK(Store', Len(insts))
           /\ Len(globals') = Len(globals) + 1 /\ Len(globals) \in Nat
<1>1. /\ Store \in StoreSet /\ globals \in Seq(GlobalSet) /\ StoreOK(Store, Len(insts))
  BY StoreTyped DEF LInv, TypeOK
<1>2. /\ globals' \in Seq(GlobalSet) /\ Len(globals') = Len(globals) + 1 /\ Len(globals) \in Nat
      /\ \A k \in 1 .. Len(globals) : globals'[k] = globals[k]
      /\ globals'[Len(globals) + 1] = g
  BY <1>1, Appended
<1>3. Store' \in StoreSet
  BY <1>1, <1>2 DEF StoreSet, Store
<1> DEFINE U == Store'
<1>4. /\ U.funcs = funcs /\ U.tables = tables /\ U.mems = mems
      /\ U.globals = globals' /\ U.elems = elems /\ U.datas = datas
  BY NextFields
<1> HIDE DEF U
<1>5. Grown(Store, U)
  <2>1. Grown(Store, Store)
    BY <1>1, GrownSelf
  <2>2. /\ Len(funcs) \in Nat /\ Len(tables) \in Nat /\ Len(mems) \in Nat
        /\ Len(elems) \in Nat /\ Len(datas) \in Nat
    BY <1>1, StoreLens, StoreFields
  <2>3. \A a \in 1 .. Len(mems) :
           /\ mems[a].type.min >= mems[a].type.min
    BY <2>1, StoreFields DEF Grown
  <2> DEFINE S == Store
  <2>4. /\ S.funcs = funcs /\ S.tables = tables /\ S.mems = mems
        /\ S.globals = globals /\ S.elems = elems /\ S.datas = datas
    BY StoreFields
  <2> HIDE DEF S
  <2>5. Grown(S, U)
    BY <1>2, <1>4, <2>2, <2>3, <2>4 DEF Grown
  <2>6. QED
    BY <2>5 DEF S
<1>6. Ref(U) = Ref(Store)
  BY <1>4, StoreFields DEF Ref
<1>7. ASSUME NEW a \in 1 .. Len(globals'), globals'[a].gt.type = "funcref"
      PROVE  globals'[a].val \in Ref(U)
  <2>1. CASE a = Len(globals) + 1
    BY <1>2, <1>6, <1>7, <2>1
  <2>2. CASE a \in 1 .. Len(globals)
    BY <1>1, <1>2, <1>6, <1>7, <2>2, StoreFields DEF StoreOK
  <2>3. QED
    BY <1>2, <2>1, <2>2
<1>8. StoreOK(U, Len(insts))
  BY <1>1, <1>4, <1>6, <1>7, StoreFields DEF StoreOK
<1>9. QED
  BY <1>2, <1>3, <1>5, <1>8 DEF U

\* The instance in progress gets another record.
LEMMA InstUpdated ==
    ASSUME LInv, job.step # "idle", NEW q \in InstSet, q.module = Inst.module,
           insts' = [insts EXCEPT ![job.inst] = q],
           job' \in JobSet, job'.inst = job.inst,
           Store' \in StoreSet, Grown(Store, Store'),
           InstOK(q, GlobalsOf(Mod, job.inst, job'), ElemsOf(Mod, job.inst, job'), Store')
    PROVE  /\ insts' \in Seq(InstSet) /\ Len(insts') = Len(insts)
           /\ insts'[job.inst].module = Inst.module
           /\ InstsOK(insts', job', Store')
<1>1. /\ insts \in Seq(InstSet) /\ Store \in StoreSet /\ InstsOK(insts, job, Store)
      /\ job \in JobSet /\ job.inst \in 1 .. Len(insts)
  BY StoreTyped, JobFacts DEF LInv, TypeOK
<1> DEFINE is == insts'
           j == job'
           U == Store'
           k == job.inst
<1>2. /\ is \in Seq(InstSet) /\ Len(is) = Len(insts) /\ is[k] = q
      /\ \A i \in (1 .. Len(is)) \ {k} : i \in 1 .. Len(insts) /\ is[i] = insts[i]
  BY <1>1
<1>3. \A i \in (1 .. Len(is)) \ {k} :
         LET M == Modules[insts[i].module]
         IN  /\ i \in 1 .. Len(insts) /\ is[i] = insts[i]
             /\ GlobalsOf(M, i, j) = GlobalsOf(M, i, job)
             /\ ElemsOf(M, i, j) = ElemsOf(M, i, job)
  BY <1>2 DEF GlobalsOf, ElemsOf
<1>4. Modules[q.module] = Mod
  BY DEF Mod
<1>5. U \in StoreSet /\ Grown(Store, U) /\ InstOK(is[k], GlobalsOf(Mod, k, j), ElemsOf(Mod, k, j), U)
  BY <1>2
<1>6. Modules[is[k].module] = Mod
  BY <1>2, <1>4
<1> HIDE DEF is, j, U, k
<1>7. InstsOK(is, j, U)
  BY <1>1, <1>2, <1>3, <1>5, <1>6, InstsNext
<1>8. QED
  BY <1>2, <1>7 DEF is, j, U, k

\* Allocating a global (alloc_global) keeps the invariant.
LEMMA GlobalAllocated ==
    ASSUME LInv, AllocGlobal, job.i <= Len(Mod.globals)
    PROVE  LInv' /\ Grown(Store, Store')
<1> DEFINE d == Mod.globals[job.i]
           g == [gt |-> d.gt, val |-> Eval(d.init)]
           q == [Inst EXCEPT !.globaladdrs = Append(@, Len(globals) + 1)]
<1>1. /\ job.step = "globals" /\ job \in JobSet /\ job.i \in Nat /\ job.i >= 1
      /\ Len(Mod.globals) \in Nat /\ Len(Mod.elems) \in Nat
      /\ GlobalsOf(Mod, job.inst, job) = job.i - 1 /\ ElemsOf(Mod, job.inst, job) = 0
  BY NextGlobalFollows DEF AllocGlobal
<1>2. ~(job.i > Len(Mod.globals))
  BY <1>1
<1>3. /\ globals' = Append(globals, g) /\ Again
      /\ insts' = [insts EXCEPT ![job.inst].globaladdrs = Append(@, Len(globals) + 1)]
      /\ UNCHANGED <<funcs, tables, mems, elems, datas, host, verdict>>
  BY <1>2 DEF AllocGlobal
<1>4. /\ Inst \in InstSet /\ IsModule(Mod) /\ Valid(Mod) /\ Store \in StoreSet
      /\ job.inst \in 1 .. Len(insts)
      /\ InstOK(Inst, job.i - 1, 0, Store)
  BY <1>1, JobFacts DEF InstOK
<1>5. insts' = [insts EXCEPT ![job.inst] = q]
  BY <1>3 DEF Inst
<1>6. d.gt \in GlobalType /\ d.init \in Expr /\ d \in Elems(Mod.globals)
  BY <1>1, <1>4, ModuleTyped, SMTT(40) DEF Elems
<1>7. ValidConst(Mod, d.init, d.gt.type)
  BY <1>4, <1>6 DEF Valid
<1>8. Eval(d.init) \in Nat /\ (d.gt.type = "funcref" => Eval(d.init) \in Ref(Store))
  BY <1>1, <1>6, <1>7, Evaluated
<1>9. g \in GlobalSet /\ (g.gt.type = "funcref" => g.val \in Ref(Store))
  BY <1>6, <1>8 DEF GlobalSet
<1> HIDE DEF d, g
<1>10. /\ Store' \in StoreSet /\ Grown(Store, Store') /\ StoreOK(Store', Len(insts))
       /\ Len(globals') = Len(globals) + 1 /\ Len(globals) \in Nat
  BY <1>3, <1>9, GlobalAppended
<1>11. job' \in JobSet /\ job'.step = "globals" /\ job'.i = job.i + 1 /\ job'.inst = job.inst
  BY <1>1, <1>3, AgainTyped
<1>12. q \in InstSet /\ q.module = Inst.module /\ InstOK(q, job.i, 0, Store')
  <2> DEFINE U == Store'
             a == Len(globals) + 1
  <2>1. U \in StoreSet /\ Grown(Store, U) /\ a \in 1 .. Len(U.globals)
    BY <1>10, NextFields
  <2>2. job.i - 1 \in Nat /\ (job.i - 1) + 1 = job.i
    BY <1>1
  <2> HIDE DEF U, a
  <2>3. LET p == [Inst EXCEPT !.globaladdrs = Append(@, a)]
        IN  p \in InstSet /\ p.module = Inst.module /\ InstOK(p, (job.i - 1) + 1, 0, U)
    BY <1>4, <2>1, <2>2, GlobalAdded
  <2>4. QED
    BY <2>2, <2>3 DEF U, a
<1> HIDE DEF q
<1>13. GlobalsOf(Mod, job.inst, job') = job.i /\ ElemsOf(Mod, job.inst, job') = 0
  BY <1>1, <1>11 DEF GlobalsOf, ElemsOf
<1>14. /\ insts' \in Seq(InstSet) /\ Len(insts') = Len(insts)
       /\ insts'[job.inst].module = Inst.module
       /\ InstsOK(insts', job', Store')
  BY <1>1, <1>5, <1>10, <1>11, <1>12, <1>13, InstUpdated
<1>15. JobOK'
  BY <1>1, <1>2, <1>3, <1>11, <1>14, JobGoesOn
<1>16. globals' \in Seq(GlobalSet)
  BY <1>10, NextFields DEF StoreSet
<1>17. TypeOK'
  BY <1>3, <1>11, <1>14, <1>16 DEF LInv, TypeOK, host
<1>18. HostOK'
  <2>1. DOMAIN insts' = DOMAIN insts
    BY <1>14 DEF LInv, TypeOK
  <2>2. QED
    BY <1>3, <2>1 DEF LInv, HostOK, host
<1>19. QED
  BY <1>10, <1>14, <1>15, <1>17, <1>18 DEF LInv

\* The loop over the globals keeps the invariant.
LEMMA AllocGlobalOK ==
    ASSUME LInv, AllocGlobal
    PROVE  LInv' /\ Grown(Store, Store')
<1>1. job.i \in Nat /\ Len(Mod.globals) \in Nat
  BY NextGlobalFollows DEF AllocGlobal
<1>2. job.i > Len(Mod.globals) \/ job.i <= Len(Mod.globals)
  BY <1>1
<1>3. QED
  BY <1>2, GlobalsDone, GlobalAllocated

\* An instance whose element segments or exports changed.
LEMMA SameAddresses ==
    ASSUME NEW r \in InstSet, NEW q \in InstSet, NEW g, NEW e, NEW f, NEW U,
           InstOK(r, g, e, U), q.module = r.module,
           q.funcaddrs = r.funcaddrs, q.tableaddrs = r.tableaddrs, q.memaddrs = r.memaddrs,
           q.globaladdrs = r.globaladdrs, q.dataaddrs = r.dataaddrs,
           Elems(q.elemaddrs) \subseteq 1 .. Len(U.elems), Len(q.elemaddrs) = f,
           \A x \in Elems(q.exports) : x.addr \in Addrs(U, x.kind)
    PROVE  InstOK(q, g, f, U)
<1>1. \A kind \in Kinds : AddressOf(q, kind) = AddressOf(r, kind)
  BY DEF AddressOf
<1>2. Held(q, U)
  BY <1>1 DEF InstOK, Held
<1>3. FilledTo(q, g, f)
  BY DEF InstOK, FilledTo
<1>4. ImportsFit(q, U)
  BY <1>1 DEF InstOK, ImportsFit
<1>5. QED
  BY <1>2, <1>3, <1>4 DEF InstOK

\* In the loop over the element segments all globals are allocated, and the segments before the index.
LEMMA NextElemFollows ==
    ASSUME LInv, job.step = "elems"
    PROVE  /\ job \in JobSet /\ job.i \in Nat /\ job.i >= 1 /\ job.i <= Len(Mod.elems) + 1
           /\ Len(Mod.globals) \in Nat /\ Len(Mod.elems) \in Nat
           /\ GlobalsOf(Mod, job.inst, job) = Len(Mod.globals)
           /\ ElemsOf(Mod, job.inst, job) = job.i - 1
<1>1. job \in JobSet /\ job # Idle /\ IsModule(Mod)
  BY JobFacts
<1>2. job.i \in Nat \ {0}
  BY <1>1 DEF JobSet
<1>3. job.i <= Len(Mod.elems) + 1
  BY <1>1 DEF LInv, JobOK
<1>4. QED
  BY <1>1, <1>2, <1>3, ModuleTyped DEF GlobalsOf, ElemsOf

\* A step that only moves the job on to a place where nothing is allocated.
LEMMA JobMoves ==
    ASSUME LInv, job.step # "idle", UNCHANGED <<store, insts, host, verdict>>,
           job' \in JobSet, job'.inst = job.inst, job'.step \notin {"globals", "elems"},
           job.step # "globals",
           job.step = "elems" => job.i > Len(Mod.elems)
    PROVE  LInv' /\ Grown(Store, Store')
<1>1. Store' = Store /\ Store' \in StoreSet /\ Grown(Store, Store')
  BY SameStore
<1>2. JobOK'
  BY JobGoesOn DEF Inst
<1>3. TypeOK'
  BY DEF LInv, TypeOK, store, host
<1>4. StoreOK(Store, Len(insts))' /\ HostOK'
  BY <1>1 DEF LInv, HostOK, host
<1>5. InstsOK(insts', job', Store')
  <2>1. CASE job.step # "elems"
    BY <1>1, <2>1, InstsSame
  <2>2. CASE job.step = "elems"
    <3> DEFINE j == job'
    <3>1. /\ job \in JobSet /\ job.i \in Nat /\ job.i - 1 = Len(Mod.elems)
          /\ Len(Mod.globals) \in Nat /\ Len(Mod.elems) \in Nat
          /\ insts \in Seq(InstSet) /\ Store \in StoreSet /\ InstsOK(insts, job, Store)
      <4>1. insts \in Seq(InstSet) /\ Store \in StoreSet /\ InstsOK(insts, job, Store)
        BY StoreTyped DEF LInv, TypeOK
      <4>2. /\ job \in JobSet /\ job.i \in Nat /\ job.i <= Len(Mod.elems) + 1
            /\ job.i > Len(Mod.elems)
            /\ Len(Mod.globals) \in Nat /\ Len(Mod.elems) \in Nat
        BY <2>2, NextElemFollows
      <4>3. QED
        BY <4>1, <4>2
    <3>2. ASSUME NEW i \in (1 .. Len(insts)) \ {0}
          PROVE  LET M == Modules[insts[i].module]
                 IN  /\ i \in 1 .. Len(insts) /\ insts[i] = insts[i]
                     /\ GlobalsOf(M, i, j) = GlobalsOf(M, i, job)
                     /\ ElemsOf(M, i, j) = ElemsOf(M, i, job)
      <4>1. CASE i = job.inst
        <5>1. Modules[insts[i].module] = Mod
          BY <4>1 DEF Mod, Inst
        <5>2. QED
          BY <2>2, <3>1, <4>1, <5>1 DEF GlobalsOf, ElemsOf
      <4>2. CASE i # job.inst
        BY <4>2 DEF GlobalsOf, ElemsOf
      <4>3. QED
        BY <4>1, <4>2
    <3>3. 0 \notin 1 .. Len(insts)
      BY <3>1
    <3> HIDE DEF j
    <3>4. InstsOK(insts, j, Store)
      BY <1>1, <3>1, <3>2, <3>3, GrownSelf, InstsNext
    <3>5. QED
      BY <1>1, <3>4 DEF j
  <2>3. QED
    BY <2>1, <2>2
<1>6. QED
  BY <1>1, <1>2, <1>3, <1>4, <1>5 DEF LInv

\* A store with one more element segment, whose references are to allocated functions.
LEMMA ElemAppended ==
    ASSUME LInv, NEW s \in Seq(Nat), elems' = Append(elems, s),
           UNCHANGED <<funcs, tables, mems, globals, datas>>,
           Elems(s) \subseteq Ref(Store)
    PROVE  /\ Store' \in StoreSet /\ Grown(Store, Store') /\ StoreOK(Store', Len(insts))
           /\ Len(elems') = Len(elems) + 1 /\ Len(elems) \in Nat
<1>1. /\ Store \in StoreSet /\ elems \in Seq(Seq(Nat)) /\ StoreOK(Store, Len(insts))
  BY StoreTyped DEF LInv, TypeOK
<1>2. /\ elems' \in Seq(Seq(Nat)) /\ Len(elems') = Len(elems) + 1 /\ Len(elems) \in Nat
      /\ \A k \in 1 .. Len(elems) : elems'[k] = elems[k]
      /\ elems'[Len(elems) + 1] = s
  BY <1>1, Appended
<1>3. Store' \in StoreSet
  BY <1>1, <1>2 DEF StoreSet, Store
<1> DEFINE U == Store'
           S == Store
<1>4. /\ U.funcs = funcs /\ U.tables = tables /\ U.mems = mems
      /\ U.globals = globals /\ U.elems = elems' /\ U.datas = datas
      /\ S.funcs = funcs /\ S.tables = tables /\ S.mems = mems
      /\ S.globals = globals /\ S.elems = elems /\ S.datas = datas
  BY NextFields, StoreFields
<1>5. S \in StoreSet /\ Grown(S, S) /\ StoreOK(S, Len(insts)) /\ Elems(s) \subseteq Ref(S)
  BY <1>1, GrownSelf
<1> HIDE DEF U, S
<1>6. Grown(S, U)
  BY <1>2, <1>4, <1>5 DEF Grown
<1>7. Ref(U) = Ref(S)
  BY <1>4 DEF Ref
<1>8. ASSUME NEW a \in 1 .. Len(elems')
      PROVE  Elems(elems'[a]) \subseteq Ref(U)
  <2>1. CASE a = Len(elems) + 1
    BY <1>2, <1>5, <1>7, <2>1
  <2>2. CASE a \in 1 .. Len(elems)
    BY <1>2, <1>4, <1>5, <1>7, <2>2 DEF StoreOK
  <2>3. QED
    BY <1>2, <2>1, <2>2
<1>9. StoreOK(U, Len(insts))
  BY <1>4, <1>5, <1>7, <1>8 DEF StoreOK
<1>10. QED
  BY <1>2, <1>3, <1>6, <1>9 DEF U, S

\* Allocating an element segment (alloc_elem) keeps the invariant.
LEMMA ElemAllocated ==
    ASSUME LInv, AllocElem, job.i <= Len(Mod.elems)
    PROVE  LInv' /\ Grown(Store, Store')
<1> DEFINE d == Mod.elems[job.i]
           s == [k \in 1 .. Len(d.init) |-> Eval(d.init[k])]
           q == [Inst EXCEPT !.elemaddrs = Append(@, Len(elems) + 1)]
<1>1. /\ job.step = "elems" /\ job \in JobSet /\ job.i \in Nat /\ job.i >= 1
      /\ Len(Mod.globals) \in Nat /\ Len(Mod.elems) \in Nat
      /\ GlobalsOf(Mod, job.inst, job) = Len(Mod.globals)
      /\ ElemsOf(Mod, job.inst, job) = job.i - 1
  BY NextElemFollows DEF AllocElem
<1>2. ~(job.i > Len(Mod.elems))
  BY <1>1
<1>3. /\ elems' = Append(elems, s) /\ Again
      /\ insts' = [insts EXCEPT ![job.inst].elemaddrs = Append(@, Len(elems) + 1)]
      /\ UNCHANGED <<funcs, tables, mems, globals, datas, host, verdict>>
  BY <1>2 DEF AllocElem, Map
<1>4. /\ Inst \in InstSet /\ IsModule(Mod) /\ Valid(Mod) /\ Store \in StoreSet
      /\ job.inst \in 1 .. Len(insts)
      /\ InstOK(Inst, Len(Mod.globals), job.i - 1, Store)
  BY <1>1, JobFacts DEF InstOK
<1>5. insts' = [insts EXCEPT ![job.inst] = q]
  BY <1>3 DEF Inst
<1>6. d.init \in Seq(Expr) /\ d \in Elems(Mod.elems)
  BY <1>1, <1>4, ModuleTyped DEF Elems
<1>7. ASSUME NEW k \in 1 .. Len(d.init)
      PROVE  Eval(d.init[k]) \in Nat /\ Eval(d.init[k]) \in Ref(Store)
  <2>1. d.init[k] \in Expr /\ d.init[k] \in Elems(d.init)
    BY <1>6, SequenceOfElems
  <2>2. ValidConst(Mod, d.init[k], "funcref")
    BY <1>4, <1>6, <2>1, SMTT(40) DEF Valid, ValidElem
  <2>3. QED
    BY <1>1, <2>1, <2>2, Evaluated
<1>8. s \in Seq(Nat) /\ Elems(s) \subseteq Ref(Store)
  <2>1. Len(d.init) \in Nat
    BY <1>6, SMTT(40)
  <2>2. s \in Seq(Nat) /\ Len(s) = Len(d.init)
    BY <1>7, <2>1
  <2>3. QED
    BY <1>7, <2>2 DEF Elems
<1> HIDE DEF d, s
<1>9. /\ Store' \in StoreSet /\ Grown(Store, Store') /\ StoreOK(Store', Len(insts))
      /\ Len(elems') = Len(elems) + 1 /\ Len(elems) \in Nat
  BY <1>3, <1>8, ElemAppended
<1>10. job' \in JobSet /\ job'.step = "elems" /\ job'.i = job.i + 1 /\ job'.inst = job.inst
  BY <1>1, <1>3, AgainTyped
<1>11. q \in InstSet /\ q.module = Inst.module /\ InstOK(q, Len(Mod.globals), job.i, Store')
  <2> DEFINE U == Store'
             a == Len(elems) + 1
             g == Len(Mod.globals)
  <2>1. U \in StoreSet /\ Grown(Store, U) /\ Len(U.elems) = a /\ a \in Nat /\ a \in 1 .. Len(U.elems)
    BY <1>9, NextFields
  <2>2. /\ Inst.elemaddrs \in Seq(Nat) /\ Inst.exports \in Seq(ExportSet) /\ g \in Nat
    BY <1>1, <1>4, InstTyped
  <2> HIDE DEF U, a, g
  <2>3. /\ Append(Inst.elemaddrs, a) \in Seq(Nat)
        /\ Len(Append(Inst.elemaddrs, a)) = Len(Inst.elemaddrs) + 1
        /\ Elems(Append(Inst.elemaddrs, a)) = Elems(Inst.elemaddrs) \cup {a}
    BY <2>1, <2>2, Appended
  <2>4. /\ q \in InstSet /\ q.module = Inst.module /\ q.funcaddrs = Inst.funcaddrs
        /\ q.tableaddrs = Inst.tableaddrs /\ q.memaddrs = Inst.memaddrs
        /\ q.globaladdrs = Inst.globaladdrs /\ q.dataaddrs = Inst.dataaddrs
        /\ q.exports = Inst.exports /\ q.elemaddrs = Append(Inst.elemaddrs, a)
    BY <1>4, <2>3 DEF InstSet, a
  <2>5. InstOK(Inst, g, job.i - 1, U)
    BY <1>4, <2>1, <2>2, InstStays DEF g
  <2>6. Held(Inst, U) /\ Len(Inst.elemaddrs) = job.i - 1
    BY <2>5 DEF InstOK, FilledTo
  <2>7. /\ Elems(q.elemaddrs) \subseteq 1 .. Len(U.elems) /\ Len(q.elemaddrs) = job.i
        /\ \A x \in Elems(q.exports) : x.addr \in Addrs(U, x.kind)
    BY <1>1, <2>1, <2>3, <2>4, <2>6, SMTT(40) DEF Held
  <2> HIDE DEF q
  <2>8. InstOK(q, g, job.i, U)
    BY <1>4, <2>4, <2>5, <2>7, SameAddresses, ZenonT(40)
  <2>9. QED
    BY <2>4, <2>8 DEF g, U
<1> HIDE DEF q
<1>12. GlobalsOf(Mod, job.inst, job') = Len(Mod.globals) /\ ElemsOf(Mod, job.inst, job') = job.i
  BY <1>1, <1>10 DEF GlobalsOf, ElemsOf
<1>13. /\ insts' \in Seq(InstSet) /\ Len(insts') = Len(insts)
       /\ insts'[job.inst].module = Inst.module
       /\ InstsOK(insts', job', Store')
  BY <1>1, <1>5, <1>9, <1>10, <1>11, <1>12, InstUpdated
<1>14. JobOK'
  BY <1>1, <1>2, <1>3, <1>10, <1>13, JobGoesOn
<1>15. elems' \in Seq(Seq(Nat))
  BY <1>9, NextFields DEF StoreSet
<1>16. TypeOK'
  BY <1>3, <1>10, <1>13, <1>15 DEF LInv, TypeOK, host
<1>17. HostOK'
  <2>1. DOMAIN insts' = DOMAIN insts
    BY <1>13 DEF LInv, TypeOK
  <2>2. QED
    BY <1>3, <2>1 DEF LInv, HostOK, host
<1>18. QED
  BY <1>9, <1>13, <1>14, <1>16, <1>17 DEF LInv

\* The loop over the element segments keeps the invariant.
LEMMA AllocElemOK ==
    ASSUME LInv, AllocElem
    PROVE  LInv' /\ Grown(Store, Store')
<1>1. /\ job.step = "elems" /\ job \in JobSet /\ job.i \in Nat /\ Len(Mod.elems) \in Nat
  BY NextElemFollows DEF AllocElem
<1>2. CASE job.i > Len(Mod.elems)
  <2>1. Goto("exports") /\ UNCHANGED <<store, insts, host, verdict>>
    BY <1>2 DEF AllocElem, store
  <2>2. job' \in JobSet /\ job'.step = "exports" /\ job'.inst = job.inst
    BY <1>1, <2>1, GotoTyped DEF Steps
  <2>3. QED
    BY <1>1, <1>2, <2>1, <2>2, JobMoves
<1>3. CASE job.i <= Len(Mod.elems)
  BY <1>3, ElemAllocated
<1>4. QED
  BY <1>1, <1>2, <1>3

\* Behind the loops over globals and element segments an instance is filled.
LEMMA Complete3 ==
    ASSUME LInv, job.step \notin {"idle", "globals", "elems"}
    PROVE  /\ GlobalsOf(Mod, job.inst, job) = Len(Mod.globals)
           /\ ElemsOf(Mod, job.inst, job) = Len(Mod.elems)
           /\ InstOK(Inst, Len(Mod.globals), Len(Mod.elems), Store)
           /\ \A kind \in Kinds : Len(AddressOf(Inst, kind)) = Space(Mod, kind)
<1>1. /\ GlobalsOf(Mod, job.inst, job) = Len(Mod.globals)
      /\ ElemsOf(Mod, job.inst, job) = Len(Mod.elems)
  BY DEF GlobalsOf, ElemsOf
<1>2. InstOK(Inst, Len(Mod.globals), Len(Mod.elems), Store)
  BY <1>1, JobFacts DEF InstOK
<1>3. /\ Space(Mod, "global") = Len(ConstGlobals(Mod)) + Len(Mod.globals)
  BY JobFacts, Spaces
<1>4. FilledTo(Inst, Len(Mod.globals), Len(Mod.elems))
  BY <1>2 DEF InstOK
<1>5. /\ Len(Inst.funcaddrs) = Space(Mod, "func") /\ Len(Inst.tableaddrs) = Space(Mod, "table")
      /\ Len(Inst.memaddrs) = Space(Mod, "mem") /\ Len(Inst.globaladdrs) = Space(Mod, "global")
  BY <1>3, <1>4 DEF FilledTo, Mod
<1>6. ASSUME NEW kind \in Kinds
      PROVE  Len(AddressOf(Inst, kind)) = Space(Mod, kind)
  BY <1>5 DEF AddressOf, Kinds
<1>7. QED
  BY <1>1, <1>2, <1>6

\* Building the export list of an instance keeps the invariant.
LEMMA CreateExportsOK ==
    ASSUME LInv, CreateExports
    PROVE  LInv' /\ Grown(Store, Store')
<1> DEFINE x == [k \in 1 .. Len(Mod.exports) |-> ExportInst(Mod.exports[k])]
           q == [Inst EXCEPT !.exports = x]
<1>1. /\ job.step = "exports" /\ Goto("tables") /\ UNCHANGED <<store, host, verdict>>
      /\ insts' = [insts EXCEPT ![job.inst].exports = x]
  BY DEF CreateExports, Map
<1>2. /\ job \in JobSet /\ Inst \in InstSet /\ IsModule(Mod) /\ Valid(Mod) /\ Store \in StoreSet
      /\ Held(Inst, Store) /\ job.inst \in 1 .. Len(insts) /\ job # Idle
  BY <1>1, JobFacts
<1>3. /\ InstOK(Inst, Len(Mod.globals), Len(Mod.elems), Store)
      /\ \A kind \in Kinds : Len(AddressOf(Inst, kind)) = Space(Mod, kind)
  BY <1>1, Complete3
<1>4. Len(Mod.exports) \in Nat /\ Mod.exports \in Seq(Elems(Mod.exports))
  BY <1>2, ModuleTyped DEF IsModule, IsSequence
<1>5. ASSUME NEW k \in 1 .. Len(Mod.exports)
      PROVE  /\ ExportInst(Mod.exports[k]) \in ExportSet
             /\ ExportInst(Mod.exports[k]).addr \in Addrs(Store, ExportInst(Mod.exports[k]).kind)
  <2> DEFINE e == Mod.exports[k]
  <2>1. e \in Elems(Mod.exports) /\ e.kind \in Kinds /\ e.idx \in Nat
    BY <1>2, <1>4, ModuleTyped, SequenceOfElems
  <2>2. e.idx < Space(Mod, e.kind)
    BY <1>2, <2>1 DEF Valid, ValidExport
  <2>3. e.name \in ExportNames
    BY <1>2, <2>1 DEF ExportNames, Mod, InstSet
  <2> DEFINE a == At(AddressOf(Inst, e.kind), e.idx)
  <2>4. a \in Addrs(Store, e.kind) /\ a \in Nat
    BY <1>2, <1>3, <2>1, <2>2, AddressAt
  <2>5. ExportInst(e) = [name |-> e.name, kind |-> e.kind, addr |-> a]
    BY <2>1 DEF ExportInst, AddressOf, Kinds
  <2> HIDE DEF e, a
  <2>6. QED
    BY <2>1, <2>3, <2>4, <2>5 DEF ExportSet, e
<1>6. x \in Seq(ExportSet) /\ Len(x) = Len(Mod.exports)
  BY <1>4, <1>5
<1>7. \A e \in Elems(x) : e.addr \in Addrs(Store, e.kind)
  BY <1>5, <1>6 DEF Elems
<1> HIDE DEF x
<1>8. insts' = [insts EXCEPT ![job.inst] = q]
  BY <1>1 DEF Inst
<1>9. /\ q \in InstSet /\ q.module = Inst.module /\ q.funcaddrs = Inst.funcaddrs
      /\ q.tableaddrs = Inst.tableaddrs /\ q.memaddrs = Inst.memaddrs
      /\ q.globaladdrs = Inst.globaladdrs /\ q.dataaddrs = Inst.dataaddrs
      /\ q.elemaddrs = Inst.elemaddrs /\ q.exports = x
  BY <1>2, <1>6 DEF InstSet
<1> HIDE DEF q
<1>10. Elems(q.elemaddrs) \subseteq 1 .. Len(Store.elems) /\ Len(q.elemaddrs) = Len(Mod.elems)
  BY <1>2, <1>3, <1>9 DEF InstOK, Held, FilledTo
<1>11. InstOK(q, Len(Mod.globals), Len(Mod.elems), Store)
  BY <1>2, <1>3, <1>7, <1>9, <1>10, SameAddresses
<1>12. Store' = Store /\ Store' \in StoreSet /\ Grown(Store, Store')
  BY <1>1, SameStore
<1>13. job' \in JobSet /\ job'.step = "tables" /\ job'.inst = job.inst
  BY <1>1, <1>2, GotoTyped DEF Steps
<1>14. /\ GlobalsOf(Mod, job.inst, job') = Len(Mod.globals)
       /\ ElemsOf(Mod, job.inst, job') = Len(Mod.elems)
  BY <1>13 DEF GlobalsOf, ElemsOf
<1>15. /\ insts' \in Seq(InstSet) /\ Len(insts') = Len(insts)
       /\ insts'[job.inst].module = Inst.module
       /\ InstsOK(insts', job', Store')
  BY <1>1, <1>8, <1>9, <1>11, <1>12, <1>13, <1>14, InstUpdated
<1>16. JobOK'
  BY <1>1, <1>13, <1>15, JobGoesOn
<1>17. TypeOK'
  BY <1>1, <1>13, <1>15 DEF LInv, TypeOK, host, store
<1>18. StoreOK(Store, Len(insts))'
  BY <1>12, <1>15 DEF LInv
<1>19. HostOK'
  <2>1. DOMAIN insts' = DOMAIN insts
    BY <1>15 DEF LInv, TypeOK
  <2>2. QED
    BY <1>1, <2>1 DEF LInv, HostOK, host
<1>20. QED
  BY <1>12, <1>15, <1>16, <1>17, <1>18, <1>19 DEF LInv

-----------------------------------------------------------------------------
(* Steps that write to tables and memories.                                *)

\* A sequence with one element replaced.
LEMMA Replaced ==
    ASSUME NEW X, NEW s \in Seq(X), NEW a \in 1 .. Len(s), NEW x \in X
    PROVE  /\ [s EXCEPT ![a] = x] \in Seq(X) /\ Len([s EXCEPT ![a] = x]) = Len(s)
           /\ [s EXCEPT ![a] = x][a] = x
           /\ \A b \in 1 .. Len(s) : b # a => [s EXCEPT ![a] = x][b] = s[b]
  OBVIOUS

\* A store in which entries of tables, bytes of memories or element segments changed, and
\* every reference is still to an allocated function.
LEMMA StoreChanged ==
    ASSUME LInv, UNCHANGED <<funcs, globals, datas>>,
           tables' \in Seq(TableSet), Len(tables') = Len(tables),
           \A a \in 1 .. Len(tables) :
              /\ tables'[a].type = tables[a].type
              /\ Elems(tables'[a].elem) \subseteq Ref(Store),
           mems' \in Seq(MemSet), Len(mems') = Len(mems),
           \A a \in 1 .. Len(mems) :
              /\ mems'[a].type.min >= mems[a].type.min
              /\ mems'[a].type.has_max = mems[a].type.has_max
              /\ mems'[a].type.max = mems[a].type.max,
           elems' \in Seq(Seq(Nat)), Len(elems') = Len(elems),
           \A a \in 1 .. Len(elems) : Elems(elems'[a]) \subseteq Ref(Store)
    PROVE  Store' \in StoreSet /\ Grown(Store, Store') /\ StoreOK(Store', Len(insts))
<1>1. Store \in StoreSet /\ StoreOK(Store, Len(insts))
  BY StoreTyped DEF LInv
<1>2. Store' \in StoreSet
  BY <1>1 DEF StoreSet, Store
<1> DEFINE U == Store'
           S == Store
<1>3. /\ U.funcs = funcs /\ U.tables = tables' /\ U.mems = mems'
      /\ U.globals = globals /\ U.elems = elems' /\ U.datas = datas
      /\ S.funcs = funcs /\ S.tables = tables /\ S.mems = mems
      /\ S.globals = globals /\ S.elems = elems /\ S.datas = datas
  BY NextFields, StoreFields
<1>4. S \in StoreSet /\ Grown(S, S) /\ StoreOK(S, Len(insts))
  BY <1>1, GrownSelf
<1>5. Ref(U) = Ref(S)
  BY <1>3 DEF Ref
<1>6. \A a \in 1 .. Len(tables) : Elems(tables'[a].elem) \subseteq Ref(S)
  OBVIOUS
<1>7. \A a \in 1 .. Len(elems) : Elems(elems'[a]) \subseteq Ref(S)
  OBVIOUS
<1> HIDE DEF U, S
<1>8. Grown(S, U)
  BY <1>3, <1>4 DEF Grown
<1>9. StoreOK(U, Len(insts))
  BY <1>3, <1>4, <1>5, <1>6, <1>7 DEF StoreOK
<1>10. QED
  BY <1>2, <1>8, <1>9 DEF U, S

\* A step of a job, or of a function, that leaves the instances alone.
LEMMA StoreStep ==
    ASSUME LInv, UNCHANGED <<insts, test_modules, linked>>,
           current' = current \/ current' \in DOMAIN test_modules,
           Store' \in StoreSet, Grown(Store, Store'), StoreOK(Store', Len(insts)),
           job.step \notin {"globals", "elems"},
           \/ job' = Idle /\ verdict'.what # "linked"
           \/ /\ job.step # "idle" /\ job' \in JobSet /\ job'.inst = job.inst
              /\ job'.step \notin {"globals", "elems"} /\ verdict' = verdict
    PROVE  LInv'
<1>1. InstsOK(insts', job', Store')
  <2>1. job'.step \notin {"globals", "elems"}
    BY DEF Idle
  <2>2. QED
    BY <2>1, InstsSame
<1>2. JobOK'
  <2>1. CASE job' = Idle
    BY <2>1 DEF JobOK
  <2>2. CASE job.step # "idle" /\ job' \in JobSet /\ job'.inst = job.inst
             /\ job'.step \notin {"globals", "elems"} /\ verdict' = verdict
    BY <2>2, JobGoesOn DEF Inst
  <2>3. QED
    BY <2>1, <2>2
<1>3. /\ funcs' \in Seq(FuncSet) /\ tables' \in Seq(TableSet) /\ mems' \in Seq(MemSet)
      /\ globals' \in Seq(GlobalSet) /\ elems' \in Seq(Seq(Nat)) /\ datas' \in Seq(Nat)
  BY NextFields DEF StoreSet
<1>4. current' \in Nat \cup {NULL} /\ current' \in DOMAIN test_modules \cup {NULL}
  <2>1. /\ test_modules \in Seq(TestModuleSet) /\ current \in Nat \cup {NULL}
        /\ current \in DOMAIN test_modules \cup {NULL}
    BY DEF LInv, TypeOK, HostOK
  <2>2. QED
    BY <2>1
<1>5. TypeOK'
  BY <1>3, <1>4 DEF LInv, TypeOK
<1>6. HostOK'
  BY <1>4 DEF LInv, HostOK
<1>7. QED
  BY <1>1, <1>2, <1>5, <1>6 DEF LInv

\* A run of elements written into a sequence, which keeps its length.
LEMMA WrittenIs ==
    ASSUME NEW X, NEW s \in Seq(X), NEW at \in Nat, NEW xs \in Seq(X)
    PROVE  /\ Written(s, at, xs) \in Seq(X) /\ Len(Written(s, at, xs)) = Len(s)
           /\ Elems(Written(s, at, xs)) \subseteq Elems(s) \cup Elems(xs)
           /\ \A k \in 1 .. Len(s) :
                 Written(s, at, xs)[k] = IF k \in at + 1 .. at + Len(xs) THEN xs[k - at] ELSE s[k]
<1> DEFINE v(k) == IF k \in at + 1 .. at + Len(xs) THEN xs[k - at] ELSE s[k]
           w == Written(s, at, xs)
<1>1. w = [k \in 1 .. Len(s) |-> v(k)]
  BY DEF Written
<1>2. ASSUME NEW k \in 1 .. Len(s)
      PROVE  v(k) \in X /\ v(k) \in Elems(s) \cup Elems(xs)
  <2>1. CASE k \in at + 1 .. at + Len(xs)
    <3>1. k - at \in 1 .. Len(xs)
      BY <2>1
    <3>2. QED
      BY <2>1, <3>1, SequenceOfElems
  <2>2. CASE k \notin at + 1 .. at + Len(xs)
    BY <2>2, SequenceOfElems
  <2>3. QED
    BY <2>1, <2>2
<1>3. Len(s) \in Nat
  OBVIOUS
<1> HIDE DEF v
<1>4. w \in Seq(X) /\ Len(w) = Len(s) /\ \A k \in 1 .. Len(s) : w[k] = v(k)
  BY <1>1, <1>2, <1>3
<1> HIDE DEF w
<1>5. Elems(w) \subseteq Elems(s) \cup Elems(xs)
  BY <1>2, <1>4 DEF Elems
<1>6. QED
  BY <1>4, <1>5 DEF v, w

\* The entries of a table.
LEMMA TableIs ==
    ASSUME LInv, NEW a \in 1 .. Len(tables)
    PROVE  /\ tables[a] \in TableSet /\ tables[a].elem \in Seq(Nat)
           /\ Elems(tables[a].elem) \subseteq Ref(Store)
           /\ tables \in Seq(TableSet)
<1>1. tables \in Seq(TableSet) /\ StoreOK(Store, Len(insts))
  BY DEF LInv, TypeOK
<1>2. tables[a] \in TableSet
  BY <1>1
<1>3. QED
  BY <1>1, <1>2, StoreFields DEF TableSet, StoreOK

\* One table gets other entries.
LEMMA TableChanged ==
    ASSUME LInv, NEW a \in 1 .. Len(tables), NEW s \in Seq(Nat), Elems(s) \subseteq Ref(Store),
           tables' = [tables EXCEPT ![a].elem = s]
    PROVE  /\ tables' \in Seq(TableSet) /\ Len(tables') = Len(tables)
           /\ tables'[a].elem = s
           /\ \A b \in 1 .. Len(tables) : b # a => tables'[b] = tables[b]
           /\ \A b \in 1 .. Len(tables) :
                 /\ tables'[b].type = tables[b].type
                 /\ Elems(tables'[b].elem) \subseteq Ref(Store)
<1> DEFINE t == [tables[a] EXCEPT !.elem = s]
<1>1. tables \in Seq(TableSet) /\ tables[a] \in TableSet
  BY TableIs
<1>2. t \in TableSet /\ t.type = tables[a].type /\ t.elem = s
  BY <1>1 DEF TableSet
<1>3. tables' = [tables EXCEPT ![a] = t]
  OBVIOUS
<1> HIDE DEF t
<1>4. /\ tables' \in Seq(TableSet) /\ Len(tables') = Len(tables) /\ tables'[a] = t
      /\ \A b \in 1 .. Len(tables) : b # a => tables'[b] = tables[b]
  BY <1>1, <1>2, <1>3, Replaced
<1>5. ASSUME NEW b \in 1 .. Len(tables)
      PROVE  /\ tables'[b].type = tables[b].type
             /\ Elems(tables'[b].elem) \subseteq Ref(Store)
  <2>1. CASE b = a
    BY <1>2, <1>4, <2>1
  <2>2. CASE b # a
    BY <1>4, <2>2, TableIs
  <2>3. QED
    BY <2>1, <2>2
<1>6. QED
  BY <1>2, <1>4, <1>5

\* Tables that do not change.
LEMMA TablesSame ==
    ASSUME LInv, tables' = tables
    PROVE  /\ tables' \in Seq(TableSet) /\ Len(tables') = Len(tables)
           /\ \A b \in 1 .. Len(tables) :
                 /\ tables'[b].type = tables[b].type
                 /\ Elems(tables'[b].elem) \subseteq Ref(Store)
  BY TableIs DEF LInv, TypeOK

\* Memories that do not change.
LEMMA MemsSame ==
    ASSUME LInv, mems' = mems
    PROVE  /\ mems' \in Seq(MemSet) /\ Len(mems') = Len(mems)
           /\ \A a \in 1 .. Len(mems) :
                 /\ mems'[a].type.min >= mems[a].type.min
                 /\ mems'[a].type.has_max = mems[a].type.has_max
                 /\ mems'[a].type.max = mems[a].type.max
<1>1. mems \in Seq(MemSet) /\ Grown(Store, Store)
  BY StoreTyped, GrownSelf DEF LInv, TypeOK
<1>2. \A a \in 1 .. Len(mems) : mems[a].type.min >= mems[a].type.min
  BY <1>1, StoreFields DEF Grown
<1>3. QED
  BY <1>1, <1>2

\* Element segments that do not change.
LEMMA ElemsSame ==
    ASSUME LInv, elems' = elems
    PROVE  /\ elems' \in Seq(Seq(Nat)) /\ Len(elems') = Len(elems)
           /\ \A a \in 1 .. Len(elems) : Elems(elems'[a]) \subseteq Ref(Store)
  BY StoreFields DEF LInv, TypeOK, StoreOK

\* Element segments of which one is dropped (elem.drop).
LEMMA ElemsDropped ==
    ASSUME LInv, NEW b \in 1 .. Len(elems), elems' = [elems EXCEPT ![b] = <<>>]
    PROVE  /\ elems' \in Seq(Seq(Nat)) /\ Len(elems') = Len(elems)
           /\ \A a \in 1 .. Len(elems) :
                 /\ Elems(elems'[a]) \subseteq Ref(Store)
                 /\ elems'[a] = IF a = b THEN <<>> ELSE elems[a]
<1>1. /\ elems \in Seq(Seq(Nat))
      /\ \A a \in 1 .. Len(elems) : Elems(elems[a]) \subseteq Ref(Store)
  BY StoreFields DEF LInv, TypeOK, StoreOK
<1>2. <<>> \in Seq(Nat) /\ Elems(<<>>) = {}
  BY DEF Elems
<1>3. QED
  BY <1>1, <1>2, SMTT(40)

\* Memories of which one gets other bytes.
LEMMA MemChanged ==
    ASSUME LInv, NEW a \in 1 .. Len(mems), NEW s \in Seq(Nat),
           mems' = [mems EXCEPT ![a].bytes = s]
    PROVE  /\ mems' \in Seq(MemSet) /\ Len(mems') = Len(mems)
           /\ mems'[a].bytes = s /\ mems'[a].type = mems[a].type
           /\ \A b \in 1 .. Len(mems) : b # a => mems'[b] = mems[b]
           /\ \A b \in 1 .. Len(mems) :
                 /\ mems'[b].type.min >= mems[b].type.min
                 /\ mems'[b].type.has_max = mems[b].type.has_max
                 /\ mems'[b].type.max = mems[b].type.max
<1> DEFINE m == [mems[a] EXCEPT !.bytes = s]
<1>1. mems \in Seq(MemSet) /\ mems[a] \in MemSet
  BY DEF LInv, TypeOK
<1>2. m \in MemSet /\ m.type = mems[a].type /\ m.bytes = s
  BY <1>1 DEF MemSet
<1>3. mems' = [mems EXCEPT ![a] = m]
  OBVIOUS
<1> HIDE DEF m
<1>4. /\ mems' \in Seq(MemSet) /\ Len(mems') = Len(mems) /\ mems'[a] = m
      /\ \A b \in 1 .. Len(mems) : b # a => mems'[b] = mems[b]
  <2>1. /\ [mems EXCEPT ![a] = m] \in Seq(MemSet) /\ Len([mems EXCEPT ![a] = m]) = Len(mems)
        /\ [mems EXCEPT ![a] = m][a] = m
        /\ \A b \in 1 .. Len(mems) : b # a => [mems EXCEPT ![a] = m][b] = mems[b]
    BY <1>1, <1>2, Replaced
  <2>2. QED
    BY <1>3, <2>1
<1>5. \A b \in 1 .. Len(mems) : mems'[b].type = mems[b].type
  <2>1. ASSUME NEW b \in 1 .. Len(mems)
        PROVE  mems'[b].type = mems[b].type
    <3>1. CASE b = a
      BY <1>2, <1>4, <3>1
    <3>2. CASE b # a
      BY <1>4, <3>2
    <3>3. QED
      BY <3>1, <3>2
  <2>2. QED
    BY <2>1
<1>6. \A b \in 1 .. Len(mems) : mems[b].type.min >= mems[b].type.min
  <2>1. \A b \in 1 .. Len(mems) : mems[b] \in MemSet
    BY <1>1
  <2>2. QED
    BY <2>1 DEF MemSet, LimitsType
<1>7. QED
  BY <1>2, <1>4, <1>5, <1>6

-----------------------------------------------------------------------------
(* Active segments.                                                        *)

\* The index of the loop a job is in.
LEMMA JobIndex ==
    ASSUME LInv, job.step # "idle"
    PROVE  job \in JobSet /\ job.i \in Nat /\ job.i >= 1
           /\ Len(Mod.elems) \in Nat /\ Len(Mod.datas) \in Nat
<1>1. job \in JobSet /\ IsModule(Mod)
  BY JobFacts
<1>2. job.i \in Nat \ {0}
  BY <1>1 DEF JobSet
<1>3. QED
  BY <1>1, <1>2, ModuleTyped

\* Where the segment that is next comes from and goes to.
LEMMA ElemSegment ==
    ASSUME LInv, job.step = "tables", job.i <= Len(Mod.elems)
    PROVE  LET e == Mod.elems[job.i]
           IN  /\ Inst.elemaddrs[job.i] \in 1 .. Len(elems)
               /\ Inst.elemaddrs[job.i] \in Elems(Inst.elemaddrs)
               /\ e.mode \in {"active", "passive", "declarative"}
               /\ e.mode = "active" =>
                     /\ At(Inst.tableaddrs, e.table) \in 1 .. Len(tables)
                     /\ At(Inst.tableaddrs, e.table) \in Elems(Inst.tableaddrs)
                     /\ Eval(e.offset) \in Nat
<1> DEFINE e == Mod.elems[job.i]
<1>1. /\ Inst \in InstSet /\ IsModule(Mod) /\ Valid(Mod) /\ Held(Inst, Store)
  BY JobFacts
<1>2. job.i \in 1 .. Len(Mod.elems) /\ Mod.elems \in Seq(ElemDecl)
  BY <1>1, JobIndex DEF IsModule
<1>3. /\ Len(Inst.elemaddrs) = Len(Mod.elems)
      /\ \A kind \in Kinds : Len(AddressOf(Inst, kind)) = Space(Mod, kind)
  BY Complete3 DEF InstOK, FilledTo
<1>4. Inst.elemaddrs[job.i] \in Elems(Inst.elemaddrs)
  BY <1>2, <1>3 DEF Elems
<1>5. Inst.elemaddrs[job.i] \in 1 .. Len(elems)
  BY <1>1, <1>4, StoreFields DEF Held
<1>6. /\ e.mode \in {"active", "passive", "declarative"} /\ e.table \in Nat /\ e.offset \in Expr
  BY <1>1, <1>2, ModuleTyped
<1>7. ASSUME e.mode = "active"
      PROVE  /\ At(Inst.tableaddrs, e.table) \in 1 .. Len(tables)
             /\ At(Inst.tableaddrs, e.table) \in Elems(Inst.tableaddrs)
             /\ Eval(e.offset) \in Nat
  <2>1. ValidElem(Mod, e)
    BY <1>1, <1>2 DEF Valid, Elems
  <2>2. e.table < Len(TableTypes(Mod)) /\ ValidConst(Mod, e.offset, "i32")
    BY <1>7, <2>1 DEF ValidElem, In
  <2>3. Len(TableTypes(Mod)) = Space(Mod, "table")
    BY <1>1, Spaces
  <2>4. AddressOf(Inst, "table") = Inst.tableaddrs
    BY DEF AddressOf
  <2>5. Addrs(Store, "table") = 1 .. Len(tables)
    BY StoreFields DEF Addrs
  <2> HIDE DEF e
  <2>6. e.table < Len(AddressOf(Inst, "table"))
    BY <1>3, <2>2, <2>3 DEF Kinds
  <2>7. /\ At(AddressOf(Inst, "table"), e.table) \in Addrs(Store, "table")
        /\ At(AddressOf(Inst, "table"), e.table) \in Elems(AddressOf(Inst, "table"))
    BY <1>1, <1>6, <2>6, AddressAt DEF Kinds
  <2>8. Eval(e.offset) \in Nat
    BY <1>6, <2>2, Evaluated
  <2>9. QED
    BY <2>4, <2>5, <2>7, <2>8
<1>8. QED
  BY <1>4, <1>5, <1>6, <1>7

\* The data segment that is next is there, and so is the memory it is for.
LEMMA DataSegment ==
    ASSUME LInv, job.step = "mems", job.i <= Len(Mod.datas)
    PROVE  LET d == Mod.datas[job.i]
           IN  /\ Inst.dataaddrs[job.i] \in 1 .. Len(datas)
               /\ datas[Inst.dataaddrs[job.i]] \in Nat
               /\ d.mode = "active" =>
                     /\ At(Inst.memaddrs, 0) \in 1 .. Len(mems)
                     /\ At(Inst.memaddrs, 0) \in Elems(Inst.memaddrs)
                     /\ Eval(d.offset) \in Nat
<1> DEFINE d == Mod.datas[job.i]
<1>1. /\ Inst \in InstSet /\ IsModule(Mod) /\ Valid(Mod) /\ Held(Inst, Store)
  BY JobFacts
<1>2. job.i \in 1 .. Len(Mod.datas) /\ Mod.datas \in Seq(DataDecl)
  BY <1>1, JobIndex DEF IsModule
<1>3. /\ Len(Inst.dataaddrs) = Len(Mod.datas)
      /\ \A kind \in Kinds : Len(AddressOf(Inst, kind)) = Space(Mod, kind)
  BY Complete3 DEF InstOK, FilledTo, Mod
<1>4. Inst.dataaddrs[job.i] \in Elems(Inst.dataaddrs)
  BY <1>2, <1>3 DEF Elems
<1>5. Inst.dataaddrs[job.i] \in 1 .. Len(datas)
  BY <1>1, <1>4, StoreFields DEF Held
<1>6. /\ d.mode \in {"active", "passive"} /\ d.memory \in Nat /\ d.offset \in Expr
  BY <1>1, <1>2, ModuleTyped
<1>7. ASSUME d.mode = "active"
      PROVE  /\ At(Inst.memaddrs, 0) \in 1 .. Len(mems)
             /\ At(Inst.memaddrs, 0) \in Elems(Inst.memaddrs)
             /\ Eval(d.offset) \in Nat
  <2>1. ValidData(Mod, d)
    BY <1>1, <1>2 DEF Valid, Elems
  <2>2. d.memory < Len(MemTypes(Mod)) /\ ValidConst(Mod, d.offset, "i32")
    BY <1>7, <2>1 DEF ValidData, In
  <2>3. Len(MemTypes(Mod)) = Space(Mod, "mem")
    BY <1>1, Spaces
  <2>4. AddressOf(Inst, "mem") = Inst.memaddrs /\ Inst.memaddrs \in Seq(Nat)
    BY <1>1, InstTyped DEF AddressOf
  <2>5. Addrs(Store, "mem") = 1 .. Len(mems)
    BY StoreFields DEF Addrs
  <2> HIDE DEF d
  <2>6. d.memory < Len(AddressOf(Inst, "mem")) /\ Len(Inst.memaddrs) \in Nat
    BY <1>3, <2>2, <2>3, <2>4 DEF Kinds
  <2>7. 0 < Len(AddressOf(Inst, "mem"))
    BY <1>6, <2>4, <2>6
  <2>8. /\ At(AddressOf(Inst, "mem"), 0) \in Addrs(Store, "mem")
        /\ At(AddressOf(Inst, "mem"), 0) \in Elems(AddressOf(Inst, "mem"))
    BY <1>1, <2>7, AddressAt DEF Kinds
  <2>9. Eval(d.offset) \in Nat
    BY <1>6, <2>2, Evaluated
  <2>10. QED
    BY <2>4, <2>5, <2>8, <2>9
<1>8. datas[Inst.dataaddrs[job.i]] \in Nat
  <2>1. datas \in Seq(Nat)
    BY DEF LInv, TypeOK
  <2>2. QED
    BY <1>5, <2>1, SequenceOfElems
<1>9. QED
  BY <1>5, <1>7, <1>8

-----------------------------------------------------------------------------
(* The table segments.                                                     *)

\* A step of the job that changes tables, memories or segments.
LEMMA JobStep ==
    ASSUME LInv, job.step \notin {"idle", "globals", "elems"}, UNCHANGED <<insts, host>>,
           Store' \in StoreSet, Grown(Store, Store'), StoreOK(Store', Len(insts)),
           \/ Fail
           \/ Again /\ verdict' = verdict
           \/ /\ verdict' = verdict
              /\ \E s \in Steps \ {"globals", "elems"} : Goto(s)
    PROVE  LInv' /\ Grown(Store, Store')
<1>1. job \in JobSet /\ job.step # "idle"
  BY JobIndex
<1>2. CASE Fail
  <2>1. job' = Idle /\ verdict'.what # "linked"
    BY <1>2 DEF Fail, Said
  <2>2. QED
    BY <2>1, StoreStep DEF host
<1>3. CASE Again /\ verdict' = verdict
  <2>1. job' \in JobSet /\ job'.inst = job.inst /\ job'.step \notin {"globals", "elems"}
    BY <1>1, <1>3, AgainTyped
  <2>2. QED
    BY <1>1, <1>3, <2>1, StoreStep DEF host
<1>4. CASE verdict' = verdict /\ \E s \in Steps \ {"globals", "elems"} : Goto(s)
  <2>1. PICK s \in Steps \ {"globals", "elems"} : Goto(s)
    BY <1>4
  <2>2. job' \in JobSet /\ job'.inst = job.inst /\ job'.step \notin {"globals", "elems"}
    BY <1>1, <2>1, GotoTyped
  <2>3. QED
    BY <1>1, <1>4, <2>2, StoreStep DEF host
<1>5. QED
  BY <1>2, <1>3, <1>4

\* A step that leaves the store alone leaves its references allocated.
LEMMA StoreSame ==
    ASSUME LInv, UNCHANGED store
    PROVE  Store' \in StoreSet /\ Grown(Store, Store') /\ StoreOK(Store', Len(insts))
  BY SameStore DEF LInv

\* The segment is written,
LEMMA TableWritten ==
    ASSUME LInv, NEW t \in 1 .. Len(tables), NEW b \in 1 .. Len(elems), NEW at \in Nat,
           tables' = [tables EXCEPT ![t].elem = Written(tables[t].elem, at, elems[b])]
    PROVE  /\ tables' \in Seq(TableSet) /\ Len(tables') = Len(tables)
           /\ \A c \in 1 .. Len(tables) : c # t => tables'[c] = tables[c]
           /\ \A c \in 1 .. Len(tables) :
                 /\ tables'[c].type = tables[c].type
                 /\ Elems(tables'[c].elem) \subseteq Ref(Store)
           /\ Len(tables'[t].elem) = Len(tables[t].elem)
<1> DEFINE s == tables[t].elem
           xs == elems[b]
<1>1. s \in Seq(Nat) /\ Elems(s) \subseteq Ref(Store)
  BY TableIs
<1>2. xs \in Seq(Nat) /\ Elems(xs) \subseteq Ref(Store)
  BY StoreFields, SMTT(40) DEF LInv, TypeOK, StoreOK
<1> HIDE DEF s, xs
<1> DEFINE w == Written(s, at, xs)
<1>3. /\ w \in Seq(Nat) /\ Len(w) = Len(s) /\ Elems(w) \subseteq Elems(s) \cup Elems(xs)
  BY <1>1, <1>2, WrittenIs
<1>4. tables' = [tables EXCEPT ![t].elem = w]
  BY DEF s, xs
<1> HIDE DEF w
<1>5. Elems(w) \subseteq Ref(Store)
  BY <1>1, <1>2, <1>3
<1>6. /\ tables' \in Seq(TableSet) /\ Len(tables') = Len(tables)
      /\ tables'[t].elem = w
      /\ \A c \in 1 .. Len(tables) : c # t => tables'[c] = tables[c]
      /\ \A c \in 1 .. Len(tables) :
            /\ tables'[c].type = tables[c].type
            /\ Elems(tables'[c].elem) \subseteq Ref(Store)
  BY <1>3, <1>4, <1>5, TableChanged
<1>7. QED
  BY <1>3, <1>6 DEF s

\* Initialising a table from an active segment (table_init), or trapping, keeps the invariant.
LEMMA InitTablesOK ==
    ASSUME LInv, InitTables
    PROVE  LInv' /\ Grown(Store, Store')
<1> DEFINE e == Mod.elems[job.i]
           b == Inst.elemaddrs[job.i]
<1>1. /\ job.step = "tables" /\ UNCHANGED <<funcs, mems, globals, datas, insts, host>>
      /\ job.i \in Nat /\ Len(Mod.elems) \in Nat
  BY JobIndex DEF InitTables
<1>2. /\ mems' \in Seq(MemSet) /\ Len(mems') = Len(mems)
      /\ \A a \in 1 .. Len(mems) :
            /\ mems'[a].type.min >= mems[a].type.min
            /\ mems'[a].type.has_max = mems[a].type.has_max
            /\ mems'[a].type.max = mems[a].type.max
  BY <1>1, MemsSame
<1>3. CASE UNCHANGED <<tables, elems>>
  <2>1. Store' \in StoreSet /\ Grown(Store, Store') /\ StoreOK(Store', Len(insts))
    BY <1>1, <1>3, StoreSame DEF store
  <2>2. \/ Fail
        \/ Again /\ verdict' = verdict
        \/ verdict' = verdict /\ \E s \in Steps \ {"globals", "elems"} : Goto(s)
    <3>1. CASE job.i > Len(Mod.elems)
      <4>1. Goto("mems") /\ verdict' = verdict
        BY <3>1, SMTT(40) DEF InitTables
      <4>2. QED
        BY <4>1 DEF Steps
    <3>2. CASE ~(job.i > Len(Mod.elems))
      BY <3>2, ElemSegment, <1>1 DEF InitTables, InitTable
    <3>3. QED
      BY <3>1, <3>2
  <2>3. QED
    BY <1>1, <2>1, <2>2, JobStep
<1>4. CASE ~ UNCHANGED <<tables, elems>>
  <2>1. ~(job.i > Len(Mod.elems)) /\ job.i <= Len(Mod.elems)
    BY <1>1, <1>4, SMTT(40) DEF InitTables
  <2>2. /\ b \in 1 .. Len(elems) /\ e.mode \in {"active", "declarative"}
        /\ elems' = [elems EXCEPT ![b] = <<>>] /\ Again /\ verdict' = verdict
    BY <1>1, <1>4, <2>1, ElemSegment DEF InitTables, InitTable, Dropped
  <2>3. /\ elems' \in Seq(Seq(Nat)) /\ Len(elems') = Len(elems)
        /\ \A a \in 1 .. Len(elems) : Elems(elems'[a]) \subseteq Ref(Store)
    BY <2>2, ElemsDropped
  <2>4. /\ tables' \in Seq(TableSet) /\ Len(tables') = Len(tables)
        /\ \A c \in 1 .. Len(tables) :
              /\ tables'[c].type = tables[c].type
              /\ Elems(tables'[c].elem) \subseteq Ref(Store)
    <3>1. CASE e.mode = "declarative"
      <4>1. tables' = tables
        BY <1>1, <2>1, <3>1 DEF InitTables
      <4>2. QED
        BY <4>1, TablesSame
    <3>2. CASE e.mode = "active"
      <4> DEFINE t == At(Inst.tableaddrs, e.table)
                 at == Eval(e.offset)
      <4>1. t \in 1 .. Len(tables) /\ at \in Nat
        BY <1>1, <2>1, <3>2, ElemSegment
      <4>2. tables' = [tables EXCEPT ![t].elem = Written(tables[t].elem, at, elems[b])]
        BY <1>1, <1>4, <2>1, <3>2 DEF InitTables, InitTable
      <4> HIDE DEF t, at, b
      <4>3. QED
        BY <2>2, <4>1, <4>2, TableWritten
    <3>3. QED
      BY <2>2, <3>1, <3>2
  <2>5. Store' \in StoreSet /\ Grown(Store, Store') /\ StoreOK(Store', Len(insts))
    BY <1>1, <1>2, <2>3, <2>4, StoreChanged
  <2>6. QED
    BY <1>1, <2>2, <2>5, JobStep
<1>5. QED
  BY <1>3, <1>4

-----------------------------------------------------------------------------
(* The data segments.                                                      *)

\* What a memory holds.
LEMMA MemTyped ==
    ASSUME LInv, NEW a \in 1 .. Len(mems)
    PROVE  mems[a] \in MemSet /\ mems[a].bytes \in Seq(Nat) /\ mems[a].type \in LimitsType
<1>1. mems[a] \in MemSet
  BY DEF LInv, TypeOK
<1>2. QED
  BY <1>1 DEF MemSet

\* Initialising a memory from an active segment (memory_init), or trapping, keeps the invariant.
LEMMA InitMemsOK ==
    ASSUME LInv, InitMems
    PROVE  LInv' /\ Grown(Store, Store')
<1>1. /\ job.step = "mems" /\ UNCHANGED <<funcs, tables, globals, elems, datas, insts, host>>
      /\ job.i \in Nat /\ Len(Mod.datas) \in Nat
  BY JobIndex DEF InitMems
<1>2. /\ tables' \in Seq(TableSet) /\ Len(tables') = Len(tables)
      /\ \A c \in 1 .. Len(tables) :
            /\ tables'[c].type = tables[c].type
            /\ Elems(tables'[c].elem) \subseteq Ref(Store)
  BY <1>1, TablesSame
<1>3. /\ elems' \in Seq(Seq(Nat)) /\ Len(elems') = Len(elems)
      /\ \A a \in 1 .. Len(elems) : Elems(elems'[a]) \subseteq Ref(Store)
  BY <1>1, ElemsSame
<1>4. \/ Fail
      \/ Again /\ verdict' = verdict
      \/ verdict' = verdict /\ \E s \in Steps \ {"globals", "elems"} : Goto(s)
  <2>1. CASE job.i > Len(Mod.datas)
    <3>1. Goto("start") /\ verdict' = verdict
      BY <2>1 DEF InitMems
    <3>2. QED
      BY <3>1 DEF Steps
  <2>2. CASE ~(job.i > Len(Mod.datas))
    BY <2>2 DEF InitMems, InitMem
  <2>3. QED
    BY <2>1, <2>2
<1>5. Store' \in StoreSet /\ Grown(Store, Store') /\ StoreOK(Store', Len(insts))
  <2>1. CASE mems' = mems
    BY <1>1, <2>1, StoreSame DEF store
  <2>2. CASE mems' # mems
    <3> DEFINE d == Mod.datas[job.i]
               a == At(Inst.memaddrs, 0)
               at == Eval(d.offset)
               n == datas[Inst.dataaddrs[job.i]]
               xs == [k \in 1 .. n |-> job.inst]
    <3>1. ~(job.i > Len(Mod.datas)) /\ job.i <= Len(Mod.datas) /\ d.mode = "active"
      BY <1>1, <2>2 DEF InitMems
    <3>2. /\ a \in 1 .. Len(mems) /\ at \in Nat /\ n \in Nat
      BY <1>1, <3>1, DataSegment
    <3>3. mems' = [mems EXCEPT ![a].bytes = Written(mems[a].bytes, at, xs)]
      BY <2>2, <3>1 DEF InitMems, InitMem
    <3>4. job.inst \in Nat
      BY <1>1, JobIndex DEF JobSet
    <3> HIDE DEF a, at, n
    <3>5. xs \in Seq(Nat)
      BY <3>2, <3>4
    <3> HIDE DEF xs
    <3>6. mems[a].bytes \in Seq(Nat)
      BY <3>2, MemTyped
    <3> DEFINE w == Written(mems[a].bytes, at, xs)
    <3>7. w \in Seq(Nat)
      BY <3>2, <3>5, <3>6, WrittenIs
    <3> HIDE DEF w
    <3>8. /\ mems' \in Seq(MemSet) /\ Len(mems') = Len(mems)
          /\ \A b \in 1 .. Len(mems) :
                /\ mems'[b].type.min >= mems[b].type.min
                /\ mems'[b].type.has_max = mems[b].type.has_max
                /\ mems'[b].type.max = mems[b].type.max
      BY <3>2, <3>3, <3>7, MemChanged DEF w
    <3>9. QED
      BY <1>1, <1>2, <1>3, <3>8, StoreChanged
  <2>3. QED
    BY <2>1, <2>2
<1>6. QED
  BY <1>1, <1>4, <1>5, JobStep

-----------------------------------------------------------------------------
(* The effect of functions.                                                *)

\* The functions that the instance of a body mentions.
LEMMA RefsAllocated ==
    ASSUME LInv, NEW j \in DOMAIN insts
    PROVE  Refs(j) \subseteq 1 .. Len(funcs)
<1> DEFINE r == insts[j]
           M == Modules[r.module]
<1>1. insts \in Seq(InstSet) /\ j \in 1 .. Len(insts)
  BY DEF LInv, TypeOK
<1>2. r \in InstSet /\ IsModule(M)
  BY <1>1, InstTyped
<1>3. Held(r, Store) /\ Valid(M) /\ Len(r.funcaddrs) = Space(M, "func")
  BY <1>1 DEF LInv, InstsOK, InstOK, FilledTo
<1>4. M.refs \subseteq Nat /\ M.refs \subseteq 0 .. Space(M, "func") - 1
  BY <1>2, <1>3 DEF IsModule, Valid, ValidBodies
<1>5. AddressOf(r, "func") = r.funcaddrs /\ Addrs(Store, "func") = 1 .. Len(funcs)
  BY StoreFields DEF AddressOf, Addrs
<1>6. Space(M, "func") \in Nat
  <2>1. /\ Len(OfKind(M.imports, "func")) \in Nat
        /\ Space(M, "func") = Len(OfKind(M.imports, "func")) + Len(M.funcs)
    BY <1>2, Spaces DEF Kinds
  <2>2. Len(M.funcs) \in Nat
    BY <1>2, ModuleTyped
  <2>3. \A k, n \in Nat : k + n \in Nat
    OBVIOUS
  <2>4. QED
    BY <2>1, <2>2, <2>3, Zenon
<1> HIDE DEF r
<1>7. ASSUME NEW x \in M.refs
      PROVE  At(r.funcaddrs, x) \in 1 .. Len(funcs)
  <2>1. x \in Nat /\ x < Len(AddressOf(r, "func"))
    BY <1>3, <1>4, <1>5, <1>6
  <2>2. QED
    BY <1>2, <1>3, <1>5, <2>1, AddressAt DEF Kinds
<1>8. QED
  BY <1>7 DEF Refs, r

\* The tables, memories and functions of an instance are allocated.
LEMMA HeldBy ==
    ASSUME LInv, NEW j \in DOMAIN insts
    PROVE  /\ Elems(insts[j].tableaddrs) \subseteq 1 .. Len(tables)
           /\ Elems(insts[j].memaddrs) \subseteq 1 .. Len(mems)
           /\ Elems(insts[j].funcaddrs) \subseteq 1 .. Len(funcs)
<1>1. j \in 1 .. Len(insts)
  BY DEF LInv, TypeOK
<1>2. Held(insts[j], Store)
  BY <1>1 DEF LInv, InstsOK, InstOK
<1>3. /\ AddressOf(insts[j], "table") = insts[j].tableaddrs
      /\ AddressOf(insts[j], "mem") = insts[j].memaddrs
      /\ AddressOf(insts[j], "func") = insts[j].funcaddrs
      /\ Addrs(Store, "table") = 1 .. Len(tables) /\ Addrs(Store, "mem") = 1 .. Len(mems)
      /\ Addrs(Store, "func") = 1 .. Len(funcs)
  BY StoreFields DEF AddressOf, Addrs
<1>4. QED
  BY <1>2, <1>3 DEF Held, Kinds

\* table.grow leaves the store typed, grown and its references allocated.
LEMMA GrowTableOK ==
    ASSUME LInv, NEW a \in 1 .. Len(tables), GrowTable(a)
    PROVE  Store' \in StoreSet /\ Grown(Store, Store') /\ StoreOK(Store', Len(insts))
<1> DEFINE s == Append(tables[a].elem, 0)
<1>1. tables[a].elem \in Seq(Nat) /\ Elems(tables[a].elem) \subseteq Ref(Store)
  BY TableIs
<1>2. 0 \in Nat /\ 0 \in Ref(Store)
  BY StoreTyped, StoreLens DEF LInv, Ref
<1>3. s \in Seq(Nat) /\ Elems(s) = Elems(tables[a].elem) \cup {0}
  BY <1>1, <1>2, Appended
<1>4. tables' = [tables EXCEPT ![a].elem = s] /\ UNCHANGED <<funcs, mems, globals, elems, datas>>
  BY DEF GrowTable
<1> HIDE DEF s
<1>5. Elems(s) \subseteq Ref(Store)
  BY <1>1, <1>2, <1>3
<1>6. /\ tables' \in Seq(TableSet) /\ Len(tables') = Len(tables)
      /\ \A c \in 1 .. Len(tables) :
            /\ tables'[c].type = tables[c].type
            /\ Elems(tables'[c].elem) \subseteq Ref(Store)
  BY <1>3, <1>4, <1>5, TableChanged
<1>7. /\ mems' \in Seq(MemSet) /\ Len(mems') = Len(mems)
      /\ \A b \in 1 .. Len(mems) :
            /\ mems'[b].type.min >= mems[b].type.min
            /\ mems'[b].type.has_max = mems[b].type.has_max
            /\ mems'[b].type.max = mems[b].type.max
  BY <1>4, MemsSame
<1>8. /\ elems' \in Seq(Seq(Nat)) /\ Len(elems') = Len(elems)
      /\ \A b \in 1 .. Len(elems) : Elems(elems'[b]) \subseteq Ref(Store)
  BY <1>4, ElemsSame
<1>9. QED
  BY <1>4, <1>6, <1>7, <1>8, StoreChanged

\* table.set leaves the store typed, grown and its references allocated.
LEMMA SetTableOK ==
    ASSUME LInv, NEW a \in 1 .. Len(tables), NEW k \in 1 .. MaxPages, NEW f \in 1 .. Len(funcs),
           SetTable(a, k, f)
    PROVE  Store' \in StoreSet /\ Grown(Store, Store') /\ StoreOK(Store', Len(insts))
<1> DEFINE e == tables[a].elem
           s == [e EXCEPT ![k] = f]
<1>1. e \in Seq(Nat) /\ Elems(e) \subseteq Ref(Store) /\ tables \in Seq(TableSet)
  BY TableIs
<1>2. f \in Nat /\ f \in Ref(Store)
  BY StoreTyped, StoreLens, StoreFields DEF LInv, Ref
<1>3. k \in 1 .. Len(e) /\ UNCHANGED <<funcs, mems, globals, elems, datas>>
  BY <1>1, PagesAssumption DEF SetTable
<1>4. tables' = [tables EXCEPT ![a].elem = s]
  BY DEF SetTable
<1> HIDE DEF e
<1>5. s \in Seq(Nat) /\ Len(s) = Len(e) /\ s[k] = f /\ \A b \in 1 .. Len(e) : b # k => s[b] = e[b]
  BY <1>1, <1>2, <1>3, Replaced
<1> HIDE DEF s
<1>6. Elems(s) \subseteq Ref(Store)
  <2>1. ASSUME NEW b \in 1 .. Len(s)
        PROVE  s[b] \in Ref(Store)
    <3>1. CASE b = k
      BY <1>2, <1>5, <3>1
    <3>2. CASE b # k
      BY <1>1, <1>5, <3>2, SequenceOfElems
    <3>3. QED
      BY <3>1, <3>2
  <2>2. QED
    BY <2>1 DEF Elems
<1>7. /\ tables' \in Seq(TableSet) /\ Len(tables') = Len(tables)
      /\ \A c \in 1 .. Len(tables) :
            /\ tables'[c].type = tables[c].type
            /\ Elems(tables'[c].elem) \subseteq Ref(Store)
  BY <1>4, <1>5, <1>6, TableChanged
<1>8. /\ mems' \in Seq(MemSet) /\ Len(mems') = Len(mems)
      /\ \A b \in 1 .. Len(mems) :
            /\ mems'[b].type.min >= mems[b].type.min
            /\ mems'[b].type.has_max = mems[b].type.has_max
            /\ mems'[b].type.max = mems[b].type.max
  BY <1>3, MemsSame
<1>9. /\ elems' \in Seq(Seq(Nat)) /\ Len(elems') = Len(elems)
      /\ \A b \in 1 .. Len(elems) : Elems(elems'[b]) \subseteq Ref(Store)
  BY <1>3, ElemsSame
<1>10. QED
  BY <1>3, <1>7, <1>8, <1>9, StoreChanged

\* Limits with another minimum.
LEMMA LimitsRaised ==
    ASSUME NEW l \in LimitsType, NEW n
    PROVE  [l EXCEPT !.min = n] = [min |-> n, max |-> l.max, has_max |-> l.has_max]
  BY DEF LimitsType

\* A memory with another type.
LEMMA MemRetyped ==
    ASSUME NEW m \in MemSet, NEW t
    PROVE  [m EXCEPT !.type = t] = [type |-> t, bytes |-> m.bytes]
  BY DEF MemSet

\* A memory with other bytes.
LEMMA MemRefilled ==
    ASSUME NEW t, NEW b, NEW c
    PROVE  [[type |-> t, bytes |-> b] EXCEPT !.bytes = c] = [type |-> t, bytes |-> c]
  OBVIOUS

\* A memory after memory.grow.
LEMMA MemGrown ==
    ASSUME LInv, NEW a \in 1 .. Len(mems), GrowMem(a)
    PROVE  LET m == mems[a]
               n == [type |-> [min |-> m.type.min + 1, max |-> m.type.max, has_max |-> m.type.has_max],
                     bytes |-> m.bytes \o [k \in 1 .. PageSize |-> 0]]
           IN  /\ n \in MemSet /\ m \in MemSet
               /\ mems' \in Seq(MemSet) /\ Len(mems') = Len(mems)
               /\ mems'[a] = n
               /\ \A b \in 1 .. Len(mems) : b # a => mems'[b] = mems[b]
               /\ Len(n.bytes) = Len(m.bytes) + PageSize
               /\ \A k \in 1 .. Len(m.bytes) : n.bytes[k] = m.bytes[k]
               /\ \A k \in 1 .. PageSize : n.bytes[Len(m.bytes) + k] = 0
<1> DEFINE m == mems[a]
           z == [k \in 1 .. PageSize |-> 0]
           n == [type |-> [min |-> m.type.min + 1, max |-> m.type.max, has_max |-> m.type.has_max],
                 bytes |-> m.bytes \o z]
           c == [mems EXCEPT ![a].type.min = @ + 1]
           p == [m EXCEPT !.type.min = @ + 1]
<1>1. mems \in Seq(MemSet) /\ m \in MemSet /\ m.bytes \in Seq(Nat) /\ m.type \in LimitsType
  BY MemTyped DEF LInv, TypeOK
<1>2. z \in Seq(Nat) /\ Len(z) = PageSize /\ PageSize \in Nat /\ \A k \in 1 .. PageSize : z[k] = 0
  BY LoaderAssumption
<1>3. c = [mems EXCEPT ![a] = p]
  BY <1>1
<1>4. [mems EXCEPT ![a].type.min = @ + 1, ![a].bytes = @ \o z] = [c EXCEPT ![a].bytes = @ \o z]
  OBVIOUS
<1>5. mems' = [c EXCEPT ![a].bytes = @ \o z]
  BY <1>4 DEF GrowMem
<1>6. p = [type |-> [min |-> m.type.min + 1, max |-> m.type.max, has_max |-> m.type.has_max],
           bytes |-> m.bytes]
  <2>1. p = [m EXCEPT !.type = [m.type EXCEPT !.min = @ + 1]]
    BY <1>1
  <2>2. [m.type EXCEPT !.min = @ + 1]
          = [min |-> m.type.min + 1, max |-> m.type.max, has_max |-> m.type.has_max]
    BY <1>1, LimitsRaised
  <2> HIDE DEF p, m
  <2>3. QED
    BY <1>1, <2>1, <2>2, MemRetyped
<1>7. p \in MemSet
  BY <1>1, <1>6, SMTT(40) DEF MemSet, LimitsType
<1>8. n \in MemSet
  BY <1>1, <1>2, SMTT(40) DEF MemSet, LimitsType
<1> HIDE DEF p, z, m
<1>9. n = [p EXCEPT !.bytes = @ \o z]
  <2> DEFINE t == [min |-> m.type.min + 1, max |-> m.type.max, has_max |-> m.type.has_max]
             y == m.bytes \o z
  <2>1. p = [type |-> t, bytes |-> m.bytes] /\ n = [type |-> t, bytes |-> y]
    BY <1>6
  <2> HIDE DEF t, n
  <2>2. p.bytes \o z = y
    BY <2>1
  <2> HIDE DEF y
  <2>3. [[type |-> t, bytes |-> m.bytes] EXCEPT !.bytes = y] = [type |-> t, bytes |-> y]
    BY MemRefilled
  <2>4. [p EXCEPT !.bytes = y] = n
    BY <2>1, <2>3, Zenon
  <2>5. QED
    BY <2>2, <2>4, Zenon
<1>10. /\ c \in Seq(MemSet) /\ Len(c) = Len(mems) /\ c[a] = p
       /\ \A b \in 1 .. Len(mems) : b # a => c[b] = mems[b]
  <2>1. /\ [mems EXCEPT ![a] = p] \in Seq(MemSet) /\ Len([mems EXCEPT ![a] = p]) = Len(mems)
        /\ [mems EXCEPT ![a] = p][a] = p
        /\ \A b \in 1 .. Len(mems) : b # a => [mems EXCEPT ![a] = p][b] = mems[b]
    BY <1>1, <1>7, Replaced
  <2> HIDE DEF c
  <2>2. QED
    BY <1>3, <2>1
<1> HIDE DEF c
<1>11. mems' = [c EXCEPT ![a] = [p EXCEPT !.bytes = @ \o z]]
  BY <1>5, <1>10
<1> HIDE DEF n
<1>12. mems' = [c EXCEPT ![a] = n]
  BY <1>9, <1>11
<1>13. /\ mems' \in Seq(MemSet) /\ Len(mems') = Len(c) /\ mems'[a] = n
       /\ \A b \in 1 .. Len(c) : b # a => mems'[b] = c[b]
  BY <1>8, <1>10, <1>12, Replaced
<1>14. /\ Len(m.bytes \o z) = Len(m.bytes) + PageSize
       /\ \A k \in 1 .. Len(m.bytes) : (m.bytes \o z)[k] = m.bytes[k]
       /\ \A k \in 1 .. PageSize : (m.bytes \o z)[Len(m.bytes) + k] = 0
  <2>1. m.bytes \in Seq(Nat)
    BY <1>1 DEF m
  <2> DEFINE b == m.bytes
  <2> HIDE DEF b
  <2>2. b \in Seq(Nat)
    BY <2>1 DEF b
  <2>3. /\ Len(b \o z) = Len(b) + Len(z)
        /\ \A k \in 1 .. Len(b) : (b \o z)[k] = b[k]
        /\ \A k \in 1 .. Len(z) : (b \o z)[Len(b) + k] = z[k]
    BY <1>2, <2>2, Joined, SMTT(40)
  <2>4. QED
    BY <1>2, <2>3 DEF b
<1>15. n.bytes = m.bytes \o z
  BY DEF n
<1>16. /\ Len(n.bytes) = Len(m.bytes) + PageSize
       /\ \A k \in 1 .. Len(m.bytes) : n.bytes[k] = m.bytes[k]
       /\ \A k \in 1 .. PageSize : n.bytes[Len(m.bytes) + k] = 0
  BY <1>14, <1>15
<1>17. /\ n \in MemSet /\ m \in MemSet /\ mems' \in Seq(MemSet) /\ Len(mems') = Len(mems)
       /\ mems'[a] = n /\ \A b \in 1 .. Len(mems) : b # a => mems'[b] = mems[b]
  BY <1>1, <1>8, <1>10, <1>13
<1>18. QED
  BY <1>16, <1>17 DEF n, m, z

\* memory.grow leaves the store typed, grown and its references allocated.
LEMMA GrowMemOK ==
    ASSUME LInv, NEW a \in 1 .. Len(mems), GrowMem(a)
    PROVE  Store' \in StoreSet /\ Grown(Store, Store') /\ StoreOK(Store', Len(insts))
<1> DEFINE m == mems[a]
           n == [type |-> [min |-> m.type.min + 1, max |-> m.type.max, has_max |-> m.type.has_max],
                 bytes |-> m.bytes \o [k \in 1 .. PageSize |-> 0]]
<1>1. /\ mems' \in Seq(MemSet) /\ Len(mems') = Len(mems) /\ m \in MemSet
      /\ mems'[a] = n
      /\ \A b \in 1 .. Len(mems) : b # a => mems'[b] = mems[b]
  BY MemGrown
<1>2. UNCHANGED <<funcs, tables, globals, elems, datas>>
  BY DEF GrowMem
<1>3. /\ n.type.min = m.type.min + 1 /\ n.type.max = m.type.max /\ n.type.has_max = m.type.has_max
  OBVIOUS
<1>4. m.type.min \in Nat
  BY <1>1 DEF MemSet, LimitsType
<1> HIDE DEF n, m
<1>5. mems'[a].type.min >= m.type.min
  BY <1>1, <1>3, <1>4
<1>6. \A b \in 1 .. Len(mems) :
         /\ mems[b].type.min >= mems[b].type.min
  BY MemsSame, MemTyped DEF MemSet, LimitsType
<1>7. \A b \in 1 .. Len(mems) :
         /\ mems'[b].type.min >= mems[b].type.min
         /\ mems'[b].type.has_max = mems[b].type.has_max
         /\ mems'[b].type.max = mems[b].type.max
  <2>1. ASSUME NEW b \in 1 .. Len(mems)
        PROVE  /\ mems'[b].type.min >= mems[b].type.min
               /\ mems'[b].type.has_max = mems[b].type.has_max
               /\ mems'[b].type.max = mems[b].type.max
    <3>1. CASE b = a
      BY <1>1, <1>3, <1>5, <3>1 DEF m
    <3>2. CASE b # a
      BY <1>1, <1>6, <3>2
    <3>3. QED
      BY <3>1, <3>2
  <2>2. QED
    BY <2>1
<1>8. /\ tables' \in Seq(TableSet) /\ Len(tables') = Len(tables)
      /\ \A c \in 1 .. Len(tables) :
            /\ tables'[c].type = tables[c].type
            /\ Elems(tables'[c].elem) \subseteq Ref(Store)
  BY <1>2, TablesSame
<1>9. /\ elems' \in Seq(Seq(Nat)) /\ Len(elems') = Len(elems)
      /\ \A b \in 1 .. Len(elems) : Elems(elems'[b]) \subseteq Ref(Store)
  BY <1>2, ElemsSame
<1>10. QED
  BY <1>1, <1>2, <1>7, <1>8, <1>9, StoreChanged

\* What a call may do, one thing at a time.
LEMMA EffectIs ==
    ASSUME LInv, NEW i, Effect(i)
    PROVE  \/ UNCHANGED store
           \/ \E a \in 1 .. Len(tables) : GrowTable(a)
           \/ \E a \in 1 .. Len(tables), k \in 1 .. MaxPages, f \in 1 .. Len(funcs) :
                 SetTable(a, k, f)
           \/ \E a \in 1 .. Len(mems) : GrowMem(a)
<1>1. CASE UNCHANGED store
  BY <1>1
<1>2. ASSUME NEW j \in Reached(i),
             \/ \E a \in Elems(insts[j].tableaddrs) :
                  \/ GrowTable(a)
                  \/ \E k \in 1 .. MaxPages, f \in Refs(j) : SetTable(a, k, f)
             \/ \E a \in Elems(insts[j].memaddrs) : GrowMem(a)
      PROVE  \/ \E a \in 1 .. Len(tables) : GrowTable(a)
             \/ \E a \in 1 .. Len(tables), k \in 1 .. MaxPages, f \in 1 .. Len(funcs) :
                   SetTable(a, k, f)
             \/ \E a \in 1 .. Len(mems) : GrowMem(a)
  <2>1. j \in DOMAIN insts
    BY DEF Reached
  <2>2. /\ Elems(insts[j].tableaddrs) \subseteq 1 .. Len(tables)
        /\ Elems(insts[j].memaddrs) \subseteq 1 .. Len(mems)
        /\ Refs(j) \subseteq 1 .. Len(funcs)
    BY <2>1, HeldBy, RefsAllocated
  <2>3. QED
    BY <1>2, <2>2, Zenon
<1>3. QED
  BY <1>1, <1>2, Zenon DEF Effect

\* Whatever a function does leaves the store typed, grown and its references allocated.
LEMMA EffectOK ==
    ASSUME LInv, NEW i, Effect(i)
    PROVE  Store' \in StoreSet /\ Grown(Store, Store') /\ StoreOK(Store', Len(insts))
  BY EffectIs, StoreSame, GrowTableOK, SetTableOK, GrowMemOK

\* Running the start function, with what it does, keeps the invariant.
LEMMA StartOK ==
    ASSUME LInv, Start
    PROVE  LInv' /\ Grown(Store, Store')
<1>1. job.step = "start" /\ UNCHANGED <<insts, host>>
  BY DEF Start
<1>2. Store' \in StoreSet /\ Grown(Store, Store') /\ StoreOK(Store', Len(insts))
  BY EffectOK, StoreSame DEF Start
<1>3. Fail \/ (Goto("done") /\ verdict' = verdict)
  BY DEF Start
<1>4. QED
  BY <1>1, <1>2, <1>3, JobStep DEF Steps

-----------------------------------------------------------------------------
(* Calls by the runner.                                                    *)

\* A name that is taken is that of a module that is linked (find_module).
LEMMA NamedFinds ==
    ASSUME LInv, NEW name, IsNamed(name)
    PROVE  Named(name) \in Elems(linked) /\ Named(name) \in DOMAIN test_modules
<1> DEFINE P == {t \in Elems(linked) : test_modules[t].name = name}
           w == Where(linked, P)
<1>1. linked \in Seq(Nat) /\ Elems(linked) \subseteq DOMAIN test_modules
  BY DEF LInv, TypeOK, HostOK
<1>2. P # {} /\ P \subseteq Elems(linked)
  BY DEF IsNamed
<1>3. Named(name) = Head(w)
  BY DEF Named
<1> HIDE DEF P
<1>4. w \in Seq(Nat) /\ Elems(w) = Elems(linked) \cap P
  BY <1>1, WhereFinds
<1> HIDE DEF w
<1>5. Elems(w) # {}
  BY <1>2, <1>4
<1>6. Len(w) \in Nat /\ Len(w) # 0
  BY <1>4, <1>5 DEF Elems
<1>7. Head(w) = w[1] /\ w[1] \in Elems(w)
  BY <1>4, <1>6 DEF Elems
<1>8. QED
  BY <1>1, <1>3, <1>4, <1>7

\* Calling an exported function, with what it does, keeps the invariant.
LEMMA InvokeOK ==
    ASSUME LInv, NEW name, Invoke(name)
    PROVE  LInv' /\ Grown(Store, Store')
<1>1. job = Idle /\ job' = Idle /\ UNCHANGED <<insts, test_modules, linked>>
      /\ verdict' = Said("passed", NULL)
  BY DEF Invoke
<1>2. Store' \in StoreSet /\ Grown(Store, Store') /\ StoreOK(Store', Len(insts))
  BY EffectOK DEF Invoke
<1>3. current' \in DOMAIN test_modules
  <2>1. CASE name = NoName
    BY <2>1 DEF Invoke, LInv, HostOK
  <2>2. CASE name # NoName
    BY <2>2, NamedFinds DEF Invoke
  <2>3. QED
    BY <2>1, <2>2
<1>4. verdict'.what # "linked" /\ job.step \notin {"globals", "elems"}
  BY <1>1 DEF Said, Idle
<1>5. QED
  BY <1>1, <1>2, <1>3, <1>4, StoreStep

-----------------------------------------------------------------------------
(* Linking.                                                                *)

\* What Where finds first.
LEMMA FirstFound ==
    ASSUME NEW X, NEW s \in Seq(X), NEW P, Where(s, P) # <<>>
    PROVE  Head(Where(s, P)) \in Elems(s) /\ Head(Where(s, P)) \in P
<1> DEFINE w == Where(s, P)
<1>1. w \in Seq(X) /\ Elems(w) = Elems(s) \cap P
  BY WhereFinds
<1> HIDE DEF w
<1>2. w # <<>>
  BY DEF w
<1>3. Len(w) \in Nat /\ Len(w) # 0
  BY <1>1, <1>2
<1>4. Head(w) = w[1] /\ w[1] \in Elems(w)
  BY <1>1, <1>3 DEF Elems
<1>5. QED
  BY <1>1, <1>4 DEF w

\* What find_exported_module returns is a linked module of that name, with an instance.
LEMMA ExporterFound ==
    ASSUME LInv, NEW name, FindExported(name) # NULL
    PROVE  /\ FindExported(name) \in Elems(linked)
           /\ FindExported(name) \in DOMAIN test_modules
           /\ test_modules[FindExported(name)].export_name = name
           /\ test_modules[FindExported(name)].inst \in 1 .. Len(insts)
<1> DEFINE P == {t \in Elems(linked) : test_modules[t].export_name = name}
<1>1. /\ linked \in Seq(Nat) /\ Elems(linked) \subseteq DOMAIN test_modules
      /\ \A t \in DOMAIN test_modules : test_modules[t].inst \in DOMAIN insts
      /\ DOMAIN insts = 1 .. Len(insts)
  BY DEF LInv, TypeOK, HostOK
<1>2. Where(linked, P) # <<>> /\ FindExported(name) = Head(Where(linked, P))
  BY DEF FindExported
<1>3. FindExported(name) \in Elems(linked) /\ FindExported(name) \in P
  BY <1>1, <1>2, FirstFound
<1>4. QED
  BY <1>1, <1>3

\* What find_export returns is an entry of the exporter's list under that name, of an allocated address.
LEMMA ExportFound ==
    ASSUME LInv, NEW d, FindExported(d.from) # NULL, Export(d) # <<>>
    PROVE  LET e == Head(Export(d))
           IN  /\ e \in ExportSet /\ e.kind \in Kinds /\ e.addr \in Nat
               /\ e.name = d.name
               /\ e.addr \in Addrs(Store, e.kind)
               /\ e \in Elems(insts[test_modules[FindExported(d.from)].inst].exports)
<1> DEFINE t == FindExported(d.from)
           i == test_modules[t].inst
           es == insts[i].exports
           P == {e \in Elems(es) : e.name = d.name}
           x == Head(Export(d))
<1>1. i \in 1 .. Len(insts) /\ insts \in Seq(InstSet)
  BY ExporterFound DEF LInv, TypeOK
<1>2. insts[i] \in InstSet /\ Held(insts[i], Store)
  BY <1>1 DEF LInv, InstsOK, InstOK
<1>3. es \in Seq(ExportSet) /\ \A e \in Elems(es) : e.addr \in Addrs(Store, e.kind)
  BY <1>2, InstTyped DEF Held
<1>4. Export(d) = Where(es, P)
  BY DEF Export, FindExport
<1>5. x \in Elems(es) /\ x \in P
  <2> HIDE DEF es, P
  <2>1. Where(es, P) # <<>>
    BY <1>4
  <2>2. QED
    BY <1>3, <1>4, <2>1, FirstFound
<1>6. x \in ExportSet /\ x.addr \in Addrs(Store, x.kind)
  BY <1>3, <1>5, SequenceOfElems
<1>7. x.kind \in Kinds /\ x.addr \in Nat
  BY <1>6 DEF ExportSet
<1>8. QED
  BY <1>5, <1>6, <1>7

\* What resolve_imports matches fits the import.
LEMMA MatchedFits ==
    ASSUME NEW M, NEW d, NEW e, Matches(M, d, e)
    PROVE  e.kind = d.kind /\ Fits(M, d, e.addr, Store)
  BY StoreFields DEF Matches, Fits

\* The addresses an instance gets for its imports.
LEMMA ImportsLinked ==
    ASSUME LInv, NEW M, IsModule(M), NamesKnown(M), Resolved(M), NEW kind \in Kinds
    PROVE  LET ds == OfKind(M.imports, kind)
               is == ImportedAddrs(M, kind)
           IN  /\ is \in Seq(Nat) /\ Len(is) = Len(ds) /\ Len(ds) \in Nat
               /\ Elems(is) \subseteq Addrs(Store, kind)
               /\ \A n \in 1 .. Len(ds) :
                     is[n] \in Addrs(Store, kind) /\ Fits(M, ds[n], is[n], Store)
<1> DEFINE ds == OfKind(M.imports, kind)
           a(n) == Head(Export(ds[n])).addr
           is == ImportedAddrs(M, kind)
<1>1. /\ Len(ds) \in Nat
      /\ \A n \in 1 .. Len(ds) :
            ds[n] \in Elems(M.imports) /\ ds[n].kind = kind /\ IsImport(ds[n])
  BY ImportsOfKind
<1>2. is = [n \in 1 .. Len(ds) |-> a(n)]
  BY DEF ImportedAddrs, Map
<1>3. ASSUME NEW n \in 1 .. Len(ds)
      PROVE  a(n) \in Nat /\ a(n) \in Addrs(Store, kind) /\ Fits(M, ds[n], a(n), Store)
  <2> DEFINE d == ds[n]
             e == Head(Export(d))
  <2>1. d \in Elems(M.imports) /\ d.kind = kind
    BY <1>1
  <2> HIDE DEF d
  <2>2. FindExported(d.from) # NULL /\ Export(d) # <<>> /\ Matches(M, d, Head(Export(d)))
    BY <2>1 DEF NamesKnown, Resolved
  <2>3. e.addr \in Nat /\ e.addr \in Addrs(Store, e.kind)
    BY <2>2, ExportFound
  <2>4. e.kind = kind /\ Fits(M, d, e.addr, Store)
    BY <2>1, <2>2, MatchedFits
  <2>5. QED
    BY <2>3, <2>4 DEF d
<1> HIDE DEF a, ds, is
<1>4. is \in Seq(Nat) /\ Len(is) = Len(ds) /\ \A n \in 1 .. Len(ds) : is[n] = a(n)
  BY <1>1, <1>2, <1>3
<1>5. Elems(is) \subseteq Addrs(Store, kind)
  BY <1>3, <1>4 DEF Elems
<1>6. QED
  BY <1>1, <1>3, <1>4, <1>5 DEF ds, is

\* New addresses.
LEMMA AddressesAre ==
    ASSUME NEW old, Len(old) \in Nat, NEW n \in Nat
    PROVE  /\ Addresses(old, n) \in Seq(Nat) /\ Len(Addresses(old, n)) = n
           /\ Elems(Addresses(old, n)) \subseteq 1 .. Len(old) + n
           /\ \A k \in 1 .. n : Addresses(old, n)[k] = Len(old) + k
<1> DEFINE a == Addresses(old, n)
<1>1. Len(old) \in Nat /\ a = [i \in 1 .. n |-> Len(old) + i]
  BY DEF Addresses
<1> HIDE DEF a
<1>2. a \in Seq(Nat) /\ Len(a) = n /\ \A k \in 1 .. n : a[k] = Len(old) + k
  BY <1>1
<1>3. \A k \in 1 .. n : a[k] \in 1 .. Len(old) + n
  BY <1>1, <1>2
<1>4. Elems(a) \subseteq 1 .. Len(old) + n
  BY <1>2, <1>3 DEF Elems
<1>5. QED
  BY <1>2, <1>4 DEF a

\* New functions, tables and memories.
LEMMA NewFuncsAre ==
    ASSUME NEW m \in DOMAIN Modules, Valid(Modules[m]), Len(insts) \in Nat
    PROVE  LET M == Modules[m]
           IN  /\ NewFuncs(M) \in Seq(FuncSet) /\ Len(NewFuncs(M)) = Len(M.funcs)
               /\ \A k \in 1 .. Len(M.funcs) : NewFuncs(M)[k].inst = Len(insts) + 1
<1> DEFINE M == Modules[m]
           v(k) == [inst |-> Len(insts) + 1, type |-> At(M.types, M.funcs[k])]
<1>1. NewFuncs(M) = [k \in 1 .. Len(M.funcs) |-> v(k)]
  BY DEF NewFuncs, Map
<1>2. /\ IsModule(M) /\ M.funcs \in Seq(Nat) /\ M.types \in Seq(Elems(M.types))
      /\ Len(M.funcs) \in Nat /\ Len(M.types) \in Nat
  BY LoaderAssumption, ModuleTyped DEF IsModule, IsSequence
<1>3. ASSUME NEW k \in 1 .. Len(M.funcs)
      PROVE  v(k) \in FuncSet /\ v(k).inst = Len(insts) + 1
  <2>1. M.funcs[k] \in Nat /\ M.funcs[k] \in Elems(M.funcs)
    BY <1>2, SequenceOfElems, SMTT(40)
  <2>2. M.funcs[k] < Len(M.types)
    BY <2>1 DEF Valid, In
  <2>3. M.funcs[k] + 1 \in 1 .. Len(M.types)
    BY <1>2, <2>1, <2>2, SMTT(40)
  <2>4. At(M.types, M.funcs[k]) \in Elems(M.types)
    BY <2>3 DEF At, Elems
  <2>5. At(M.types, M.funcs[k]) \in FuncTypeSet
    BY <2>4 DEF FuncTypeSet
  <2>6. QED
    BY <2>5 DEF FuncSet
<1> HIDE DEF v
<1>4. /\ NewFuncs(M) \in Seq(FuncSet) /\ Len(NewFuncs(M)) = Len(M.funcs)
      /\ \A k \in 1 .. Len(M.funcs) : NewFuncs(M)[k] = v(k)
  <2> DEFINE f == NewFuncs(M)
             n == Len(M.funcs)
  <2>1. f = [k \in 1 .. n |-> v(k)] /\ n \in Nat
    BY <1>1, <1>2
  <2>2. \A k \in 1 .. n : v(k) \in FuncSet
    BY <1>3
  <2> HIDE DEF f, n
  <2>3. f \in Seq(FuncSet) /\ Len(f) = n /\ \A k \in 1 .. n : f[k] = v(k)
    BY <2>1, <2>2
  <2>4. QED
    BY <2>3 DEF f, n
<1>5. QED
  BY <1>3, <1>4

\* A new vector of n zeros.
LEMMA Zeros ==
    ASSUME NEW n \in Nat
    PROVE  LET z == [k \in 1 .. n |-> 0]
           IN  z \in Seq(Nat) /\ Len(z) = n /\ Elems(z) \subseteq {0}
  BY DEF Elems

\* New tables (alloc_table): as long as their minimum, and null everywhere.
LEMMA NewTablesAre ==
    ASSUME NEW M, IsModule(M)
    PROVE  /\ NewTables(M) \in Seq(TableSet) /\ Len(NewTables(M)) = Len(M.tables)
           /\ \A k \in 1 .. Len(M.tables) :
                 /\ NewTables(M)[k].type = M.tables[k]
                 /\ Elems(NewTables(M)[k].elem) \subseteq {0}
                 /\ Len(NewTables(M)[k].elem) = M.tables[k].min
<1> DEFINE v(k) == [type |-> M.tables[k], elem |-> [i \in 1 .. M.tables[k].min |-> 0]]
           f == NewTables(M)
           n == Len(M.tables)
<1>1. f = [k \in 1 .. n |-> v(k)]
  BY DEF NewTables, Map
<1>2. n \in Nat /\ \A k \in 1 .. n : M.tables[k] \in LimitsType
  BY ModuleTyped DEF IsModule
<1>3. ASSUME NEW k \in 1 .. n
      PROVE  /\ v(k) \in TableSet /\ v(k).type = M.tables[k]
             /\ Elems(v(k).elem) \subseteq {0} /\ Len(v(k).elem) = M.tables[k].min
  <2> DEFINE z == [i \in 1 .. M.tables[k].min |-> 0]
  <2>1. M.tables[k] \in LimitsType /\ M.tables[k].min \in Nat
    BY <1>2 DEF LimitsType
  <2>2. z \in Seq(Nat) /\ Elems(z) \subseteq {0} /\ Len(z) = M.tables[k].min
    BY <2>1, Zeros
  <2> HIDE DEF z
  <2>3. v(k) = [type |-> M.tables[k], elem |-> z]
    BY DEF z
  <2> HIDE DEF v
  <2>4. QED
    BY <2>1, <2>2, <2>3 DEF TableSet
<1> HIDE DEF v, f, n
<1>4. f \in Seq(TableSet) /\ Len(f) = n /\ \A k \in 1 .. n : f[k] = v(k)
  BY <1>1, <1>2, <1>3
<1>5. QED
  BY <1>3, <1>4 DEF f, n

\* New memories (alloc_mem): as many pages as their minimum, and zero everywhere.
LEMMA NewMemsAre ==
    ASSUME NEW M, IsModule(M)
    PROVE  /\ NewMems(M) \in Seq(MemSet) /\ Len(NewMems(M)) = Len(M.mems)
           /\ \A k \in 1 .. Len(M.mems) :
                 /\ NewMems(M)[k].type = M.mems[k]
                 /\ Elems(NewMems(M)[k].bytes) \subseteq {0}
                 /\ Len(NewMems(M)[k].bytes) = M.mems[k].min * PageSize
<1> DEFINE v(k) == [type |-> M.mems[k], bytes |-> [i \in 1 .. M.mems[k].min * PageSize |-> 0]]
           f == NewMems(M)
           n == Len(M.mems)
<1>1. f = [k \in 1 .. n |-> v(k)]
  BY DEF NewMems, Map
<1>2. n \in Nat /\ \A k \in 1 .. n : M.mems[k] \in LimitsType
  BY ModuleTyped DEF IsModule
<1>3. ASSUME NEW k \in 1 .. n
      PROVE  /\ v(k) \in MemSet /\ v(k).type = M.mems[k]
             /\ Elems(v(k).bytes) \subseteq {0} /\ Len(v(k).bytes) = M.mems[k].min * PageSize
  <2> DEFINE b == M.mems[k].min * PageSize
             z == [i \in 1 .. b |-> 0]
  <2>1. M.mems[k] \in LimitsType /\ M.mems[k].min \in Nat
    BY <1>2 DEF LimitsType
  <2>2. b \in Nat
    BY <2>1, LoaderAssumption
  <2>3. v(k) = [type |-> M.mems[k], bytes |-> z]
    OBVIOUS
  <2> HIDE DEF b, v
  <2>4. z \in Seq(Nat) /\ Elems(z) \subseteq {0} /\ Len(z) = b
    BY <2>2, Zeros
  <2> HIDE DEF z
  <2>5. QED
    BY <2>1, <2>3, <2>4 DEF MemSet, b
<1> HIDE DEF v, f, n
<1>4. f \in Seq(MemSet) /\ Len(f) = n /\ \A k \in 1 .. n : f[k] = v(k)
  BY <1>1, <1>2, <1>3
<1>5. QED
  BY <1>3, <1>4 DEF f, n

\* New data segments (alloc_data): as long as the module's.
LEMMA NewDatasAre ==
    ASSUME NEW M, IsModule(M)
    PROVE  LET ls == Map(M.datas, LAMBDA d : d.len)
           IN  /\ ls \in Seq(Nat) /\ Len(ls) = Len(M.datas)
               /\ \A k \in 1 .. Len(M.datas) : ls[k] = M.datas[k].len
<1> DEFINE ls == Map(M.datas, LAMBDA d : d.len)
<1>1. Len(M.datas) \in Nat /\ \A k \in 1 .. Len(M.datas) : M.datas[k].len \in Nat
  BY ModuleTyped
<1>2. ls = [k \in 1 .. Len(M.datas) |-> M.datas[k].len]
  BY DEF Map
<1>3. QED
  BY <1>1, <1>2

-----------------------------------------------------------------------------
(* The beginning of an instantiation.                                      *)

\* A sequence with another one behind it, under a name.
LEMMA Lengthened ==
    ASSUME NEW X, NEW s \in Seq(X), NEW t \in Seq(X), NEW u, u = s \o t
    PROVE  /\ u \in Seq(X) /\ Len(u) = Len(s) + Len(t) /\ Len(s) \in Nat /\ Len(t) \in Nat
           /\ Len(s) <= Len(u)
           /\ \A k \in 1 .. Len(s) : u[k] = s[k]
           /\ \A k \in 1 .. Len(t) : u[Len(s) + k] = t[k]
           /\ Elems(u) = Elems(s) \cup Elems(t)
  BY Joined

\* Two sequences of numbers one after the other.
LEMMA JoinedNat ==
    ASSUME NEW s \in Seq(Nat), NEW t \in Seq(Nat)
    PROVE  /\ s \o t \in Seq(Nat) /\ Len(s \o t) = Len(s) + Len(t)
           /\ \A k \in 1 .. Len(s) : (s \o t)[k] = s[k]
           /\ \A k \in 1 .. Len(t) : (s \o t)[Len(s) + k] = t[k]
           /\ Elems(s \o t) = Elems(s) \cup Elems(t)
  BY Joined

\* The store after the functions, tables, memories and data segments of a module are
\* allocated (alloc_module) is typed and grown, and its references are allocated.
LEMMA StoreBegun ==
    ASSUME LInv, NEW m \in DOMAIN Modules, Valid(Modules[m]),
           funcs' = funcs \o NewFuncs(Modules[m]),
           tables' = tables \o NewTables(Modules[m]),
           mems' = mems \o NewMems(Modules[m]),
           datas' = datas \o Map(Modules[m].datas, LAMBDA d : d.len),
           UNCHANGED <<globals, elems>>
    PROVE  LET M == Modules[m]
           IN  /\ Store' \in StoreSet /\ Grown(Store, Store')
               /\ StoreOK(Store', Len(insts) + 1)
               /\ Len(Store'.funcs) = Len(funcs) + Len(M.funcs)
               /\ Len(Store'.tables) = Len(tables) + Len(M.tables)
               /\ Len(Store'.mems) = Len(mems) + Len(M.mems)
               /\ Len(Store'.datas) = Len(datas) + Len(M.datas)
<1> DEFINE M == Modules[m]
           S == Store
           U == Store'
           ls == Map(M.datas, LAMBDA d : d.len)
<1>1. /\ funcs \in Seq(FuncSet) /\ tables \in Seq(TableSet) /\ mems \in Seq(MemSet)
      /\ globals \in Seq(GlobalSet) /\ elems \in Seq(Seq(Nat)) /\ datas \in Seq(Nat)
      /\ S \in StoreSet /\ StoreOK(S, Len(insts)) /\ Len(insts) \in Nat
  BY StoreTyped DEF LInv, TypeOK
<1>2. IsModule(M)
  BY LoaderAssumption
<1>3. /\ NewFuncs(M) \in Seq(FuncSet) /\ Len(NewFuncs(M)) = Len(M.funcs)
      /\ \A k \in 1 .. Len(M.funcs) : NewFuncs(M)[k].inst = Len(insts) + 1
  BY <1>1, NewFuncsAre
<1>4. /\ NewTables(M) \in Seq(TableSet) /\ Len(NewTables(M)) = Len(M.tables)
      /\ \A k \in 1 .. Len(M.tables) : Elems(NewTables(M)[k].elem) \subseteq {0}
  BY <1>2, NewTablesAre
<1>5. NewMems(M) \in Seq(MemSet) /\ Len(NewMems(M)) = Len(M.mems)
  BY <1>2, NewMemsAre
<1>6. ls \in Seq(Nat) /\ Len(ls) = Len(M.datas)
  BY <1>2, NewDatasAre
<1>7. /\ Len(M.funcs) \in Nat /\ Len(M.tables) \in Nat /\ Len(M.mems) \in Nat
      /\ Len(M.datas) \in Nat
  BY <1>2, ModuleTyped
<1>8. datas' = datas \o ls
  OBVIOUS
<1> DEFINE nf == NewFuncs(M)
           nt == NewTables(M)
           nm == NewMems(M)
<1>9. funcs' = funcs \o nf /\ tables' = tables \o nt /\ mems' = mems \o nm
  OBVIOUS
<1>10. /\ U.funcs = funcs' /\ U.tables = tables' /\ U.mems = mems'
       /\ U.globals = globals /\ U.elems = elems /\ U.datas = datas'
       /\ S.funcs = funcs /\ S.tables = tables /\ S.mems = mems
       /\ S.globals = globals /\ S.elems = elems /\ S.datas = datas
  BY NextFields, StoreFields
<1>11. M = Modules[m]
  OBVIOUS
<1> HIDE DEF M, ls, nf, nt, nm, U, S
<1>12. /\ funcs' \in Seq(FuncSet) /\ Len(funcs') = Len(funcs) + Len(M.funcs) /\ Len(funcs) <= Len(funcs')
       /\ \A k \in 1 .. Len(funcs) : funcs'[k] = funcs[k]
       /\ \A k \in 1 .. Len(M.funcs) : funcs'[Len(funcs) + k] = nf[k]
  <2>1. funcs \in Seq(FuncSet)
    BY <1>1
  <2>2. nf \in Seq(FuncSet) /\ Len(nf) = Len(M.funcs)
    BY <1>3 DEF nf
  <2> DEFINE u == funcs'
  <2>3. u = funcs \o nf
    BY <1>9
  <2> HIDE DEF u
  <2>4. /\ u \in Seq(FuncSet) /\ Len(u) = Len(funcs) + Len(nf) /\ Len(funcs) <= Len(u)
    <3>1. funcs \o nf \in Seq(FuncSet) /\ Len(funcs \o nf) = Len(funcs) + Len(nf)
      BY <2>1, <2>2, Joined, ZenonT(40)
    <3>2. Len(funcs) \in Nat /\ Len(nf) \in Nat
      BY <2>1, <2>2
    <3>3. \A a, b \in Nat : a <= a + b
      OBVIOUS
    <3>4. QED
      BY <2>3, <3>1, <3>2, <3>3, Zenon
  <2>5. \A k \in 1 .. Len(funcs) : u[k] = funcs[k]
    BY <2>1, <2>2, <2>3, Lengthened
  <2>6. \A k \in 1 .. Len(nf) : u[Len(funcs) + k] = nf[k]
    BY <2>1, <2>2, <2>3, Lengthened
  <2>7. QED
    BY <2>2, <2>4, <2>5, <2>6 DEF u
<1>13. /\ tables' \in Seq(TableSet) /\ Len(tables') = Len(tables) + Len(M.tables) /\ Len(tables) <= Len(tables')
       /\ \A k \in 1 .. Len(tables) : tables'[k] = tables[k]
       /\ \A k \in 1 .. Len(M.tables) : tables'[Len(tables) + k] = nt[k]
  <2>1. tables \in Seq(TableSet)
    BY <1>1
  <2>2. nt \in Seq(TableSet) /\ Len(nt) = Len(M.tables)
    BY <1>4 DEF nt
  <2> DEFINE u == tables'
  <2>3. u = tables \o nt
    BY <1>9
  <2> HIDE DEF u
  <2>4. /\ u \in Seq(TableSet) /\ Len(u) = Len(tables) + Len(nt) /\ Len(tables) <= Len(u)
    <3>1. tables \o nt \in Seq(TableSet) /\ Len(tables \o nt) = Len(tables) + Len(nt)
      BY <2>1, <2>2, Joined, ZenonT(40)
    <3>2. Len(tables) \in Nat /\ Len(nt) \in Nat
      BY <2>1, <2>2
    <3>3. \A a, b \in Nat : a <= a + b
      OBVIOUS
    <3>4. QED
      BY <2>3, <3>1, <3>2, <3>3, Zenon
  <2>5. \A k \in 1 .. Len(tables) : u[k] = tables[k]
    BY <2>1, <2>2, <2>3, Lengthened
  <2>6. \A k \in 1 .. Len(nt) : u[Len(tables) + k] = nt[k]
    BY <2>1, <2>2, <2>3, Lengthened
  <2>7. QED
    BY <2>2, <2>4, <2>5, <2>6 DEF u
<1>14. /\ mems' \in Seq(MemSet) /\ Len(mems') = Len(mems) + Len(M.mems) /\ Len(mems) <= Len(mems')
       /\ \A k \in 1 .. Len(mems) : mems'[k] = mems[k]
       /\ \A k \in 1 .. Len(M.mems) : mems'[Len(mems) + k] = nm[k]
  <2>1. mems \in Seq(MemSet)
    BY <1>1
  <2>2. nm \in Seq(MemSet) /\ Len(nm) = Len(M.mems)
    BY <1>5 DEF nm
  <2> DEFINE u == mems'
  <2>3. u = mems \o nm
    BY <1>9
  <2> HIDE DEF u
  <2>4. /\ u \in Seq(MemSet) /\ Len(u) = Len(mems) + Len(nm) /\ Len(mems) <= Len(u)
    <3>1. mems \o nm \in Seq(MemSet) /\ Len(mems \o nm) = Len(mems) + Len(nm)
      BY <2>1, <2>2, Joined, ZenonT(40)
    <3>2. Len(mems) \in Nat /\ Len(nm) \in Nat
      BY <2>1, <2>2
    <3>3. \A a, b \in Nat : a <= a + b
      OBVIOUS
    <3>4. QED
      BY <2>3, <3>1, <3>2, <3>3, Zenon
  <2>5. \A k \in 1 .. Len(mems) : u[k] = mems[k]
    BY <2>1, <2>2, <2>3, Lengthened
  <2>6. \A k \in 1 .. Len(nm) : u[Len(mems) + k] = nm[k]
    BY <2>1, <2>2, <2>3, Lengthened
  <2>7. QED
    BY <2>2, <2>4, <2>5, <2>6 DEF u
<1>15. /\ datas' \in Seq(Nat) /\ Len(datas') = Len(datas) + Len(M.datas) /\ Len(datas) <= Len(datas')
       /\ \A k \in 1 .. Len(datas) : datas'[k] = datas[k]
       /\ \A k \in 1 .. Len(M.datas) : datas'[Len(datas) + k] = ls[k]
  <2>1. datas \in Seq(Nat)
    BY <1>1
  <2>2. ls \in Seq(Nat) /\ Len(ls) = Len(M.datas)
    BY <1>6 DEF ls
  <2> DEFINE u == datas'
  <2>3. u = datas \o ls
    BY <1>8
  <2> HIDE DEF u
  <2>4. /\ u \in Seq(Nat) /\ Len(u) = Len(datas) + Len(ls) /\ Len(datas) <= Len(u)
    <3>1. datas \o ls \in Seq(Nat) /\ Len(datas \o ls) = Len(datas) + Len(ls)
      BY <2>1, <2>2, Joined, ZenonT(40)
    <3>2. Len(datas) \in Nat /\ Len(ls) \in Nat
      BY <2>1, <2>2
    <3>3. \A a, b \in Nat : a <= a + b
      OBVIOUS
    <3>4. QED
      BY <2>3, <3>1, <3>2, <3>3, Zenon
  <2>5. \A k \in 1 .. Len(datas) : u[k] = datas[k]
    BY <2>1, <2>2, <2>3, Lengthened
  <2>6. \A k \in 1 .. Len(ls) : u[Len(datas) + k] = ls[k]
    BY <2>1, <2>2, <2>3, Lengthened, SMTT(40)
  <2>7. QED
    BY <2>2, <2>4, <2>5, <2>6 DEF u
<1>16. U \in StoreSet
  BY <1>1, <1>12, <1>13, <1>14, <1>15 DEF StoreSet, U, Store
<1>17. /\ Len(funcs) \in Nat /\ Len(tables) \in Nat /\ Len(mems) \in Nat
       /\ Len(globals) \in Nat /\ Len(elems) \in Nat /\ Len(datas) \in Nat
  BY <1>1
<1>18. Grown(S, U)
  <2>1. Grown(S, S)
    BY <1>1, GrownSelf
  <2>2. \A a \in 1 .. Len(S.mems) :
           /\ U.mems[a].type.min >= S.mems[a].type.min
           /\ U.mems[a].type.has_max = S.mems[a].type.has_max
           /\ U.mems[a].type.max = S.mems[a].type.max
    BY <1>10, <1>14, <2>1 DEF Grown
  <2>3. /\ Len(S.funcs) <= Len(U.funcs) /\ Len(S.tables) <= Len(U.tables)
        /\ Len(S.mems) <= Len(U.mems) /\ Len(S.globals) <= Len(U.globals)
        /\ Len(S.elems) <= Len(U.elems) /\ Len(S.datas) <= Len(U.datas)
    <3>1. Len(globals) <= Len(globals) /\ Len(elems) <= Len(elems)
      BY <1>17
    <3>2. QED
      BY <1>10, <1>12, <1>13, <1>14, <1>15, <3>1, Zenon
  <2>4. /\ \A f \in 1 .. Len(S.funcs) : U.funcs[f] = S.funcs[f]
        /\ \A a \in 1 .. Len(S.tables) : U.tables[a].type = S.tables[a].type
        /\ \A a \in 1 .. Len(S.globals) : U.globals[a] = S.globals[a]
    BY <1>10, <1>12, <1>13
  <2>5. QED
    BY <2>2, <2>3, <2>4, Zenon DEF Grown
<1>19. /\ Ref(S) \subseteq Ref(U) /\ 0 \in Ref(U)
  BY <1>7, <1>10, <1>12, <1>17, SMTT(40) DEF Ref
<1>20. ASSUME NEW f \in 1 .. Len(U.funcs)
       PROVE  U.funcs[f].inst \in 1 .. Len(insts) + 1
  <2>1. CASE f \in 1 .. Len(funcs)
    <3>1. funcs[f].inst \in 1 .. Len(insts)
      BY <1>1, <1>10, <2>1 DEF StoreOK
    <3>2. funcs'[f] = funcs[f] /\ U.funcs = funcs'
      <4>1. U.funcs = funcs'
        BY <1>10
      <4>2. \A k \in 1 .. Len(funcs) : funcs'[k] = funcs[k]
        BY <1>12
      <4>3. QED
        BY <2>1, <4>1, <4>2
    <3>3. funcs[f].inst \in 1 .. Len(insts) + 1
      <4>1. Len(insts) \in Nat
        BY <1>1
      <4>2. QED
        BY <3>1, <4>1
    <3>4. QED
      BY <3>2, <3>3, Zenon
  <2>2. CASE f \notin 1 .. Len(funcs)
    <3>1. f - Len(funcs) \in 1 .. Len(M.funcs) /\ Len(funcs) + (f - Len(funcs)) = f
      BY <1>7, <1>10, <1>12, <1>17, <2>2
    <3>2. U.funcs[f] = nf[f - Len(funcs)]
      BY <1>10, <1>12, <3>1
    <3>3. U.funcs[f].inst = Len(insts) + 1
      BY <1>3, <3>1, <3>2 DEF nf
    <3>4. QED
      BY <1>1, <3>3
  <2>3. QED
    BY <2>1, <2>2
<1>21. ASSUME NEW a \in 1 .. Len(U.tables)
       PROVE  Elems(U.tables[a].elem) \subseteq Ref(U)
  <2>1. CASE a \in 1 .. Len(tables)
    <3>1. Elems(tables[a].elem) \subseteq Ref(S)
      BY <1>1, <1>10, <2>1 DEF StoreOK
    <3>2. U.tables[a] = tables[a]
      BY <1>10, <1>13, <2>1
    <3>3. QED
      BY <1>19, <3>1, <3>2
  <2>2. CASE a \notin 1 .. Len(tables)
    <3>1. a - Len(tables) \in 1 .. Len(M.tables) /\ Len(tables) + (a - Len(tables)) = a
      BY <1>7, <1>10, <1>13, <1>17, <2>2
    <3>2. U.tables[a] = nt[a - Len(tables)]
      BY <1>10, <1>13, <3>1
    <3>3. Elems(U.tables[a].elem) \subseteq {0}
      BY <1>4, <3>1, <3>2 DEF nt
    <3>4. QED
      BY <1>19, <3>3
  <2>3. QED
    BY <2>1, <2>2
<1>22. \A a \in 1 .. Len(U.elems) : Elems(U.elems[a]) \subseteq Ref(U)
  BY <1>1, <1>10, <1>19 DEF StoreOK
<1>23. \A a \in 1 .. Len(U.globals) :
          U.globals[a].gt.type = "funcref" => U.globals[a].val \in Ref(U)
  BY <1>1, <1>10, <1>19 DEF StoreOK
<1>24. StoreOK(U, Len(insts) + 1)
  BY <1>20, <1>21, <1>22, <1>23 DEF StoreOK
<1>25. /\ Len(U.funcs) = Len(funcs) + Len(M.funcs)
       /\ Len(U.tables) = Len(tables) + Len(M.tables)
       /\ Len(U.mems) = Len(mems) + Len(M.mems)
       /\ Len(U.datas) = Len(datas) + Len(M.datas)
  BY <1>10, <1>12, <1>13, <1>14, <1>15
<1>26. QED
  BY <1>16, <1>18, <1>24, <1>25 DEF M, U, S

\* An address vector: imports first, then what is new.
LEMMA Extended ==
    ASSUME NEW is \in Seq(Nat), NEW old, Len(old) \in Nat, NEW n \in Nat,
           Elems(is) \subseteq 1 .. Len(old)
    PROVE  LET v == is \o Addresses(old, n)
           IN  /\ v \in Seq(Nat) /\ Len(v) = Len(is) + n
               /\ Elems(v) \subseteq 1 .. Len(old) + n
               /\ \A k \in 1 .. Len(is) : v[k] = is[k]
               /\ \A k \in 1 .. n : v[Len(is) + k] = Len(old) + k
<1> DEFINE b == Addresses(old, n)
<1>1. b \in Seq(Nat) /\ Len(b) = n /\ Elems(b) \subseteq 1 .. Len(old) + n
      /\ \A k \in 1 .. n : b[k] = Len(old) + k
  BY AddressesAre
<1> HIDE DEF b
<1>2. /\ is \o b \in Seq(Nat) /\ Len(is \o b) = Len(is) + Len(b)
      /\ \A k \in 1 .. Len(is) : (is \o b)[k] = is[k]
      /\ \A k \in 1 .. Len(b) : (is \o b)[Len(is) + k] = b[k]
      /\ Elems(is \o b) = Elems(is) \cup Elems(b)
  BY <1>1, JoinedNat
<1>3. 1 .. Len(old) \subseteq 1 .. Len(old) + n
  OBVIOUS
<1>4. Elems(is \o b) \subseteq 1 .. Len(old) + n
  BY <1>1, <1>2, <1>3
<1>5. QED
  BY <1>1, <1>2, <1>4 DEF b

\* The instance made for a module whose imports are resolved holds allocated addresses, its
\* imports fit, and what has no loop of its own is complete.
LEMMA NewInstOK ==
    ASSUME LInv, NEW m \in DOMAIN Modules, Valid(Modules[m]), NamesKnown(Modules[m]),
           Resolved(Modules[m]), NEW U \in StoreSet, Grown(Store, U),
           Len(U.funcs) = Len(funcs) + Len(Modules[m].funcs),
           Len(U.tables) = Len(tables) + Len(Modules[m].tables),
           Len(U.mems) = Len(mems) + Len(Modules[m].mems),
           Len(U.datas) = Len(datas) + Len(Modules[m].datas)
    PROVE  LET r == NewInst(m, Modules[m])
           IN  r \in InstSet /\ r.module = m /\ InstOK(r, 0, 0, U)
<1> DEFINE M == Modules[m]
           r == NewInst(m, M)
           S == Store
<1>1. /\ funcs \in Seq(FuncSet) /\ tables \in Seq(TableSet) /\ mems \in Seq(MemSet)
      /\ globals \in Seq(GlobalSet) /\ elems \in Seq(Seq(Nat)) /\ datas \in Seq(Nat)
      /\ S \in StoreSet
  BY StoreTyped DEF LInv, TypeOK
<1>2. IsModule(M) /\ M = Modules[m]
  BY LoaderAssumption
<1>3. /\ r.module = m
      /\ r.funcaddrs = ImportedAddrs(M, "func") \o Addresses(funcs, Len(M.funcs))
      /\ r.tableaddrs = ImportedAddrs(M, "table") \o Addresses(tables, Len(M.tables))
      /\ r.memaddrs = ImportedAddrs(M, "mem") \o Addresses(mems, Len(M.mems))
      /\ r.dataaddrs = Addresses(datas, Len(M.datas))
      /\ r.globaladdrs = ImportedAddrs(M, "global")
      /\ r.elemaddrs = <<>> /\ r.exports = <<>>
  BY DEF NewInst
<1>4. r = [module |-> m, funcaddrs |-> r.funcaddrs, tableaddrs |-> r.tableaddrs,
           memaddrs |-> r.memaddrs, globaladdrs |-> r.globaladdrs, elemaddrs |-> <<>>,
           dataaddrs |-> r.dataaddrs, exports |-> <<>>]
  BY DEF NewInst
<1>5. /\ Len(M.funcs) \in Nat /\ Len(M.tables) \in Nat /\ Len(M.mems) \in Nat
      /\ Len(M.datas) \in Nat
  BY <1>2, ModuleTyped
<1> HIDE DEF r
<1>6. Valid(M) /\ NamesKnown(M) /\ Resolved(M)
      /\ Len(U.funcs) = Len(funcs) + Len(M.funcs)
      /\ Len(U.tables) = Len(tables) + Len(M.tables)
      /\ Len(U.mems) = Len(mems) + Len(M.mems)
      /\ Len(U.datas) = Len(datas) + Len(M.datas)
  OBVIOUS
<1> DEFINE ds(kind) == OfKind(M.imports, kind)
           is(kind) == ImportedAddrs(M, kind)
<1> HIDE DEF M
<1>7. ASSUME NEW kind \in Kinds
      PROVE  /\ is(kind) \in Seq(Nat) /\ Len(is(kind)) = Len(ds(kind)) /\ Len(ds(kind)) \in Nat
             /\ Elems(is(kind)) \subseteq Addrs(S, kind)
             /\ \A n \in 1 .. Len(ds(kind)) :
                   is(kind)[n] \in Addrs(S, kind) /\ Fits(M, ds(kind)[n], is(kind)[n], S)
  BY <1>2, <1>6, ImportsLinked
<1>8. /\ Addrs(S, "func") = 1 .. Len(funcs) /\ Addrs(S, "table") = 1 .. Len(tables)
      /\ Addrs(S, "mem") = 1 .. Len(mems) /\ Addrs(S, "global") = 1 .. Len(globals)
  BY StoreFields DEF Addrs
<1>9. /\ r.funcaddrs = is("func") \o Addresses(funcs, Len(M.funcs))
      /\ r.tableaddrs = is("table") \o Addresses(tables, Len(M.tables))
      /\ r.memaddrs = is("mem") \o Addresses(mems, Len(M.mems))
      /\ r.globaladdrs = is("global")
  BY <1>3
<1> HIDE DEF is
<1>10. /\ r.funcaddrs \in Seq(Nat) /\ Len(r.funcaddrs) = Len(ds("func")) + Len(M.funcs)
       /\ Elems(r.funcaddrs) \subseteq 1 .. Len(U.funcs)
       /\ \A k \in 1 .. Len(ds("func")) : r.funcaddrs[k] = is("func")[k]
  <2> DEFINE i == is("func")
             w == i \o Addresses(funcs, Len(M.funcs))
  <2>1. /\ i \in Seq(Nat) /\ Len(i) = Len(ds("func")) /\ Elems(i) \subseteq 1 .. Len(funcs)
    BY <1>7, <1>8 DEF Kinds
  <2>2. Len(funcs) \in Nat /\ Len(M.funcs) \in Nat
    BY <1>1, <1>5
  <2>3. r.funcaddrs = w /\ Len(U.funcs) = Len(funcs) + Len(M.funcs)
    BY <1>6, <1>9
  <2> HIDE DEF i
  <2> DEFINE n == Len(M.funcs)
  <2>4. n \in Nat /\ w = i \o Addresses(funcs, n)
    BY <2>2
  <2> HIDE DEF n, w
  <2>5. /\ w \in Seq(Nat) /\ Len(w) = Len(i) + n
        /\ Elems(w) \subseteq 1 .. Len(funcs) + n
    BY <2>1, <2>2, <2>4, Extended, ZenonT(40)
  <2>6. \A k \in 1 .. Len(i) : w[k] = i[k]
    BY <2>1, <2>2, <2>4, Extended
  <2>7. QED
    BY <2>1, <2>3, <2>5, <2>6 DEF i, n
<1>11. /\ r.tableaddrs \in Seq(Nat) /\ Len(r.tableaddrs) = Len(ds("table")) + Len(M.tables)
       /\ Elems(r.tableaddrs) \subseteq 1 .. Len(U.tables)
       /\ \A k \in 1 .. Len(ds("table")) : r.tableaddrs[k] = is("table")[k]
  <2> DEFINE i == is("table")
             w == i \o Addresses(tables, Len(M.tables))
  <2>1. /\ i \in Seq(Nat) /\ Len(i) = Len(ds("table")) /\ Elems(i) \subseteq 1 .. Len(tables)
    BY <1>7, <1>8 DEF Kinds
  <2>2. Len(tables) \in Nat /\ Len(M.tables) \in Nat
    BY <1>1, <1>5
  <2>3. r.tableaddrs = w /\ Len(U.tables) = Len(tables) + Len(M.tables)
    BY <1>6, <1>9
  <2> HIDE DEF i
  <2> DEFINE n == Len(M.tables)
  <2>4. n \in Nat /\ w = i \o Addresses(tables, n)
    BY <2>2
  <2> HIDE DEF n, w
  <2>5. /\ w \in Seq(Nat) /\ Len(w) = Len(i) + n
        /\ Elems(w) \subseteq 1 .. Len(tables) + n
    BY <2>1, <2>2, <2>4, Extended, ZenonT(40)
  <2>6. \A k \in 1 .. Len(i) : w[k] = i[k]
    BY <2>1, <2>2, <2>4, Extended
  <2>7. QED
    BY <2>1, <2>3, <2>5, <2>6 DEF i, n
<1>12. /\ r.memaddrs \in Seq(Nat) /\ Len(r.memaddrs) = Len(ds("mem")) + Len(M.mems)
       /\ Elems(r.memaddrs) \subseteq 1 .. Len(U.mems)
       /\ \A k \in 1 .. Len(ds("mem")) : r.memaddrs[k] = is("mem")[k]
  <2> DEFINE i == is("mem")
             w == i \o Addresses(mems, Len(M.mems))
  <2>1. /\ i \in Seq(Nat) /\ Len(i) = Len(ds("mem")) /\ Elems(i) \subseteq 1 .. Len(mems)
    BY <1>7, <1>8 DEF Kinds
  <2>2. Len(mems) \in Nat /\ Len(M.mems) \in Nat
    BY <1>1, <1>5
  <2>3. r.memaddrs = w /\ Len(U.mems) = Len(mems) + Len(M.mems)
    BY <1>6, <1>9
  <2> HIDE DEF i
  <2> DEFINE n == Len(M.mems)
  <2>4. n \in Nat /\ w = i \o Addresses(mems, n)
    BY <2>2
  <2> HIDE DEF n, w
  <2>5. /\ w \in Seq(Nat) /\ Len(w) = Len(i) + n
        /\ Elems(w) \subseteq 1 .. Len(mems) + n
    BY <2>1, <2>2, <2>4, Extended, ZenonT(40)
  <2>6. \A k \in 1 .. Len(i) : w[k] = i[k]
    BY <2>1, <2>2, <2>4, Extended
  <2>7. QED
    BY <2>1, <2>3, <2>5, <2>6 DEF i, n
<1>13. /\ r.globaladdrs \in Seq(Nat) /\ Len(r.globaladdrs) = Len(ds("global"))
       /\ Elems(r.globaladdrs) \subseteq Addrs(S, "global")
  BY <1>7, <1>9 DEF Kinds
<1>14. /\ r.dataaddrs \in Seq(Nat) /\ Len(r.dataaddrs) = Len(M.datas)
       /\ Elems(r.dataaddrs) \subseteq 1 .. Len(U.datas)
  <2>1. Len(datas) \in Nat /\ Len(M.datas) \in Nat /\ Len(U.datas) = Len(datas) + Len(M.datas)
    BY <1>1, <1>5, <1>6
  <2> DEFINE a == Addresses(datas, Len(M.datas))
  <2>2. a \in Seq(Nat) /\ Len(a) = Len(M.datas) /\ Elems(a) \subseteq 1 .. Len(datas) + Len(M.datas)
    BY <2>1, AddressesAre
  <2>3. r.dataaddrs = a
    BY <1>3
  <2> HIDE DEF a
  <2>4. QED
    BY <2>1, <2>2, <2>3
<1>15. r \in InstSet
  <2>1. <<>> \in Seq(Nat) /\ <<>> \in Seq(ExportSet)
    OBVIOUS
  <2> DEFINE fa == r.funcaddrs
             ta == r.tableaddrs
             ma == r.memaddrs
             ga == r.globaladdrs
             da == r.dataaddrs
  <2>2. /\ fa \in Seq(Nat) /\ ta \in Seq(Nat) /\ ma \in Seq(Nat) /\ ga \in Seq(Nat)
        /\ da \in Seq(Nat)
    BY <1>10, <1>11, <1>12, <1>13, <1>14
  <2>3. r = [module |-> m, funcaddrs |-> fa, tableaddrs |-> ta, memaddrs |-> ma,
             globaladdrs |-> ga, elemaddrs |-> <<>>, dataaddrs |-> da, exports |-> <<>>]
    BY <1>4, Zenon
  <2> HIDE DEF fa, ta, ma, ga, da
  <2>4. QED
    BY <2>1, <2>2, <2>3 DEF InstSet
<1>16. /\ AddressOf(r, "func") = r.funcaddrs /\ AddressOf(r, "table") = r.tableaddrs
       /\ AddressOf(r, "mem") = r.memaddrs /\ AddressOf(r, "global") = r.globaladdrs
  BY DEF AddressOf
<1>17. Addrs(S, "global") \subseteq Addrs(U, "global")
  BY <1>1, MoreAddrs DEF Kinds
<1>18. /\ Addrs(U, "func") = 1 .. Len(U.funcs) /\ Addrs(U, "table") = 1 .. Len(U.tables)
       /\ Addrs(U, "mem") = 1 .. Len(U.mems)
  BY DEF Addrs
<1>19. ASSUME NEW kind \in Kinds
       PROVE  Elems(AddressOf(r, kind)) \subseteq Addrs(U, kind)
  BY <1>10, <1>11, <1>12, <1>13, <1>16, <1>17, <1>18 DEF Kinds
<1>20. Elems(<<>>) = {} /\ Len(<<>>) = 0
  BY DEF Elems
<1>21. Held(r, U)
  BY <1>3, <1>14, <1>19, <1>20 DEF Held
<1>22. /\ Space(M, "func") = Len(ds("func")) + Len(M.funcs)
       /\ Space(M, "table") = Len(ds("table")) + Len(M.tables)
       /\ Space(M, "mem") = Len(ds("mem")) + Len(M.mems)
       /\ Len(ConstGlobals(M)) = Len(ds("global")) /\ Len(ds("global")) \in Nat
  BY <1>2, Spaces DEF Kinds
<1>23. M = Modules[r.module]
  BY <1>2, <1>3
<1>24. FilledTo(r, 0, 0)
  <2>1. Len(r.globaladdrs) = Len(ConstGlobals(M)) + 0
    BY <1>13, <1>22
  <2>2. /\ Len(r.funcaddrs) = Space(M, "func") /\ Len(r.tableaddrs) = Space(M, "table")
        /\ Len(r.memaddrs) = Space(M, "mem") /\ Len(r.dataaddrs) = Len(M.datas)
        /\ Len(r.elemaddrs) = 0
    BY <1>3, <1>10, <1>11, <1>12, <1>14, <1>20, <1>22, Zenon
  <2>3. QED
    BY <1>6, <1>23, <2>1, <2>2, Zenon DEF FilledTo
<1>25. ASSUME NEW kind \in Kinds, NEW n \in 1 .. Len(ds(kind))
       PROVE  Fits(M, ds(kind)[n], AddressOf(r, kind)[n], U)
  <2> DEFINE d == ds(kind)[n]
             a == is(kind)[n]
  <2>1. d.kind = kind /\ IsImport(d)
    BY <1>2, ImportsOfKind
  <2>2. a \in Addrs(S, kind) /\ Fits(M, d, a, S)
    BY <1>7
  <2>3. AddressOf(r, kind)[n] = a
    <3>1. CASE kind = "func"
      BY <1>10, <1>16, <3>1
    <3>2. CASE kind = "table"
      BY <1>11, <1>16, <3>2
    <3>3. CASE kind = "mem"
      BY <1>12, <1>16, <3>3
    <3>4. CASE kind = "global"
      BY <1>9, <1>16, <3>4
    <3>5. QED
      BY <3>1, <3>2, <3>3, <3>4 DEF Kinds
  <2> HIDE DEF d, a, S
  <2>4. S \in StoreSet /\ Grown(S, U)
    BY <1>1 DEF S
  <2>5. Fits(M, d, a, U)
    BY <2>1, <2>2, <2>4, FitsStays
  <2>6. QED
    BY <2>3, <2>5 DEF d
<1>26. ImportsFit(r, U)
  BY <1>23, <1>25 DEF ImportsFit, ds
<1>27. QED
  BY <1>3, <1>15, <1>21, <1>24, <1>26 DEF InstOK, r, M

\* Linking a module and allocating its instance keeps the invariant.
LEMMA BeginInstantiateOK ==
    ASSUME LInv, NEW m \in DOMAIN Modules, NEW name \in Ids \cup {NoName},
           BeginInstantiate(m, name)
    PROVE  LInv' /\ Grown(Store, Store')
<1> DEFINE M == Modules[m]
           r == NewInst(m, M)
           U == Store'
           n == Len(insts) + 1
<1>1. /\ job = Idle /\ Valid(M) /\ NamesKnown(M) /\ Resolved(M)
      /\ insts' = Append(insts, r)
      /\ job' = [step |-> "globals", i |-> 1, inst |-> n, name |-> name]
      /\ verdict' = Said("linked", m)
      /\ UNCHANGED <<globals, elems, test_modules, linked, current>>
  BY DEF BeginInstantiate, ValidModules, host
<1>2. /\ U \in StoreSet /\ Grown(Store, U) /\ StoreOK(U, n)
      /\ Len(U.funcs) = Len(funcs) + Len(M.funcs)
      /\ Len(U.tables) = Len(tables) + Len(M.tables)
      /\ Len(U.mems) = Len(mems) + Len(M.mems)
      /\ Len(U.datas) = Len(datas) + Len(M.datas)
  <2>1. /\ funcs' = funcs \o NewFuncs(Modules[m])
        /\ tables' = tables \o NewTables(Modules[m])
        /\ mems' = mems \o NewMems(Modules[m])
        /\ datas' = datas \o Map(Modules[m].datas, LAMBDA d : d.len)
    BY DEF BeginInstantiate
  <2>2. QED
    BY <1>1, <2>1, StoreBegun
<1>3. /\ insts \in Seq(InstSet) /\ Store \in StoreSet /\ InstsOK(insts, job, Store)
      /\ Len(insts) \in Nat
  BY StoreTyped DEF LInv, TypeOK
<1> HIDE DEF U
<1>4. r \in InstSet /\ r.module = m /\ InstOK(r, 0, 0, U)
  BY <1>1, <1>2, NewInstOK
<1> HIDE DEF r
<1>5. /\ insts' \in Seq(InstSet) /\ Len(insts') = n
      /\ \A k \in 1 .. Len(insts) : insts'[k] = insts[k]
      /\ insts'[n] = r
  BY <1>1, <1>3, <1>4, Appended
<1> DEFINE j == job'
<1>6. /\ j \in JobSet /\ j # Idle /\ j.step = "globals" /\ j.i = 1 /\ j.inst = n
  <2>1. n \in Nat /\ n # 0
    BY <1>3
  <2>2. QED
    BY <1>1, <2>1 DEF JobSet, Steps, Idle
<1>7. \A i \in (1 .. Len(insts')) \ {n} :
         LET K == Modules[insts[i].module]
         IN  /\ i \in 1 .. Len(insts) /\ insts'[i] = insts[i]
             /\ GlobalsOf(K, i, j) = GlobalsOf(K, i, job)
             /\ ElemsOf(K, i, j) = ElemsOf(K, i, job)
  <2>1. ASSUME NEW i \in (1 .. Len(insts')) \ {n}
        PROVE  i \in 1 .. Len(insts) /\ insts'[i] = insts[i] /\ i # n
    BY <1>3, <1>5
  <2>2. ASSUME NEW i, i # n, NEW K
        PROVE  /\ GlobalsOf(K, i, j) = GlobalsOf(K, i, job)
               /\ ElemsOf(K, i, j) = ElemsOf(K, i, job)
    BY <1>1, <1>6, <2>2 DEF GlobalsOf, ElemsOf, Idle
  <2>3. QED
    BY <2>1, <2>2
<1>8. GlobalsOf(M, n, j) = 0 /\ ElemsOf(M, n, j) = 0
  BY <1>6 DEF GlobalsOf, ElemsOf
<1> HIDE DEF j
<1>9. InstsOK(insts', j, U)
  <2> DEFINE is2 == insts'
  <2>1. LET K == Modules[is2[n].module]
        IN  InstOK(is2[n], GlobalsOf(K, n, j), ElemsOf(K, n, j), U)
    BY <1>4, <1>5, <1>8
  <2>2. job \in {Idle} \cup JobSet /\ is2 \in Seq(InstSet)
    BY <1>1, <1>5
  <2>3. \A i \in (1 .. Len(is2)) \ {n} :
         LET K == Modules[insts[i].module]
         IN  /\ i \in 1 .. Len(insts) /\ is2[i] = insts[i]
             /\ GlobalsOf(K, i, j) = GlobalsOf(K, i, job)
             /\ ElemsOf(K, i, j) = ElemsOf(K, i, job)
    BY <1>7
  <2> HIDE DEF is2, n
  <2>4. InstsOK(is2, j, U)
    BY <1>2, <1>3, <2>1, <2>2, <2>3, InstsNext, ZenonT(40)
  <2>5. QED
    BY <2>4 DEF is2
<1>10. JobOK'
  <2>1. Mod' = M
    BY <1>4, <1>5, <1>6 DEF Mod, Inst, j
  <2>2. Len(M.globals) \in Nat
    BY LoaderAssumption, ModuleTyped
  <2>3. Len(insts') # 0
    BY <1>3, <1>5
  <2>4. job'.step = "globals" /\ job'.i = 1 /\ job'.inst = Len(insts')
    BY <1>5, <1>6 DEF j
  <2>5. verdict'.what = "linked"
    BY <1>1 DEF Said
  <2> HIDE DEF M
  <2>6. 1 <= Len(M.globals) + 1
    BY <2>2
  <2>7. QED
    BY <2>1, <2>3, <2>4, <2>5, <2>6 DEF JobOK
<1>11. TypeOK'
  <2>1. /\ funcs' \in Seq(FuncSet) /\ tables' \in Seq(TableSet) /\ mems' \in Seq(MemSet)
        /\ globals' \in Seq(GlobalSet) /\ elems' \in Seq(Seq(Nat)) /\ datas' \in Seq(Nat)
    BY <1>2, NextFields DEF StoreSet, U
  <2>2. QED
    BY <1>1, <1>5, <1>6, <2>1 DEF LInv, TypeOK, j
<1>12. HostOK'
  <2>1. DOMAIN insts = 1 .. Len(insts) /\ DOMAIN insts' = 1 .. n
    BY <1>3, <1>5
  <2>2. DOMAIN insts \subseteq DOMAIN insts'
    BY <1>3, <2>1
  <2>3. QED
    BY <1>1, <2>2 DEF LInv, HostOK
<1>13. StoreOK(Store, Len(insts))'
  BY <1>2, <1>5 DEF U
<1>14. QED
  BY <1>2, <1>9, <1>10, <1>11, <1>12, <1>13 DEF LInv, U, j

-----------------------------------------------------------------------------
(* The invariant.                                                          *)

\* The invariant holds before the script begins.
LEMMA InitOK == Init => LInv
<1> SUFFICES ASSUME Init PROVE LInv
  OBVIOUS
<1>1. /\ funcs = <<>> /\ tables = <<>> /\ mems = <<>> /\ globals = <<>> /\ elems = <<>>
      /\ datas = <<>> /\ insts = <<>> /\ test_modules = <<>> /\ linked = <<>>
      /\ current = NULL /\ job = Idle /\ verdict = Said("none", NULL)
  BY DEF Init
<1>2. Len(<<>>) = 0 /\ 1 .. 0 = {} /\ Elems(<<>>) = {}
  BY DEF Elems
<1>3. TypeOK
  BY <1>1 DEF TypeOK
<1>4. JobOK
  BY <1>1 DEF JobOK
<1>5. StoreOK(Store, Len(insts))
  BY <1>1, <1>2, StoreFields DEF StoreOK
<1>6. HostOK
  BY <1>1, <1>2 DEF HostOK
<1>7. InstsOK(insts, job, Store)
  BY <1>1, <1>2 DEF InstsOK
<1>8. QED
  BY <1>3, <1>4, <1>5, <1>6, <1>7 DEF LInv

\* A step that changes nothing keeps the invariant.
LEMMA StutterOK ==
    ASSUME LInv, UNCHANGED vars
    PROVE  LInv' /\ Grown(Store, Store')
<1>1. Store' = Store /\ Store' \in StoreSet /\ Grown(Store, Store')
  BY SameStore DEF vars
<1>2. UNCHANGED <<store, insts, host, job, verdict>>
  BY DEF vars
<1>3. TypeOK'
  BY <1>2 DEF LInv, TypeOK, store, host
<1>4. JobOK'
  BY <1>2 DEF LInv, JobOK, Mod, Inst
<1>5. StoreOK(Store, Len(insts))' /\ HostOK' /\ InstsOK(insts, job, Store)'
  BY <1>1, <1>2 DEF LInv, HostOK, host
<1>6. QED
  BY <1>1, <1>3, <1>4, <1>5 DEF LInv

\* Every step keeps the invariant, and the store only grows.
LEMMA NextOK ==
    ASSUME LInv, [Next]_vars
    PROVE  LInv' /\ Grown(Store, Store')
<1>1. ASSUME NEW m \in DOMAIN Modules, AssertInvalid(m) \/ AssertUnlinkable(m)
      PROVE  LInv' /\ Grown(Store, Store')
  BY <1>1, RefuseOK DEF AssertInvalid, AssertUnlinkable
<1>2. ASSUME NEW m \in DOMAIN Modules, NEW name \in Ids \cup {NoName}, BeginInstantiate(m, name)
      PROVE  LInv' /\ Grown(Store, Store')
  BY <1>2, BeginInstantiateOK
<1>3. CASE Instantiate
  BY <1>3, AllocGlobalOK, AllocElemOK, CreateExportsOK, InitTablesOK, InitMemsOK, StartOK,
     CreateTestModuleOK DEF Instantiate
<1>4. ASSUME NEW name \in Names, Register(name)
      PROVE  LInv' /\ Grown(Store, Store')
  BY <1>4, RegisterOK
<1>5. ASSUME NEW name \in Ids \cup {NoName}, Invoke(name)
      PROVE  LInv' /\ Grown(Store, Store')
  BY <1>5, InvokeOK
<1>6. CASE UNCHANGED vars
  BY <1>6, StutterOK
<1>7. QED
  BY <1>1, <1>2, <1>3, <1>4, <1>5, <1>6 DEF Next

\* The invariant says that every address is allocated.
LEMMA AddressesKept == LInv => AddressesAllocated
<1> SUFFICES ASSUME LInv PROVE AddressesAllocated
  OBVIOUS
<1>1. /\ funcs \in Seq(FuncSet) /\ tables \in Seq(TableSet) /\ mems \in Seq(MemSet)
      /\ globals \in Seq(GlobalSet) /\ elems \in Seq(Seq(Nat)) /\ datas \in Seq(Nat)
      /\ insts \in Seq(InstSet)
  BY DEF LInv, TypeOK
<1>2. /\ DOMAIN funcs = 1 .. Len(funcs) /\ DOMAIN tables = 1 .. Len(tables)
      /\ DOMAIN mems = 1 .. Len(mems) /\ DOMAIN globals = 1 .. Len(globals)
      /\ DOMAIN elems = 1 .. Len(elems) /\ DOMAIN datas = 1 .. Len(datas)
      /\ DOMAIN insts = 1 .. Len(insts) /\ Len(funcs) \in Nat
  BY <1>1
<1>3. Ref(Store) \subseteq DOMAIN funcs \cup {0}
  BY <1>2, StoreFields DEF Ref
<1>4. StoreOK(Store, Len(insts))
  BY DEF LInv
<1>5. \A f \in Elems(funcs) : f.inst \in DOMAIN insts
  BY <1>2, <1>4, StoreFields DEF StoreOK, Elems
<1>6. \A t \in Elems(tables) : Elems(t.elem) \subseteq DOMAIN funcs \cup {0}
  <2>1. \A a \in 1 .. Len(tables) : Elems(tables[a].elem) \subseteq Ref(Store)
    BY <1>4, StoreFields DEF StoreOK
  <2>2. ASSUME NEW t \in Elems(tables)
        PROVE  Elems(t.elem) \subseteq Ref(Store)
    BY <2>1 DEF Elems
  <2>3. QED
    BY <1>3, <2>2
<1>7. \A e \in Elems(elems) : Elems(e) \subseteq DOMAIN funcs \cup {0}
  <2>1. \A a \in 1 .. Len(elems) : Elems(elems[a]) \subseteq Ref(Store)
    BY <1>4, StoreFields DEF StoreOK
  <2>2. ASSUME NEW e \in Elems(elems)
        PROVE  Elems(e) \subseteq Ref(Store)
    BY <2>1 DEF Elems
  <2>3. QED
    BY <1>3, <2>2
<1>8. \A g \in Elems(globals) : g.gt.type = "funcref" => g.val \in DOMAIN funcs \cup {0}
  BY <1>3, <1>4, StoreFields DEF StoreOK, Elems
<1>9. ASSUME NEW i \in Elems(insts)
      PROVE  /\ Elems(i.funcaddrs) \subseteq DOMAIN funcs
             /\ Elems(i.tableaddrs) \subseteq DOMAIN tables
             /\ Elems(i.memaddrs) \subseteq DOMAIN mems
             /\ Elems(i.globaladdrs) \subseteq DOMAIN globals
             /\ Elems(i.elemaddrs) \subseteq DOMAIN elems
             /\ Elems(i.dataaddrs) \subseteq DOMAIN datas
             /\ \A e \in Elems(i.exports) : e.kind \in Kinds /\ e.addr \in Allocated(e.kind)
  <2>1. i \in InstSet /\ \E n \in 1 .. Len(insts) : i = insts[n]
    BY <1>1, SequenceOfElems
  <2>2. Held(i, Store)
    BY <2>1 DEF LInv, InstsOK, InstOK
  <2>3. \A kind \in Kinds : Elems(AddressOf(i, kind)) \subseteq Addrs(Store, kind)
    BY <2>2 DEF Held
  <2>4. /\ Elems(i.elemaddrs) \subseteq 1 .. Len(elems)
        /\ Elems(i.dataaddrs) \subseteq 1 .. Len(datas)
        /\ \A e \in Elems(i.exports) : e.addr \in Addrs(Store, e.kind)
    BY <2>2, StoreFields DEF Held
  <2>5. \A kind \in Kinds : Addrs(Store, kind) = Allocated(kind)
    BY <1>2, StoreFields DEF Addrs, Allocated, Kinds
  <2>6. i.exports \in Seq(ExportSet)
    BY <2>1, InstTyped
  <2>7. \A e \in Elems(i.exports) : e.kind \in Kinds
    <3>1. Elems(i.exports) \subseteq ExportSet
      BY <2>6, SequenceOfElems
    <3>2. QED
      BY <3>1 DEF ExportSet
  <2>8. /\ Elems(i.funcaddrs) \subseteq DOMAIN funcs
        /\ Elems(i.tableaddrs) \subseteq DOMAIN tables
        /\ Elems(i.memaddrs) \subseteq DOMAIN mems
        /\ Elems(i.globaladdrs) \subseteq DOMAIN globals
    BY <2>3, <2>5 DEF AddressOf, Allocated, Kinds
  <2>9. QED
    BY <1>2, <2>4, <2>5, <2>7, <2>8
<1>10. Elems(linked) \subseteq DOMAIN test_modules /\ current \in DOMAIN test_modules \cup {NULL}
  BY DEF LInv, HostOK
<1>11. QED
  BY <1>5, <1>6, <1>7, <1>8, <1>9, <1>10 DEF AddressesAllocated

\* The inductive invariant of the loader.
LEMMA LInvHolds == Spec => []LInv
<1>1. LInv /\ [Next]_vars => LInv'
  BY NextOK
<1>2. QED
  BY <1>1, InitOK, PTL DEF Spec

\* Every address that an instance, an export, a table entry, an element segment or a test module
\* holds is that of something allocated (alloc_*, resolve_imports, create_test_module).
THEOREM SpecAddresses == Spec => []AddressesAllocated
  BY LInvHolds, AddressesKept, PTL

-----------------------------------------------------------------------------
(* Sizes.                                                                  *)

SizedTable(t) ==
    /\ t.type.min <= Len(t.elem)
    /\ t.type.has_max => Len(t.elem) <= t.type.max
SizedMem(m) ==
    /\ Len(m.bytes) = m.type.min * PageSize
    /\ m.type.has_max => m.type.min <= m.type.max

Sized ==
    /\ \A a \in 1 .. Len(tables) : SizedTable(tables[a])
    /\ \A a \in 1 .. Len(mems) : SizedMem(mems[a])

\* The steps that leave tables, or memories, alone.
LEMMA TablesChangeWhen ==
    ASSUME [Next]_vars
    PROVE  \/ tables' = tables
           \/ InitTables
           \/ \E i : Effect(i)
           \/ \E m \in DOMAIN Modules, name \in Ids \cup {NoName} : BeginInstantiate(m, name)
<1>1. CASE UNCHANGED vars
  BY <1>1 DEF vars, store
<1>2. ASSUME NEW m \in DOMAIN Modules, AssertInvalid(m) \/ AssertUnlinkable(m)
      PROVE  tables' = tables
  BY <1>2 DEF AssertInvalid, AssertUnlinkable, Refuse, store
<1>3. CASE Instantiate
  <2>1. ASSUME AllocGlobal \/ AllocElem \/ CreateExports \/ InitMems \/ CreateTestModule
        PROVE  tables' = tables
    BY <2>1 DEF AllocGlobal, AllocElem, CreateExports, InitMems, CreateTestModule, store
  <2>2. ASSUME Start
        PROVE  tables' = tables \/ \E i : Effect(i)
    BY <2>2 DEF Start, store
  <2>3. QED
    BY <1>3, <2>1, <2>2 DEF Instantiate
<1>4. ASSUME NEW name \in Names, Register(name)
      PROVE  tables' = tables
  BY <1>4 DEF Register, store
<1>5. ASSUME NEW name \in Ids \cup {NoName}, Invoke(name)
      PROVE  \E i : Effect(i)
  BY <1>5 DEF Invoke
<1>6. QED
  BY <1>1, <1>2, <1>3, <1>4, <1>5 DEF Next

\* The same of the memories.
LEMMA MemsChangeWhen ==
    ASSUME [Next]_vars
    PROVE  \/ mems' = mems
           \/ InitMems
           \/ \E i : Effect(i)
           \/ \E m \in DOMAIN Modules, name \in Ids \cup {NoName} : BeginInstantiate(m, name)
<1>1. CASE UNCHANGED vars
  BY <1>1 DEF vars, store
<1>2. ASSUME NEW m \in DOMAIN Modules, AssertInvalid(m) \/ AssertUnlinkable(m)
      PROVE  mems' = mems
  BY <1>2 DEF AssertInvalid, AssertUnlinkable, Refuse, store
<1>3. CASE Instantiate
  <2>1. ASSUME AllocGlobal \/ AllocElem \/ CreateExports \/ InitTables \/ CreateTestModule
        PROVE  mems' = mems
    BY <2>1 DEF AllocGlobal, AllocElem, CreateExports, InitTables, CreateTestModule, store
  <2>2. ASSUME Start
        PROVE  mems' = mems \/ \E i : Effect(i)
    BY <2>2 DEF Start, store
  <2>3. QED
    BY <1>3, <2>1, <2>2 DEF Instantiate
<1>4. ASSUME NEW name \in Names, Register(name)
      PROVE  mems' = mems
  BY <1>4 DEF Register, store
<1>5. ASSUME NEW name \in Ids \cup {NoName}, Invoke(name)
      PROVE  \E i : Effect(i)
  BY <1>5 DEF Invoke
<1>6. QED
  BY <1>1, <1>2, <1>3, <1>4, <1>5 DEF Next

\* What happens to a table that is there.
LEMMA TableAfter ==
    ASSUME LInv, [Next]_vars, NEW a \in 1 .. Len(tables)
    PROVE  /\ tables'[a].type = tables[a].type
           /\ \/ Len(tables'[a].elem) = Len(tables[a].elem)
              \/ /\ Len(tables'[a].elem) = Len(tables[a].elem) + 1
                 /\ tables[a].type.has_max => Len(tables[a].elem) < tables[a].type.max
<1>1. /\ tables \in Seq(TableSet) /\ tables[a] \in TableSet /\ tables[a].elem \in Seq(Nat)
  BY TableIs
<1>2. CASE tables' = tables
  BY <1>2
<1>3. CASE InitTables
  <2>1. job.step = "tables" /\ job.i \in Nat /\ Len(Mod.elems) \in Nat
    BY <1>3, JobIndex DEF InitTables
  <2>2. CASE tables' = tables
    BY <2>2
  <2>3. CASE tables' # tables
    <3> DEFINE e == Mod.elems[job.i]
               b == Inst.elemaddrs[job.i]
               t == At(Inst.tableaddrs, e.table)
               at == Eval(e.offset)
    <3>1. job.i <= Len(Mod.elems) /\ ~(job.i > Len(Mod.elems))
      BY <1>3, <2>1, <2>3 DEF InitTables
    <3>2. e.mode = "active"
      BY <1>3, <2>1, <2>3, <3>1, ElemSegment DEF InitTables
    <3>3. /\ t \in 1 .. Len(tables) /\ at \in Nat /\ b \in 1 .. Len(elems)
      BY <2>1, <3>1, <3>2, ElemSegment, SMTT(40)
    <3>4. tables' = [tables EXCEPT ![t].elem = Written(tables[t].elem, at, elems[b])]
      BY <1>3, <2>3, <3>1, <3>2 DEF InitTables, InitTable
    <3> HIDE DEF t, at, b
    <3>5. /\ \A c \in 1 .. Len(tables) : c # t => tables'[c] = tables[c]
          /\ \A c \in 1 .. Len(tables) : tables'[c].type = tables[c].type
          /\ Len(tables'[t].elem) = Len(tables[t].elem)
      BY <3>3, <3>4, TableWritten
    <3>6. CASE a = t
      BY <3>5, <3>6
    <3>7. CASE a # t
      BY <3>5, <3>7
    <3>8. QED
      BY <3>6, <3>7
  <2>4. QED
    BY <2>2, <2>3
<1>4. ASSUME NEW i, Effect(i)
      PROVE  /\ tables'[a].type = tables[a].type
             /\ \/ Len(tables'[a].elem) = Len(tables[a].elem)
                \/ /\ Len(tables'[a].elem) = Len(tables[a].elem) + 1
                   /\ tables[a].type.has_max => Len(tables[a].elem) < tables[a].type.max
  <2>1. CASE tables' = tables
    BY <2>1
  <2>2. ASSUME NEW b \in 1 .. Len(tables), GrowTable(b)
        PROVE  /\ tables'[a].type = tables[a].type
               /\ \/ Len(tables'[a].elem) = Len(tables[a].elem)
                  \/ /\ Len(tables'[a].elem) = Len(tables[a].elem) + 1
                     /\ tables[a].type.has_max => Len(tables[a].elem) < tables[a].type.max
    <3> DEFINE t == [tables[b] EXCEPT !.elem = Append(@, 0)]
    <3>1. tables[b] \in TableSet /\ tables[b].elem \in Seq(Nat)
      BY TableIs
    <3>2. /\ t.type = tables[b].type /\ t.elem = Append(tables[b].elem, 0)
          /\ t \in TableSet
      <4> DEFINE s == Append(tables[b].elem, 0)
      <4>1. s \in Seq(Nat)
        BY <3>1
      <4> HIDE DEF s
      <4>2. t.type = tables[b].type /\ t.elem = s /\ t \in TableSet
        BY <3>1, <4>1 DEF TableSet, s
      <4>3. QED
        BY <4>2 DEF s
    <3>3. tables' = [tables EXCEPT ![b] = t]
      BY <2>2 DEF GrowTable
    <3> HIDE DEF t
    <3>4. tables'[b] = t /\ (a # b => tables'[a] = tables[a])
      BY <1>1, <3>2, <3>3
    <3>5. Len(Append(tables[b].elem, 0)) = Len(tables[b].elem) + 1
      BY <3>1
    <3>6. tables[b].type.has_max => Len(tables[b].elem) < tables[b].type.max
      BY <2>2 DEF GrowTable
    <3>7. CASE a = b
      BY <3>2, <3>4, <3>5, <3>6, <3>7
    <3>8. CASE a # b
      BY <3>4, <3>8
    <3>9. QED
      BY <3>7, <3>8
  <2>3. ASSUME NEW b \in 1 .. Len(tables), NEW k \in 1 .. MaxPages, NEW f \in 1 .. Len(funcs),
               SetTable(b, k, f)
        PROVE  /\ tables'[a].type = tables[a].type
               /\ Len(tables'[a].elem) = Len(tables[a].elem)
    <3> DEFINE s == [tables[b].elem EXCEPT ![k] = f]
               t == [tables[b] EXCEPT !.elem = s]
    <3>1. tables[b] \in TableSet /\ tables[b].elem \in Seq(Nat) /\ f \in Nat
      BY TableIs
    <3>2. s \in Seq(Nat) /\ Len(s) = Len(tables[b].elem)
      <4>1. k \in 1 .. Len(tables[b].elem)
        BY <2>3, <3>1, PagesAssumption DEF SetTable
      <4>2. QED
        BY <3>1, <4>1, Replaced
    <3> HIDE DEF s
    <3>3. t.type = tables[b].type /\ t.elem = s /\ t \in TableSet
      BY <3>1, <3>2 DEF TableSet
    <3>4. tables' = [tables EXCEPT ![b] = t]
      BY <2>3 DEF SetTable, s
    <3> HIDE DEF t
    <3>5. tables'[b] = t /\ (a # b => tables'[a] = tables[a])
      BY <1>1, <3>3, <3>4
    <3>6. CASE a = b
      BY <3>2, <3>3, <3>5, <3>6
    <3>7. CASE a # b
      BY <3>5, <3>7
    <3>8. QED
      BY <3>6, <3>7
  <2>4. ASSUME NEW b \in 1 .. Len(mems), GrowMem(b)
        PROVE  tables' = tables
    BY <2>4 DEF GrowMem
  <2>5. QED
    BY <1>4, <2>1, <2>2, <2>3, <2>4, EffectIs DEF store
<1>5. ASSUME NEW m \in DOMAIN Modules, NEW name \in Ids \cup {NoName}, BeginInstantiate(m, name)
      PROVE  tables'[a] = tables[a]
  <2>1. tables' = tables \o NewTables(Modules[m])
    BY <1>5 DEF BeginInstantiate
  <2>2. NewTables(Modules[m]) \in Seq(TableSet)
    BY NewTablesAre, LoaderAssumption
  <2> DEFINE n == NewTables(Modules[m])
  <2> HIDE DEF n
  <2>3. \A k \in 1 .. Len(tables) : (tables \o n)[k] = tables[k]
    BY <1>1, <2>2, Joined DEF n
  <2>4. QED
    BY <2>1, <2>3 DEF n
<1>6. QED
  BY <1>2, <1>3, <1>4, <1>5, TablesChangeWhen

\* A run of numbers written into a sequence of numbers.
LEMMA WrittenNat ==
    ASSUME NEW s \in Seq(Nat), NEW at \in Nat, NEW xs \in Seq(Nat)
    PROVE  /\ Written(s, at, xs) \in Seq(Nat) /\ Len(Written(s, at, xs)) = Len(s)
           /\ \A k \in 1 .. Len(s) :
                 Written(s, at, xs)[k] = IF k \in at + 1 .. at + Len(xs) THEN xs[k - at] ELSE s[k]
  BY WrittenIs

\* What happens to a memory that is there.
LEMMA MemAfter ==
    ASSUME LInv, [Next]_vars, NEW a \in 1 .. Len(mems)
    PROVE  LET m == mems[a]
               n == mems'[a]
           IN  /\ n.type.has_max = m.type.has_max /\ n.type.max = m.type.max
               /\ \/ /\ n.type.min = m.type.min /\ Len(n.bytes) = Len(m.bytes)
                     /\ \A k \in 1 .. Len(m.bytes) :
                           n.bytes[k] = m.bytes[k] \/ (job.step = "mems" /\ n.bytes[k] = job.inst)
                  \/ /\ n.type.min = m.type.min + 1
                     /\ Len(n.bytes) = Len(m.bytes) + PageSize
                     /\ m.type.has_max => m.type.min < m.type.max
                     /\ \A k \in 1 .. Len(m.bytes) : n.bytes[k] = m.bytes[k]
<1> DEFINE m == mems[a]
           n == mems'[a]
           Kept == /\ n.type.min = m.type.min /\ Len(n.bytes) = Len(m.bytes)
                   /\ \A k \in 1 .. Len(m.bytes) :
                         n.bytes[k] = m.bytes[k] \/ (job.step = "mems" /\ n.bytes[k] = job.inst)
           Larger == /\ n.type.min = m.type.min + 1
                     /\ Len(n.bytes) = Len(m.bytes) + PageSize
                     /\ m.type.has_max => m.type.min < m.type.max
                     /\ \A k \in 1 .. Len(m.bytes) : n.bytes[k] = m.bytes[k]
<1>1. mems \in Seq(MemSet) /\ m \in MemSet /\ m.bytes \in Seq(Nat)
  BY MemTyped DEF LInv, TypeOK
<1>2. ASSUME n = m
      PROVE  n.type.has_max = m.type.has_max /\ n.type.max = m.type.max /\ Kept
  BY <1>2
<1>3. ASSUME InitMems
      PROVE  n.type.has_max = m.type.has_max /\ n.type.max = m.type.max /\ Kept
  <2>1. CASE mems' = mems
    BY <1>2, <2>1
  <2>2. CASE mems' # mems
    <3> DEFINE d == Mod.datas[job.i]
               b == At(Inst.memaddrs, 0)
               at == Eval(d.offset)
               l == datas[Inst.dataaddrs[job.i]]
               xs == [k \in 1 .. l |-> job.inst]
    <3>1. ~(job.i > Len(Mod.datas)) /\ job.i <= Len(Mod.datas) /\ d.mode = "active"
          /\ job.step = "mems"
      <4>1. job.step = "mems" /\ job.i \in Nat /\ Len(Mod.datas) \in Nat
        BY <1>3, JobIndex DEF InitMems
      <4>2. QED
        BY <1>3, <2>2, <4>1 DEF InitMems
    <3>2. /\ b \in 1 .. Len(mems) /\ at \in Nat /\ l \in Nat
      BY <3>1, DataSegment
    <3>3. mems' = [mems EXCEPT ![b].bytes = Written(mems[b].bytes, at, xs)]
      BY <1>3, <2>2, <3>1 DEF InitMems, InitMem
    <3>4. job.inst \in Nat
      BY <3>1, JobIndex DEF JobSet
    <3> HIDE DEF b, at, l
    <3>5. xs \in Seq(Nat) /\ Len(xs) = l /\ \A k \in 1 .. l : xs[k] = job.inst
      BY <3>2, <3>4
    <3> HIDE DEF xs
    <3>6. mems[b].bytes \in Seq(Nat)
      BY <3>2, MemTyped
    <3> DEFINE old == mems[b].bytes
               w == Written(old, at, xs)
    <3>7. /\ w \in Seq(Nat) /\ Len(w) = Len(old)
          /\ \A k \in 1 .. Len(old) :
                w[k] = IF k \in at + 1 .. at + Len(xs) THEN xs[k - at] ELSE old[k]
      <4> HIDE DEF old
      <4>1. old \in Seq(Nat)
        BY <3>6 DEF old
      <4>5. at \in Nat
        BY <3>2
      <4>6. xs \in Seq(Nat)
        BY <3>5
      <4>2. Written(old, at, xs) \in Seq(Nat) /\ Len(Written(old, at, xs)) = Len(old)
        BY <4>1, <4>5, <4>6, WrittenNat
      <4>3. \A k \in 1 .. Len(old) :
                w[k] = IF k \in at + 1 .. at + Len(xs) THEN xs[k - at] ELSE old[k]
        BY <4>1, <4>5, <4>6, WrittenNat
      <4>4. QED
        BY <4>2, <4>3
    <3> HIDE DEF w
    <3>8. /\ mems'[b].bytes = w /\ mems'[b].type = mems[b].type
          /\ \A c \in 1 .. Len(mems) : c # b => mems'[c] = mems[c]
      BY <3>2, <3>3, <3>7, MemChanged DEF w
    <3>9. CASE a # b
      BY <1>2, <3>8, <3>9
    <3>10. CASE a = b
      <4>1. ASSUME NEW k \in 1 .. Len(m.bytes)
            PROVE  n.bytes[k] = m.bytes[k] \/ n.bytes[k] = job.inst
        <5>1. CASE k \in at + 1 .. at + Len(xs)
          <6>1. k - at \in 1 .. l
            BY <3>2, <3>5, <5>1
          <6>2. QED
            BY <3>5, <3>7, <3>8, <3>10, <5>1, <6>1
        <5>2. CASE k \notin at + 1 .. at + Len(xs)
          BY <3>7, <3>8, <3>10, <5>2
        <5>3. QED
          BY <5>1, <5>2
      <4>2. n.type = m.type /\ Len(n.bytes) = Len(m.bytes)
        BY <3>7, <3>8, <3>10
      <4>3. QED
        BY <3>1, <4>1, <4>2
    <3>11. QED
      BY <3>9, <3>10
  <2>3. QED
    BY <2>1, <2>2
<1>4. ASSUME NEW i, Effect(i)
      PROVE  n.type.has_max = m.type.has_max /\ n.type.max = m.type.max /\ (Kept \/ Larger)
  <2>1. CASE mems' = mems
    BY <1>2, <2>1
  <2>2. ASSUME NEW b \in 1 .. Len(mems), GrowMem(b)
        PROVE  n.type.has_max = m.type.has_max /\ n.type.max = m.type.max /\ (Kept \/ Larger)
    <3> DEFINE p == mems[b]
               q == [type |-> [min |-> p.type.min + 1, max |-> p.type.max, has_max |-> p.type.has_max],
                     bytes |-> p.bytes \o [k \in 1 .. PageSize |-> 0]]
    <3>1. /\ mems'[b] = q
          /\ \A c \in 1 .. Len(mems) : c # b => mems'[c] = mems[c]
          /\ Len(q.bytes) = Len(p.bytes) + PageSize
          /\ \A k \in 1 .. Len(p.bytes) : q.bytes[k] = p.bytes[k]
      BY <2>2, MemGrown
    <3>2. q.type.min = p.type.min + 1 /\ q.type.max = p.type.max /\ q.type.has_max = p.type.has_max
      OBVIOUS
    <3>3. p.type.has_max => p.type.min < p.type.max
      BY <2>2 DEF GrowMem
    <3> HIDE DEF q
    <3>4. CASE a # b
      BY <1>2, <3>1, <3>4
    <3>5. CASE a = b
      <4>1. n = q /\ m = p
        BY <3>1, <3>5
      <4>2. QED
        BY <3>1, <3>2, <3>3, <4>1
    <3>6. QED
      BY <3>4, <3>5
  <2>3. ASSUME NEW b \in 1 .. Len(tables),
               GrowTable(b) \/ \E k \in 1 .. MaxPages, f \in 1 .. Len(funcs) : SetTable(b, k, f)
        PROVE  mems' = mems
    BY <2>3 DEF GrowTable, SetTable
  <2>4. QED
    BY <1>4, <2>1, <2>2, <2>3, EffectIs DEF store
<1>5. ASSUME NEW k \in DOMAIN Modules, NEW name \in Ids \cup {NoName}, BeginInstantiate(k, name)
      PROVE  n = m
  <2> DEFINE f == NewMems(Modules[k])
  <2>1. mems' = mems \o f
    BY <1>5 DEF BeginInstantiate
  <2>2. f \in Seq(MemSet)
    BY NewMemsAre, LoaderAssumption
  <2> HIDE DEF f
  <2>3. \A c \in 1 .. Len(mems) : (mems \o f)[c] = mems[c]
    BY <1>1, <2>2, Joined
  <2>4. QED
    BY <2>1, <2>3
<1>6. CASE mems' = mems
  BY <1>2, <1>6
<1> HIDE DEF Kept, Larger
<1>7. n.type.has_max = m.type.has_max /\ n.type.max = m.type.max /\ (Kept \/ Larger)
  BY <1>2, <1>3, <1>4, <1>5, <1>6, MemsChangeWhen
<1>8. QED
  BY <1>7 DEF Kept, Larger

\* What BeginInstantiate adds.
LEMMA NewAfter ==
    ASSUME LInv, NEW m \in DOMAIN Modules, NEW name, BeginInstantiate(m, name)
    PROVE  LET M == Modules[m]
           IN  /\ Len(tables') = Len(tables) + Len(M.tables) /\ Len(M.tables) \in Nat
               /\ \A k \in 1 .. Len(M.tables) : tables'[Len(tables) + k] = NewTables(M)[k]
               /\ Len(mems') = Len(mems) + Len(M.mems) /\ Len(M.mems) \in Nat
               /\ \A k \in 1 .. Len(M.mems) : mems'[Len(mems) + k] = NewMems(M)[k]
               /\ \A a \in 1 .. Len(tables) : tables'[a] = tables[a]
               /\ \A a \in 1 .. Len(mems) : mems'[a] = mems[a]
<1> DEFINE M == Modules[m]
           f == NewTables(M)
           g == NewMems(M)
<1>1. IsModule(M)
  BY LoaderAssumption
<1>2. tables \in Seq(TableSet) /\ mems \in Seq(MemSet)
  BY DEF LInv, TypeOK
<1>3. f \in Seq(TableSet) /\ Len(f) = Len(M.tables) /\ g \in Seq(MemSet) /\ Len(g) = Len(M.mems)
  BY <1>1, NewTablesAre, NewMemsAre
<1>4. tables' = tables \o f /\ mems' = mems \o g
  BY DEF BeginInstantiate
<1>5. Len(M.tables) \in Nat /\ Len(M.mems) \in Nat
  BY <1>1, ModuleTyped
<1> HIDE DEF f, g, M
<1>6. Len(tables \o f) = Len(tables) + Len(f)
  BY <1>2, <1>3, Joined, ZenonT(40)
<1>7. \A k \in 1 .. Len(f) : (tables \o f)[Len(tables) + k] = f[k]
  BY <1>2, <1>3, Joined
<1>8. Len(mems \o g) = Len(mems) + Len(g)
  BY <1>2, <1>3, Joined, ZenonT(40)
<1>9. \A k \in 1 .. Len(g) : (mems \o g)[Len(mems) + k] = g[k]
  BY <1>2, <1>3, Joined
<1>10. \A a \in 1 .. Len(tables) : (tables \o f)[a] = tables[a]
  BY <1>2, <1>3, Joined
<1>11. \A a \in 1 .. Len(mems) : (mems \o g)[a] = mems[a]
  BY <1>2, <1>3, Joined
<1>12. QED
  BY <1>3, <1>4, <1>5, <1>6, <1>7, <1>8, <1>9, <1>10, <1>11 DEF M, f, g

\* An index into two sequences is one into the first or into the second.
LEMMA Ahead ==
    ASSUME NEW n \in Nat, NEW k \in Nat, NEW a \in 1 .. n + k
    PROVE  a \in 1 .. n \/ (a - n \in 1 .. k /\ n + (a - n) = a)
  OBVIOUS

\* No other step makes tables or memories.
LEMMA NoneMade ==
    ASSUME LInv, [Next]_vars,
           ~ \E m \in DOMAIN Modules, name \in Ids \cup {NoName} : BeginInstantiate(m, name)
    PROVE  Len(tables') = Len(tables) /\ Len(mems') = Len(mems)
<1>1. ASSUME NEW i, Effect(i)
      PROVE  Len(tables') = Len(tables) /\ Len(mems') = Len(mems)
  <2>1. CASE UNCHANGED store
    BY <2>1 DEF store
  <2>2. ASSUME NEW a \in 1 .. Len(tables), GrowTable(a)
        PROVE  Len(tables') = Len(tables) /\ Len(mems') = Len(mems)
    BY <2>2 DEF GrowTable, LInv, TypeOK
  <2>3. ASSUME NEW a \in 1 .. Len(tables), NEW k \in 1 .. MaxPages, NEW f \in 1 .. Len(funcs),
               SetTable(a, k, f)
        PROVE  Len(tables') = Len(tables) /\ Len(mems') = Len(mems)
    BY <2>3 DEF SetTable, LInv, TypeOK
  <2>4. ASSUME NEW a \in 1 .. Len(mems), GrowMem(a)
        PROVE  Len(tables') = Len(tables) /\ Len(mems') = Len(mems)
    <3>1. Len(mems') = Len(mems)
      BY <2>4, MemGrown
    <3>2. QED
      BY <2>4, <3>1 DEF GrowMem
  <2>5. QED
    BY <1>1, <2>1, <2>2, <2>3, <2>4, EffectIs
<1>2. ASSUME InitTables
      PROVE  Len(tables') = Len(tables)
  BY <1>2 DEF InitTables, InitTable, LInv, TypeOK
<1>3. ASSUME InitMems
      PROVE  Len(mems') = Len(mems)
  BY <1>3 DEF InitMems, InitMem, LInv, TypeOK
<1>4. QED
  BY <1>1, <1>2, <1>3, TablesChangeWhen, MemsChangeWhen

\* The size of one more page.
LEMMA TimesNext ==
    ASSUME NEW n \in Nat, NEW p \in Nat
    PROVE  (n + 1) * p = n * p + p
  OBVIOUS

\* More pages are more bytes.
LEMMA TimesMore ==
    ASSUME NEW p \in Nat
    PROVE  /\ \A a, b \in Nat : a <= b => a * p <= b * p
           /\ \A a, b \in Nat : a < b /\ p > 0 => a * p < b * p
<1>1. \A a, c \in Nat : a * p <= (a + c) * p /\ (c > 0 /\ p > 0 => a * p < (a + c) * p)
  <2> SUFFICES ASSUME NEW a \in Nat, NEW c \in Nat
               PROVE  a * p <= (a + c) * p /\ (c > 0 /\ p > 0 => a * p < (a + c) * p)
    OBVIOUS
  <2>1. (a + c) * p = a * p + c * p
    OBVIOUS
  <2>2. a * p \in Nat /\ c * p \in Nat /\ (c > 0 /\ p > 0 => c * p > 0)
    OBVIOUS
  <2>3. \A x, y, z \in Nat : z = x + y => x <= z /\ (y > 0 => x < z)
    OBVIOUS
  <2>4. (a + c) * p \in Nat
    OBVIOUS
  <2> DEFINE x == a * p  y == c * p  z == (a + c) * p
  <2>5. x \in Nat /\ y \in Nat /\ z \in Nat /\ z = x + y /\ (c > 0 /\ p > 0 => y > 0)
    BY <2>1, <2>2, <2>4
  <2> HIDE DEF x, y, z
  <2>6. x <= z /\ (c > 0 /\ p > 0 => x < z)
    BY <2>3, <2>5
  <2>7. QED
    BY <2>6 DEF x, z
<1>2. \A a, b \in Nat : a <= b => b - a \in Nat /\ b = a + (b - a) /\ (a < b => b - a > 0)
  OBVIOUS
<1>3. ASSUME NEW a \in Nat, NEW b \in Nat, a <= b
      PROVE  a * p <= b * p /\ (a < b /\ p > 0 => a * p < b * p)
  <2>1. PICK c \in Nat : b = a + c /\ (a < b => c > 0)
    BY <1>2, <1>3
  <2>2. QED
    BY <1>1, <2>1
<1>4. QED
  BY <1>3

\* The sizes of a table are numbers.
LEMMA SizesOfTable ==
    ASSUME NEW t \in TableSet
    PROVE  /\ t.type.min \in Nat /\ t.type.max \in Nat /\ t.type.has_max \in BOOLEAN
           /\ Len(t.elem) \in Nat
<1>1. t.type \in LimitsType /\ t.elem \in Seq(Nat)
  BY DEF TableSet
<1>2. QED
  BY <1>1 DEF LimitsType

\* The sizes of a memory are numbers.
LEMMA SizesOfMem ==
    ASSUME NEW m \in MemSet
    PROVE  /\ m.type.min \in Nat /\ m.type.max \in Nat /\ m.type.has_max \in BOOLEAN
           /\ Len(m.bytes) \in Nat
<1>1. m.type \in LimitsType /\ m.bytes \in Seq(Nat)
  BY DEF MemSet
<1>2. QED
  BY <1>1 DEF LimitsType

\* Every step keeps the sizes: growing never exceeds a maximum (growtable, growmem).
LEMMA SizedNext ==
    ASSUME LInv, Sized, [Next]_vars
    PROVE  Sized'
<1>1. LInv'
  BY NextOK
<1>2. /\ tables \in Seq(TableSet) /\ mems \in Seq(MemSet)
      /\ tables' \in Seq(TableSet) /\ mems' \in Seq(MemSet)
  BY <1>1 DEF LInv, TypeOK
<1>3. PageSize \in Nat
  BY LoaderAssumption
<1>4. ASSUME NEW a \in 1 .. Len(tables), tables'[a] \in TableSet
      PROVE  SizedTable(tables'[a])
  <2>1. tables[a] \in TableSet
    BY <1>2
  <2>2. SizedTable(tables[a])
    BY DEF Sized
  <2>3. QED
    BY <1>4, <2>1, <2>2, TableAfter, SizesOfTable, SMTT(40) DEF SizedTable
<1>5. ASSUME NEW a \in 1 .. Len(mems), mems'[a] \in MemSet
      PROVE  SizedMem(mems'[a])
  <2> DEFINE m == mems[a]
             n == mems'[a]
  <2>1. m \in MemSet
    BY <1>2
  <2>2. SizedMem(m)
    BY DEF Sized
  <2>3. /\ n.type.has_max = m.type.has_max /\ n.type.max = m.type.max
        /\ \/ n.type.min = m.type.min /\ Len(n.bytes) = Len(m.bytes)
           \/ /\ n.type.min = m.type.min + 1 /\ Len(n.bytes) = Len(m.bytes) + PageSize
              /\ m.type.has_max => m.type.min < m.type.max
    BY MemAfter
  <2> HIDE DEF m, n
  <2>4. m.type.min \in Nat /\ m.type.max \in Nat /\ m.type.has_max \in BOOLEAN
    BY <2>1, SizesOfMem
  <2>5. ASSUME n.type.min = m.type.min /\ Len(n.bytes) = Len(m.bytes)
        PROVE  SizedMem(n)
    BY <2>2, <2>3, <2>5 DEF SizedMem
  <2>6. ASSUME n.type.min = m.type.min + 1, Len(n.bytes) = Len(m.bytes) + PageSize,
               m.type.has_max => m.type.min < m.type.max
        PROVE  SizedMem(n)
    <3>1. Len(n.bytes) = n.type.min * PageSize
      <4>1. (m.type.min + 1) * PageSize = m.type.min * PageSize + PageSize
        BY <1>3, <2>4, TimesNext
      <4>2. QED
        BY <2>2, <2>6, <4>1 DEF SizedMem
    <3>2. n.type.has_max => n.type.min <= n.type.max
      BY <2>3, <2>4, <2>6
    <3>3. QED
      BY <3>1, <3>2 DEF SizedMem
  <2>7. SizedMem(n)
    BY <2>3, <2>5, <2>6
  <2>8. QED
    BY <2>7 DEF n
<1>6. CASE \E m \in DOMAIN Modules, name \in Ids \cup {NoName} : BeginInstantiate(m, name)
  <2>1. PICK m \in DOMAIN Modules, name \in Ids \cup {NoName} : BeginInstantiate(m, name)
    BY <1>6
  <2> DEFINE M == Modules[m]
  <2>2. IsModule(M) /\ Valid(M)
    BY <2>1, LoaderAssumption DEF BeginInstantiate, ValidModules
  <2>3. /\ Len(tables') = Len(tables) + Len(M.tables) /\ Len(M.tables) \in Nat
        /\ \A k \in 1 .. Len(M.tables) : tables'[Len(tables) + k] = NewTables(M)[k]
        /\ Len(mems') = Len(mems) + Len(M.mems) /\ Len(M.mems) \in Nat
        /\ \A k \in 1 .. Len(M.mems) : mems'[Len(mems) + k] = NewMems(M)[k]
    BY <2>1, NewAfter
  <2>4. M.tables \in Seq(LimitsType) /\ M.mems \in Seq(LimitsType)
    BY <2>2 DEF IsModule
  <2>5. ASSUME NEW k \in 1 .. Len(M.tables)
        PROVE  SizedTable(NewTables(M)[k])
    <3>1. /\ NewTables(M)[k].type = M.tables[k]
          /\ Len(NewTables(M)[k].elem) = M.tables[k].min
      BY <2>2, NewTablesAre
    <3>2. M.tables[k] \in LimitsType /\ M.tables[k] \in Elems(M.tables)
      BY <2>4 DEF Elems
    <3>3. ValidTable(M.tables[k])
      BY <2>2, <3>2 DEF Valid
    <3>4. M.tables[k].min \in Nat
      BY <3>2 DEF LimitsType
    <3>5. QED
      BY <3>1, <3>3, <3>4 DEF ValidTable, SizedTable
  <2>6. ASSUME NEW k \in 1 .. Len(M.mems)
        PROVE  SizedMem(NewMems(M)[k])
    <3>1. /\ NewMems(M)[k].type = M.mems[k]
          /\ Len(NewMems(M)[k].bytes) = M.mems[k].min * PageSize
      BY <2>2, NewMemsAre
    <3>2. M.mems[k] \in LimitsType /\ M.mems[k] \in Elems(M.mems)
      BY <2>4 DEF Elems
    <3>3. ValidMem(M.mems[k])
      BY <2>2, <3>2 DEF Valid
    <3>4. QED
      BY <3>1, <3>3 DEF ValidMem, Limited, SizedMem
  <2> HIDE DEF M
  <2>7. Len(tables) \in Nat /\ Len(mems) \in Nat
    BY <1>2
  <2>8. ASSUME NEW a \in 1 .. Len(tables')
        PROVE  SizedTable(tables'[a])
    <3>1. tables'[a] \in TableSet
      BY <1>2
    <3>2. a \in 1 .. Len(tables) \/ (a - Len(tables) \in 1 .. Len(M.tables) /\ Len(tables) + (a - Len(tables)) = a)
      BY <2>3, <2>7, Ahead
    <3>3. CASE a \in 1 .. Len(tables)
      BY <1>4, <3>1, <3>3
    <3>4. CASE a - Len(tables) \in 1 .. Len(M.tables) /\ Len(tables) + (a - Len(tables)) = a
      BY <2>3, <2>5, <3>4
    <3>5. QED
      BY <3>2, <3>3, <3>4
  <2>9. ASSUME NEW a \in 1 .. Len(mems')
        PROVE  SizedMem(mems'[a])
    <3>1. mems'[a] \in MemSet
      BY <1>2
    <3>2. a \in 1 .. Len(mems) \/ (a - Len(mems) \in 1 .. Len(M.mems) /\ Len(mems) + (a - Len(mems)) = a)
      BY <2>3, <2>7, Ahead
    <3>3. CASE a \in 1 .. Len(mems)
      BY <1>5, <3>1, <3>3
    <3>4. CASE a - Len(mems) \in 1 .. Len(M.mems) /\ Len(mems) + (a - Len(mems)) = a
      BY <2>3, <2>6, <3>4
    <3>5. QED
      BY <3>2, <3>3, <3>4
  <2>10. QED
    BY <2>8, <2>9 DEF Sized
<1>7. CASE ~ \E m \in DOMAIN Modules, name \in Ids \cup {NoName} : BeginInstantiate(m, name)
  <2>1. Len(tables') = Len(tables) /\ Len(mems') = Len(mems)
    BY <1>7, NoneMade
  <2>2. /\ \A a \in 1 .. Len(tables') : tables'[a] \in TableSet
        /\ \A a \in 1 .. Len(mems') : mems'[a] \in MemSet
    BY <1>2
  <2>3. QED
    BY <1>4, <1>5, <2>1, <2>2 DEF Sized
<1>8. QED
  BY <1>6, <1>7

-----------------------------------------------------------------------------
(* Imports.                                                                *)

\* What match_limits asks.
LEMMA LimitsKept ==
    ASSUME NEW l \in LimitsType, NEW k \in LimitsType, match_limits(l, k)
    PROVE  l.min >= k.min /\ (k.has_max => l.has_max /\ l.max <= k.max)
  BY DEF match_limits

\* With types that stay and sizes within their limits, imports stay matched.
LEMMA ImportsKept ==
    ASSUME LInv, Sized
    PROVE  ImportsStayMatched
<1> SUFFICES ASSUME NEW r \in Elems(insts), NEW kind \in Kinds,
                    NEW n \in DOMAIN OfKind(Modules[r.module].imports, kind)
             PROVE  Satisfied(Modules[r.module], OfKind(Modules[r.module].imports, kind)[n],
                              AddressOf(r, kind)[n])
  BY DEF ImportsStayMatched
<1> DEFINE M == Modules[r.module]
           ds == OfKind(M.imports, kind)
           d == ds[n]
           a == AddressOf(r, kind)[n]
<1>1. insts \in Seq(InstSet) /\ tables \in Seq(TableSet) /\ mems \in Seq(MemSet)
      /\ job \in {Idle} \cup JobSet
  BY DEF LInv, TypeOK
<1>2. PICK i \in 1 .. Len(insts) : r = insts[i]
  BY <1>1, SequenceOfElems
<1>3. r \in InstSet /\ IsModule(M)
  BY <1>1, <1>2, InstTyped
<1> DEFINE g == GlobalsOf(M, i, job)
           e == ElemsOf(M, i, job)
<1>4. g \in Nat /\ InstOK(r, g, e, Store)
  BY <1>1, <1>2, <1>3, GlobalsNat DEF LInv, InstsOK
<1> HIDE DEF g, e
<1>5. Held(r, Store) /\ FilledTo(r, g, e) /\ ImportsFit(r, Store)
  BY <1>4 DEF InstOK
<1>6. n \in 1 .. Len(ds) /\ d.kind = kind /\ IsImport(d)
  BY <1>3, ImportsOfKind, ZenonT(40)
<1>7. Fits(M, d, a, Store)
  BY <1>5, <1>6 DEF ImportsFit
<1>8. a \in Addrs(Store, kind)
  <2>1. a \in Elems(AddressOf(r, kind))
    BY <1>3, <1>4, <1>5, <1>6, ImportAddress
  <2>2. QED
    BY <1>5, <2>1 DEF Held
<1> HIDE DEF M, ds, a, d
<1>9. ASSUME kind = "func"
      PROVE  Satisfied(M, d, a)
  BY <1>6, <1>7, <1>9, StoreFields DEF Fits, Satisfied
<1>10. ASSUME kind = "global"
       PROVE  Satisfied(M, d, a)
  BY <1>6, <1>7, <1>10, StoreFields DEF Fits, Satisfied
<1>11. ASSUME kind = "table"
       PROVE  Satisfied(M, d, a)
  <2>1. a \in 1 .. Len(tables)
    BY <1>8, <1>11, StoreFields DEF Addrs
  <2>2. match_limits(tables[a].type, d.desc) /\ d.desc \in LimitsType
    BY <1>6, <1>7, <1>11, StoreFields DEF Fits, IsImport
  <2>3. tables[a] \in TableSet /\ SizedTable(tables[a])
    BY <1>1, <2>1 DEF Sized
  <2>4. tables[a].type \in LimitsType
    BY <2>3 DEF TableSet
  <2>5. d.desc.min \in Nat /\ d.desc.max \in Nat
    BY <2>2 DEF LimitsType
  <2>8. /\ tables[a].type.min \in Nat /\ tables[a].type.max \in Nat
        /\ tables[a].type.has_max \in BOOLEAN /\ Len(tables[a].elem) \in Nat
    BY <2>3, SizesOfTable
  <2>9. /\ tables[a].type.min >= d.desc.min
        /\ d.desc.has_max => tables[a].type.has_max /\ tables[a].type.max <= d.desc.max
    BY <2>2, <2>4, LimitsKept
  <2>6. /\ Len(tables[a].elem) >= d.desc.min
        /\ d.desc.has_max => Len(tables[a].elem) <= d.desc.max
    BY <2>3, <2>5, <2>8, <2>9, SMTT(40) DEF SizedTable
  <2>7. QED
    BY <1>6, <1>11, <2>6 DEF Satisfied
<1>12. ASSUME kind = "mem"
       PROVE  Satisfied(M, d, a)
  <2>1. a \in 1 .. Len(mems)
    BY <1>8, <1>12, StoreFields DEF Addrs
  <2>2. match_limits(mems[a].type, d.desc) /\ d.desc \in LimitsType
    BY <1>6, <1>7, <1>12, StoreFields DEF Fits, IsImport
  <2>3. mems[a] \in MemSet /\ SizedMem(mems[a])
    BY <1>1, <2>1 DEF Sized
  <2>4. mems[a].type \in LimitsType
    BY <2>3 DEF MemSet
  <2>5. d.desc.min \in Nat /\ d.desc.max \in Nat
    BY <2>2 DEF LimitsType
  <2>6. /\ d.desc.min <= mems[a].type.min
        /\ d.desc.has_max => mems[a].type.min <= d.desc.max
    BY <2>2, <2>3, <2>4, <2>5, SizesOfMem, LimitsKept, SMTT(40) DEF SizedMem
  <2>7. mems[a].type.min \in Nat /\ PageSize \in Nat
    BY <2>3, SizesOfMem, LoaderAssumption
  <2>8. /\ d.desc.min * PageSize <= mems[a].type.min * PageSize
        /\ d.desc.has_max => mems[a].type.min * PageSize <= d.desc.max * PageSize
    BY <2>5, <2>6, <2>7, TimesMore
  <2>9. Len(mems[a].bytes) = mems[a].type.min * PageSize
    BY <2>3 DEF SizedMem
  <2>10. d.desc.min * PageSize \in Nat /\ d.desc.max * PageSize \in Nat
         /\ mems[a].type.min * PageSize \in Nat
    BY <2>5, <2>7, SMTT(40)
  <2>11. \A x, y \in Nat : x <= y => y >= x
    OBVIOUS
  <2>12. /\ Len(mems[a].bytes) >= d.desc.min * PageSize
         /\ d.desc.has_max => Len(mems[a].bytes) <= d.desc.max * PageSize
    <3> DEFINE x == d.desc.min * PageSize
               y == d.desc.max * PageSize
               z == mems[a].type.min * PageSize
    <3>1. x \in Nat /\ y \in Nat /\ z \in Nat /\ x <= z /\ (d.desc.has_max => z <= y)
          /\ Len(mems[a].bytes) = z
      BY <2>8, <2>9, <2>10
    <3> HIDE DEF x, y, z
    <3>2. Len(mems[a].bytes) >= x /\ (d.desc.has_max => Len(mems[a].bytes) <= y)
      BY <2>11, <3>1
    <3>3. QED
      BY <3>2 DEF x, y
  <2>13. QED
    BY <1>6, <1>12, <2>12 DEF Satisfied
<1>13. Satisfied(M, d, a)
  BY <1>9, <1>10, <1>11, <1>12 DEF Kinds
<1>14. QED
  BY <1>13 DEF M, ds, d, a

\* The sizes, with the invariant.
LEMMA SizedHolds == Spec => [](LInv /\ Sized)
<1>1. Init => LInv /\ Sized
  <2>1. Init => Sized
    BY DEF Init, Sized
  <2>2. QED
    BY <2>1, InitOK
<1>2. (LInv /\ Sized) /\ [Next]_vars => (LInv /\ Sized)'
  BY NextOK, SizedNext
<1>3. QED
  BY <1>1, <1>2, PTL DEF Spec

\* What an instance imported keeps the size and the type that were checked when
\* it was linked (resolve_imports, instantiate).
THEOREM SpecImports == Spec => []ImportsStayMatched
<1>1. LInv /\ Sized => ImportsStayMatched
  BY ImportsKept
<1>2. QED
  BY <1>1, SizedHolds, PTL

-----------------------------------------------------------------------------
(* Refused modules.                                                        *)

\* The verdict stays, or is that of the step.
LEMMA VerdictWhen ==
    ASSUME LInv, [Next]_vars, verdict'.what = "unlinkable"
    PROVE  \/ UNCHANGED vars
           \/ \E m \in DOMAIN Modules : AssertUnlinkable(m)
<1>1. ASSUME NEW m \in DOMAIN Modules, AssertInvalid(m)
      PROVE  FALSE
  BY <1>1 DEF AssertInvalid, Refuse, Said
<1>2. ASSUME NEW m \in DOMAIN Modules, NEW name, BeginInstantiate(m, name)
      PROVE  FALSE
  BY <1>2 DEF BeginInstantiate, Said
<1>3. ASSUME Instantiate
      PROVE  FALSE
  <2>1. job.step # "idle"
    BY <1>3 DEF Instantiate, AllocGlobal, AllocElem, CreateExports, InitTables, InitMems, Start,
                CreateTestModule
  <2>2. verdict.what = "linked"
    BY <2>1, JobFacts DEF LInv, JobOK
  <2>3. verdict' = verdict \/ Fail \/ CreateTestModule
    <3>1. CASE AllocGlobal \/ AllocElem \/ CreateExports
      BY <3>1 DEF AllocGlobal, AllocElem, CreateExports, host
    <3>2. CASE InitTables
      <4>1. CASE job.i > Len(Mod.elems)
        BY <3>2, <4>1 DEF InitTables
      <4>2. CASE ~(job.i > Len(Mod.elems))
        <5>0. job.step = "tables" /\ job.i <= Len(Mod.elems)
          <6>1. job.step = "tables" /\ job.i \in Nat /\ Len(Mod.elems) \in Nat
            BY <3>2, <2>1, JobIndex DEF InitTables
          <6>2. QED
            BY <4>2, <6>1
        <5>1. Mod.elems[job.i].mode \in {"active", "passive", "declarative"}
          BY <5>0, ElemSegment
        <5>2. CASE Mod.elems[job.i].mode = "active"
          <6>1. InitTable
            BY <3>2, <4>2, <5>2 DEF InitTables
          <6>2. QED
            BY <6>1 DEF InitTable
        <5>3. CASE Mod.elems[job.i].mode # "active"
          BY <3>2, <4>2, <5>1, <5>3 DEF InitTables
        <5>4. QED
          BY <5>2, <5>3
      <4>3. QED
        BY <4>1, <4>2
    <3>3. CASE InitMems
      BY <3>3 DEF InitMems, InitMem
    <3>4. CASE Start
      BY <3>4 DEF Start
    <3>5. QED
      BY <1>3, <3>1, <3>2, <3>3, <3>4 DEF Instantiate
  <2>4. CASE verdict' = verdict
    BY <2>2, <2>4
  <2>5. CASE Fail \/ CreateTestModule
    BY <2>5 DEF Fail, CreateTestModule, Said
  <2>6. QED
    BY <2>3, <2>4, <2>5
<1>4. ASSUME NEW name, Register(name) \/ Invoke(name)
      PROVE  FALSE
  BY <1>4 DEF Register, Invoke, Said
<1>5. QED
  BY <1>1, <1>2, <1>3, <1>4 DEF Next

\* What does not match is a misfit.
LEMMA Unmatched ==
    ASSUME LInv, Sized, NEW M, NEW d, IsImport(d), NEW e \in ExportSet, e.addr \in Addrs(Store, e.kind),
           ~Matches(M, d, e)
    PROVE  Misfit(M, d, e)
<1>1. CASE e.kind # d.kind
  BY <1>1 DEF Misfit
<1>2. CASE e.kind = d.kind /\ d.kind \in {"func", "global"}
  <2>1. ~Satisfied(M, d, e.addr)
    <3>1. CASE d.kind = "func"
      BY <1>2, <3>1 DEF Matches, Satisfied
    <3>2. CASE d.kind = "global"
      BY <1>2, <3>2 DEF Matches, Satisfied
    <3>3. QED
      BY <1>2, <3>1, <3>2
  <2>2. QED
    BY <1>2, <2>1 DEF Misfit
<1>3. CASE e.kind = d.kind /\ d.kind = "table"
  <2>1. tables[e.addr] \in TableSet /\ d.desc \in LimitsType
    <3>1. e.addr \in 1 .. Len(tables)
      BY <1>3, StoreFields DEF Addrs
    <3>2. tables \in Seq(TableSet)
      BY DEF LInv, TypeOK
    <3>3. d.desc \in LimitsType
      BY <1>3 DEF IsImport
    <3>4. QED
      BY <3>1, <3>2, <3>3
  <2>2. ~match_limits(tables[e.addr].type, d.desc)
    BY <1>3 DEF Matches
  <2> DEFINE l == tables[e.addr].type
  <2>3. l \in LimitsType
    BY <2>1 DEF TableSet
  <2> HIDE DEF l
  <2>4. l.min < d.desc.min \/ (d.desc.has_max /\ (l.has_max => l.max > d.desc.max))
    <3>1. ~match_limits(l, d.desc)
      BY <2>2 DEF l
    <3>2. QED
      BY <2>1, <2>3, <3>1 DEF match_limits, LimitsType
  <2>5. QED
    BY <1>3, <2>4 DEF Misfit, l
<1>4. CASE e.kind = d.kind /\ d.kind = "mem"
  <2>1. /\ mems[e.addr] \in MemSet /\ d.desc \in LimitsType /\ SizedMem(mems[e.addr])
    <3>1. e.addr \in 1 .. Len(mems)
      BY <1>4, StoreFields DEF Addrs
    <3>2. mems \in Seq(MemSet)
      BY DEF LInv, TypeOK
    <3>3. d.desc \in LimitsType
      BY <1>4 DEF IsImport
    <3>4. QED
      BY <3>1, <3>2, <3>3 DEF Sized
  <2>2. ~match_limits(mems[e.addr].type, d.desc)
    BY <1>4 DEF Matches
  <2> DEFINE l == mems[e.addr].type
  <2>3. l \in LimitsType
    BY <2>1 DEF MemSet
  <2>4. Len(mems[e.addr].bytes) = l.min * PageSize
    BY <2>1 DEF SizedMem
  <2> HIDE DEF l
  <2>5. l.min < d.desc.min \/ (d.desc.has_max /\ (l.has_max => l.max > d.desc.max))
    <3>1. ~match_limits(l, d.desc)
      BY <2>2 DEF l
    <3>2. QED
      BY <2>1, <2>3, <3>1 DEF match_limits, LimitsType
  <2>6. CASE l.min < d.desc.min
    <3>1. l.min \in Nat /\ d.desc.min \in Nat /\ PageSize \in Nat /\ PageSize > 0
      BY <2>1, <2>3, LoaderAssumption DEF LimitsType
    <3>2. l.min * PageSize < d.desc.min * PageSize
      BY <2>6, <3>1, TimesMore
    <3> DEFINE x == l.min * PageSize
               y == d.desc.min * PageSize
    <3>3. x \in Nat /\ y \in Nat /\ x < y /\ Len(mems[e.addr].bytes) = x
      BY <2>4, <3>1, <3>2
    <3> HIDE DEF x, y
    <3>4. ~(Len(mems[e.addr].bytes) >= y)
      BY <3>3
    <3>5. ~Satisfied(M, d, e.addr)
      BY <1>4, <3>4 DEF Satisfied, y
    <3>6. QED
      BY <1>4, <3>5 DEF Misfit
  <2>7. CASE d.desc.has_max /\ (l.has_max => l.max > d.desc.max)
    BY <1>4, <2>7 DEF Misfit, l
  <2>8. QED
    BY <2>5, <2>6, <2>7
<1>5. e.kind \in Kinds
  BY DEF ExportSet
<1>6. QED
  BY <1>1, <1>2, <1>3, <1>4, <1>5 DEF Kinds

\* Every refusal is of a module that was, at that moment, a misfit.
LEMMA RefusedNext ==
    ASSUME LInv, Sized, RefusesOnlyMisfits, [Next]_vars
    PROVE  RefusesOnlyMisfits'
<1> SUFFICES ASSUME verdict'.what = "unlinkable"
             PROVE  (\E d \in Elems(Modules[verdict.module].imports) :
                        Export(d) = <<>> \/ Misfit(Modules[verdict.module], d, Head(Export(d))))'
  BY DEF RefusesOnlyMisfits
<1>1. ASSUME UNCHANGED <<store, insts, host>>
      PROVE  \A M, d : /\ Export(d)' = Export(d)
                       /\ Misfit(M, d, Head(Export(d)))' = Misfit(M, d, Head(Export(d)))
  <2>1. ASSUME NEW M, NEW d
        PROVE  Export(d)' = Export(d)
    BY <1>1 DEF Export, FindExport, FindExported, host
  <2>2. ASSUME NEW M, NEW d
        PROVE  Misfit(M, d, Head(Export(d)))' = Misfit(M, d, Head(Export(d)))
    <3> DEFINE e == Head(Export(d))
    <3>1. e' = e
      BY <2>1
    <3> HIDE DEF e
    <3>2. Misfit(M, d, e)' = Misfit(M, d, e)
      BY <1>1, <3>1 DEF Misfit, Satisfied, store
    <3>3. QED
      BY <3>2 DEF e
  <2>3. QED
    BY <2>1, <2>2
<1>2. CASE UNCHANGED vars
  <2>1. UNCHANGED <<store, insts, host>> /\ verdict' = verdict
    BY <1>2 DEF vars
  <2>2. PICK d \in Elems(Modules[verdict.module].imports) :
           Export(d) = <<>> \/ Misfit(Modules[verdict.module], d, Head(Export(d)))
    BY <2>1 DEF RefusesOnlyMisfits
  <2>3. QED
    BY <1>1, <2>1, <2>2
<1>3. ASSUME NEW m \in DOMAIN Modules, AssertUnlinkable(m)
      PROVE  (\E d \in Elems(Modules[verdict.module].imports) :
                 Export(d) = <<>> \/ Misfit(Modules[verdict.module], d, Head(Export(d))))'
  <2> DEFINE M == Modules[m]
  <2>1. /\ UNCHANGED <<store, insts, host>> /\ verdict'.module = m
        /\ NamesKnown(M) /\ ~Resolved(M)
    BY <1>3 DEF AssertUnlinkable, Refuse, Said
  <2>2. PICK d \in Elems(M.imports) : Export(d) = <<>> \/ ~Matches(M, d, Head(Export(d)))
    BY <2>1 DEF Resolved
  <2>3. Export(d) = <<>> \/ Misfit(M, d, Head(Export(d)))
    <3>1. CASE Export(d) # <<>>
      <4>1. IsImport(d)
        BY LoaderAssumption DEF IsModule
      <4>2. FindExported(d.from) # NULL
        BY <2>1 DEF NamesKnown
      <4>3. Head(Export(d)) \in ExportSet /\ Head(Export(d)).addr \in Addrs(Store, Head(Export(d)).kind)
        BY <3>1, <4>2, ExportFound
      <4>4. ~Matches(M, d, Head(Export(d)))
        BY <2>2, <3>1
      <4> HIDE DEF M
      <4>5. QED
        BY <4>1, <4>3, <4>4, Unmatched
    <3>2. QED
      BY <3>1
  <2> DEFINE Ms == Modules[verdict.module]
  <2>4. QED
    BY <1>1, <2>1, <2>2, <2>3
<1>4. QED
  BY <1>2, <1>3, VerdictWhen

\* A module is called unlinkable only if one of its imports is missing or does
\* not fit what is in the store (match_limits, resolve_imports).
THEOREM SpecRefuses == Spec => []RefusesOnlyMisfits
<1>1. Init => RefusesOnlyMisfits
  BY DEF Init, RefusesOnlyMisfits, Said
<1>2. (LInv /\ Sized) /\ RefusesOnlyMisfits /\ [Next]_vars => RefusesOnlyMisfits'
  BY RefusedNext
<1>3. QED
  BY <1>1, <1>2, SizedHolds, PTL DEF Spec

-----------------------------------------------------------------------------
(* What an instantiation touches.                                          *)

Touches ==
    /\ \A a \in DOMAIN tables \ Elems(Inst.tableaddrs) : tables'[a] = tables[a]
    /\ \A a \in DOMAIN mems \ Elems(Inst.memaddrs) : mems'[a] = mems[a]
    /\ \A i \in DOMAIN insts \ {job.inst} : insts'[i] = insts[i]
    /\ verdict'.what = "trapped" => UNCHANGED store

\* table_init writes the table of the active segment only.
LEMMA InitTableLocal ==
    ASSUME LInv, InitTables
    PROVE  Touches
<1>1. job.step = "tables" /\ job.i \in Nat /\ Len(Mod.elems) \in Nat
  BY JobIndex DEF InitTables
<1>2. verdict.what # "trapped"
  BY <1>1, JobFacts DEF LInv, JobOK
<1>3. UNCHANGED <<funcs, mems, globals, datas, insts>>
  BY DEF InitTables
<1>4. CASE tables' = tables /\ verdict' = verdict
  BY <1>2, <1>3, <1>4 DEF Touches
<1>5. CASE /\ job.i <= Len(Mod.elems) /\ Mod.elems[job.i].mode = "active"
  <2>1. InitTable
    BY <1>1, <1>5 DEF InitTables
  <2> DEFINE e == Mod.elems[job.i]
             b == Inst.elemaddrs[job.i]
             t == At(Inst.tableaddrs, e.table)
             at == Eval(e.offset)
  <2>2. t \in Elems(Inst.tableaddrs) /\ t \in 1 .. Len(tables)
    BY <1>1, <1>5, ElemSegment, SMTT(40)
  <2>3. \/ tables' = tables /\ elems' = elems
        \/ /\ tables' = [tables EXCEPT ![t].elem = Written(@, at, elems[b])]
           /\ verdict' = verdict
    BY <2>1 DEF InitTable
  <2> HIDE DEF t, at, b
  <2>4. CASE tables' = tables /\ elems' = elems
    BY <1>3, <2>4 DEF Touches, store
  <2>5. CASE /\ tables' = [tables EXCEPT ![t].elem = Written(@, at, elems[b])]
             /\ verdict' = verdict
    <3>1. \A a \in DOMAIN tables : a # t => tables'[a] = tables[a]
      BY <2>5
    <3>2. QED
      BY <1>2, <1>3, <2>2, <2>5, <3>1 DEF Touches
  <2>6. QED
    BY <2>3, <2>4, <2>5
<1>6. CASE ~(job.i <= Len(Mod.elems) /\ Mod.elems[job.i].mode = "active")
  <2>1. CASE job.i > Len(Mod.elems)
    BY <1>4, <2>1 DEF InitTables
  <2>2. CASE ~(job.i > Len(Mod.elems))
    <3>1. job.i <= Len(Mod.elems)
      BY <1>1, <2>2
    <3>2. Mod.elems[job.i].mode \in {"active", "passive", "declarative"}
      BY <1>1, <3>1, ElemSegment
    <3>3. QED
      BY <1>4, <1>6, <2>2, <3>1, <3>2 DEF InitTables
  <2>3. QED
    BY <2>1, <2>2
<1>7. QED
  BY <1>5, <1>6

\* memory_init writes the memory of the active segment only.
LEMMA InitMemLocal ==
    ASSUME LInv, InitMems
    PROVE  Touches
<1>1. job.step = "mems" /\ job.i \in Nat /\ Len(Mod.datas) \in Nat
  BY JobIndex DEF InitMems
<1>2. verdict.what # "trapped"
  BY <1>1, JobFacts DEF LInv, JobOK
<1>3. UNCHANGED <<funcs, tables, globals, elems, datas, insts>>
  BY DEF InitMems
<1>4. CASE mems' = mems
  BY <1>3, <1>4 DEF Touches, store
<1>5. CASE mems' # mems
  <2>1. ~(job.i > Len(Mod.datas)) /\ Mod.datas[job.i].mode = "active" /\ InitMem
    BY <1>5 DEF InitMems
  <2> DEFINE b == At(Inst.memaddrs, 0)
             at == Eval(Mod.datas[job.i].offset)
             xs == [k \in 1 .. datas[Inst.dataaddrs[job.i]] |-> job.inst]
  <2>2. b \in Elems(Inst.memaddrs)
    <3>1. job.i <= Len(Mod.datas)
      BY <1>1, <2>1
    <3>2. QED
      BY <1>1, <2>1, <3>1, DataSegment
  <2>3. mems' = [mems EXCEPT ![b].bytes = Written(@, at, xs)] /\ verdict' = verdict
    BY <1>5, <2>1 DEF InitMem
  <2> HIDE DEF b, at, xs
  <2>4. \A a \in DOMAIN mems : a # b => mems'[a] = mems[a]
    BY <2>3
  <2>5. QED
    BY <1>2, <1>3, <2>2, <2>3, <2>4 DEF Touches
<1>6. QED
  BY <1>4, <1>5

\* The loops that allocate write no table and no memory.
LEMMA OthersLocal ==
    ASSUME LInv, AllocGlobal \/ AllocElem \/ CreateExports
    PROVE  Touches
<1>1. job.step # "idle"
  BY DEF AllocGlobal, AllocElem, CreateExports
<1>2. verdict' = verdict /\ verdict.what # "trapped"
  <2>1. verdict.what = "linked"
    BY <1>1, JobFacts DEF LInv, JobOK
  <2>2. QED
    BY <2>1 DEF AllocGlobal, AllocElem, CreateExports, host
<1>3. tables' = tables /\ mems' = mems
  BY DEF AllocGlobal, AllocElem, CreateExports, store
<1>4. \A i \in DOMAIN insts \ {job.inst} : insts'[i] = insts[i]
  <2>1. CASE insts' = insts
    BY <2>1
  <2>2. CASE AllocGlobal
    BY <2>1, <2>2 DEF AllocGlobal
  <2>3. CASE AllocElem
    BY <2>1, <2>3 DEF AllocElem
  <2>4. CASE CreateExports
    BY <2>4 DEF CreateExports
  <2>5. QED
    BY <2>2, <2>3, <2>4
<1>5. QED
  BY <1>2, <1>3, <1>4 DEF Touches

\* Until its start function runs, an instantiation changes only the tables,
\* the memories and the instance that are its own, and a segment that does not
\* fit is not written at all (instantiate, table_init, memory_init).
THEOREM SpecLocal == Spec => InstantiationIsLocal
<1>1. LInv /\ [Next]_vars =>
        [/\ job.step \notin {"idle", "start"} =>
              /\ \A a \in DOMAIN tables \ Elems(Inst.tableaddrs) : tables'[a] = tables[a]
              /\ \A a \in DOMAIN mems \ Elems(Inst.memaddrs) : mems'[a] = mems[a]
              /\ \A i \in DOMAIN insts \ {job.inst} : insts'[i] = insts[i]
              /\ verdict'.what = "trapped" => UNCHANGED store
        ]_vars
  <2> SUFFICES ASSUME LInv, Next, job.step \notin {"idle", "start"}
               PROVE  Touches
    BY DEF Touches
  <2>1. job # Idle
    BY DEF Idle
  <2>2. Instantiate
    BY <2>1 DEF Next, AssertInvalid, AssertUnlinkable, Refuse, BeginInstantiate, Register, Invoke
  <2>3. CASE CreateTestModule
    BY <2>3 DEF CreateTestModule, store, Said, Touches
  <2>4. CASE Start
    BY <2>4 DEF Start
  <2>5. QED
    BY <2>2, <2>3, <2>4, InitTableLocal, InitMemLocal, OthersLocal DEF Instantiate
<1>2. QED
  BY <1>1, LInvHolds, PTL DEF Spec, InstantiationIsLocal

-----------------------------------------------------------------------------
(* Names.                                                                  *)

\* Whoever has a name is in the list, and nobody else has it.
NamesOK ==
    /\ \A t \in DOMAIN test_modules :
          test_modules[t].export_name # NoName => t \in Elems(linked)
    /\ \A t, u \in DOMAIN test_modules :
          test_modules[t].export_name = test_modules[u].export_name
            /\ test_modules[t].export_name # NoName => t = u

\* A linked module is found under the name it exports as.
LEMMA NoneFound ==
    ASSUME LInv, NEW t \in Elems(linked)
    PROVE  FindExported(test_modules[t].export_name) # NULL
<1> DEFINE name == test_modules[t].export_name
           P == {u \in Elems(linked) : test_modules[u].export_name = name}
           found == Where(linked, P)
<1>1. linked \in Seq(Nat)
  BY DEF LInv, TypeOK
<1>2. t \in P
  OBVIOUS
<1> HIDE DEF P
<1>3. found \in Seq(Nat) /\ Elems(found) = Elems(linked) \cap P
  BY <1>1, WhereFinds
<1>4. found # <<>>
  BY <1>2, <1>3 DEF Elems
<1>5. Head(found) \in Nat
  BY <1>3, <1>4
<1>6. FindExported(name) = Head(found)
  BY <1>4 DEF FindExported, P
<1>7. QED
  BY <1>5, <1>6, LoaderAssumption

\* With distinct names the last one linked is the only one.
LEMMA NamesFind ==
    ASSUME LInv, NamesOK
    PROVE  NamesFindTheirInstance
<1> SUFFICES ASSUME NEW t \in DOMAIN test_modules, test_modules[t].export_name # NoName
             PROVE  FindExported(test_modules[t].export_name) = t
  BY DEF NamesFindTheirInstance
<1> DEFINE u == FindExported(test_modules[t].export_name)
<1>1. t \in Elems(linked)
  BY DEF NamesOK
<1>2. u # NULL
  BY <1>1, NoneFound
<1>3. u \in DOMAIN test_modules /\ test_modules[u].export_name = test_modules[t].export_name
  BY <1>2, ExporterFound
<1>4. QED
  BY <1>3 DEF NamesOK

\* Only create_test_module and register_module change the names.
LEMMA HostChangesWhen ==
    ASSUME [Next]_vars
    PROVE  \/ UNCHANGED <<test_modules, linked>>
           \/ CreateTestModule
           \/ \E name \in Names : Register(name)
<1>1. CASE UNCHANGED vars
  BY <1>1 DEF vars, host
<1>2. ASSUME NEW m \in DOMAIN Modules, AssertInvalid(m) \/ AssertUnlinkable(m)
      PROVE  UNCHANGED <<test_modules, linked>>
  BY <1>2 DEF AssertInvalid, AssertUnlinkable, Refuse, host
<1>3. ASSUME NEW m \in DOMAIN Modules, NEW name, BeginInstantiate(m, name)
      PROVE  UNCHANGED <<test_modules, linked>>
  BY <1>3 DEF BeginInstantiate, host
<1>4. CASE Instantiate
  BY <1>4 DEF Instantiate, AllocGlobal, AllocElem, CreateExports, InitTables, InitMems, Start, host
<1>5. ASSUME NEW name, Invoke(name)
      PROVE  UNCHANGED <<test_modules, linked>>
  BY <1>5 DEF Invoke
<1>6. QED
  BY <1>1, <1>2, <1>3, <1>4, <1>5 DEF Next

\* Every step keeps the names distinct, if none is registered again.
LEMMA NamesNext ==
    ASSUME ~Reregister, LInv, NamesOK, [Next]_vars
    PROVE  NamesOK'
<1>0. /\ test_modules \in Seq(TestModuleSet) /\ linked \in Seq(Nat)
      /\ DOMAIN test_modules = 1 .. Len(test_modules) /\ Len(test_modules) \in Nat
  BY DEF LInv, TypeOK
<1>1. CASE UNCHANGED <<test_modules, linked>>
  BY <1>1 DEF NamesOK
<1>2. CASE CreateTestModule
  <2> DEFINE n == [name |-> job.name, export_name |-> NoName, inst |-> job.inst]
             tms == Append(test_modules, n)
  <2>1. test_modules' = tms
    BY <1>2 DEF CreateTestModule
  <2>2. Elems(linked) \subseteq Elems(linked')
    <3>1. CASE linked' = linked
      BY <3>1
    <3>2. CASE linked' = Append(linked, Len(test_modules) + 1)
      <4>1. Elems(Append(linked, Len(test_modules) + 1)) = Elems(linked) \cup {Len(test_modules) + 1}
        BY <1>0, Appended
      <4>2. QED
        BY <3>2, <4>1
    <3>3. QED
      BY <1>2, <3>1, <3>2 DEF CreateTestModule
  <2>3. n.export_name = NoName
    OBVIOUS
  <2> HIDE DEF n
  <2>4. /\ DOMAIN tms = 1 .. Len(test_modules) + 1
        /\ tms[Len(test_modules) + 1] = n
        /\ \A t \in DOMAIN test_modules : tms[t] = test_modules[t]
    BY <1>0
  <2> HIDE DEF tms
  <2>5. \A t \in DOMAIN tms : tms[t].export_name # NoName =>
            t \in DOMAIN test_modules /\ tms[t] = test_modules[t]
    <3>1. \A t \in 1 .. Len(test_modules) + 1 : t \in 1 .. Len(test_modules) \/ t = Len(test_modules) + 1
      BY <1>0
    <3>2. QED
      BY <1>0, <2>3, <2>4, <3>1
  <2>6. QED
    BY <2>1, <2>2, <2>5 DEF NamesOK
<1>3. ASSUME NEW name \in Names, Register(name)
      PROVE  NamesOK'
  <2>1. /\ test_modules' = [test_modules EXCEPT ![current].export_name = name]
        /\ linked' = IF current \in Elems(linked) THEN linked ELSE Append(linked, current)
        /\ current # NULL /\ FindExported(name) = NULL
    BY <1>3 DEF Register, FreshName
  <2>2. current \in DOMAIN test_modules /\ current \in Nat
    BY <2>1, <1>0 DEF LInv, HostOK
  <2>3. Elems(linked') = Elems(linked) \cup {current}
    <3>1. CASE current \in Elems(linked)
      BY <2>1, <3>1
    <3>2. CASE current \notin Elems(linked)
      <4>1. Elems(Append(linked, current)) = Elems(linked) \cup {current}
        BY <1>0, <2>2, Appended, SMTT(40)
      <4>2. QED
        BY <2>1, <3>2, <4>1
    <3>3. QED
      BY <3>1, <3>2
  <2>4. name # NoName
    BY LoaderAssumption
  <2>5. \A t \in DOMAIN test_modules : test_modules[t].export_name # name
    <3> SUFFICES ASSUME NEW t \in DOMAIN test_modules, test_modules[t].export_name = name
                 PROVE  FALSE
      OBVIOUS
    <3>1. t \in Elems(linked)
      BY <2>4 DEF NamesOK
    <3>2. QED
      BY <2>1, <3>1, NoneFound
  <2>6. /\ DOMAIN test_modules' = DOMAIN test_modules
        /\ test_modules'[current].export_name = name
        /\ \A t \in DOMAIN test_modules : t # current => test_modules'[t] = test_modules[t]
    <3>1. test_modules[current] \in TestModuleSet
      BY <1>0, <2>2
    <3>2. [test_modules[current] EXCEPT !.export_name = name].export_name = name
      BY <3>1 DEF TestModuleSet
    <3>3. test_modules' = [test_modules EXCEPT ![current] = [test_modules[current] EXCEPT !.export_name = name]]
      BY <2>1
    <3>4. QED
      BY <2>2, <3>2, <3>3
  <2>7. QED
    BY <2>3, <2>4, <2>5, <2>6 DEF NamesOK
<1>4. QED
  BY <1>1, <1>2, <1>3, HostChangesWhen

\* In a script that registers each instance once, under a name of its own, a
\* name finds the instance that was registered under it (register,
\* find_exported_module).
THEOREM SpecNames ==
    ASSUME ~Reregister
    PROVE  Spec => []NamesFindTheirInstance
<1>1. Init => NamesOK
  BY DEF Init, NamesOK
<1>2. LInv /\ NamesOK /\ [Next]_vars => NamesOK'
  BY NamesNext
<1>3. LInv /\ NamesOK => NamesFindTheirInstance
  BY NamesFind
<1>4. QED
  BY <1>1, <1>2, <1>3, LInvHolds, PTL DEF Spec

-----------------------------------------------------------------------------
(* Instances and jobs from one state to the next.                          *)

\* Only instantiate changes the instances.
LEMMA InstsChangeWhen ==
    ASSUME [Next]_vars
    PROVE  \/ UNCHANGED insts
           \/ AllocGlobal \/ AllocElem \/ CreateExports
           \/ \E m \in DOMAIN Modules, name \in Ids \cup {NoName} : BeginInstantiate(m, name)
<1>1. CASE UNCHANGED vars
  BY <1>1 DEF vars
<1>2. ASSUME NEW m \in DOMAIN Modules, AssertInvalid(m) \/ AssertUnlinkable(m)
      PROVE  UNCHANGED insts
  BY <1>2 DEF AssertInvalid, AssertUnlinkable, Refuse
<1>3. ASSUME InitTables \/ InitMems \/ Start \/ CreateTestModule
      PROVE  UNCHANGED insts
  BY <1>3 DEF InitTables, InitMems, Start, CreateTestModule
<1>4. ASSUME NEW name, Register(name) \/ Invoke(name)
      PROVE  UNCHANGED insts
  BY <1>4 DEF Register, Invoke
<1>5. QED
  BY <1>1, <1>2, <1>3, <1>4 DEF Next, Instantiate

\* What becomes of an instance that is there: its vectors of globals and element segments get
\* longer, its exports are set once, and nothing else changes.
LEMMA InstsAfter ==
    ASSUME LInv, [Next]_vars, NEW i \in 1 .. Len(insts)
    PROVE  LET r == insts[i]
               q == insts'[i]
           IN  /\ q.module = r.module /\ q.funcaddrs = r.funcaddrs
               /\ q.tableaddrs = r.tableaddrs /\ q.memaddrs = r.memaddrs
               /\ q.dataaddrs = r.dataaddrs
               /\ \/ q.globaladdrs = r.globaladdrs
                  \/ q.globaladdrs = Append(r.globaladdrs, Len(globals) + 1)
               /\ \/ q.elemaddrs = r.elemaddrs
                  \/ /\ job.step = "elems" /\ i = job.inst
                     /\ q.elemaddrs = Append(r.elemaddrs, Len(elems) + 1)
               /\ \/ q.exports = r.exports
                  \/ /\ job.step = "exports" /\ i = job.inst
                     /\ q.exports = Map(Mod.exports, ExportInst)
<1> DEFINE r == insts[i]
           q == insts'[i]
           Same(f) == q[f] = r[f]
<1>1. insts \in Seq(InstSet) /\ r \in InstSet
  BY DEF LInv, TypeOK
<1>2. CASE UNCHANGED insts
  BY <1>2
<1>3. CASE \E m \in DOMAIN Modules, name \in Ids \cup {NoName} : BeginInstantiate(m, name)
  <2>1. PICK m \in DOMAIN Modules, name \in Ids \cup {NoName} : BeginInstantiate(m, name)
    BY <1>3
  <2>2. insts' = Append(insts, NewInst(m, Modules[m]))
    BY <2>1 DEF BeginInstantiate
  <2>3. q = r
    BY <1>1, <2>2
  <2>4. QED
    BY <2>3
<1>4. CASE AllocGlobal
  <2>1. CASE i # job.inst \/ UNCHANGED insts
    <3>1. q = r
      BY <1>1, <1>4, <2>1 DEF AllocGlobal
    <3>2. QED
      BY <3>1
  <2>2. CASE i = job.inst /\ ~UNCHANGED insts
    <3> DEFINE s == Append(r.globaladdrs, Len(globals) + 1)
    <3>1. insts' = [insts EXCEPT ![i] = [r EXCEPT !.globaladdrs = s]]
      BY <1>4, <2>2 DEF AllocGlobal
    <3> HIDE DEF s
    <3>2. q = [r EXCEPT !.globaladdrs = s]
      BY <1>1, <3>1
    <3> HIDE DEF r, q
    <3>3. /\ q.module = r.module /\ q.funcaddrs = r.funcaddrs
          /\ q.tableaddrs = r.tableaddrs /\ q.memaddrs = r.memaddrs
          /\ q.dataaddrs = r.dataaddrs /\ q.elemaddrs = r.elemaddrs /\ q.exports = r.exports
          /\ q.globaladdrs = s
      BY <1>1, <3>2 DEF InstSet
    <3>4. QED
      BY <3>3 DEF r, q, s
  <2>3. QED
    BY <2>1, <2>2
<1>5. CASE AllocElem
  <2>1. CASE i # job.inst \/ UNCHANGED insts
    <3>1. q = r
      BY <1>1, <1>5, <2>1 DEF AllocElem
    <3>2. QED
      BY <3>1
  <2>2. CASE i = job.inst /\ ~UNCHANGED insts
    <3> DEFINE s == Append(r.elemaddrs, Len(elems) + 1)
    <3>1. insts' = [insts EXCEPT ![i] = [r EXCEPT !.elemaddrs = s]] /\ job.step = "elems"
      BY <1>5, <2>2 DEF AllocElem
    <3> HIDE DEF s
    <3>2. q = [r EXCEPT !.elemaddrs = s]
      BY <1>1, <3>1
    <3> HIDE DEF r, q
    <3>3. /\ q.module = r.module /\ q.funcaddrs = r.funcaddrs
          /\ q.tableaddrs = r.tableaddrs /\ q.memaddrs = r.memaddrs
          /\ q.dataaddrs = r.dataaddrs /\ q.globaladdrs = r.globaladdrs /\ q.exports = r.exports
          /\ q.elemaddrs = s
      BY <1>1, <3>2 DEF InstSet
    <3>4. QED
      BY <2>2, <3>1, <3>3 DEF r, q, s
  <2>3. QED
    BY <2>1, <2>2
<1>6. CASE CreateExports
  <2>1. CASE i # job.inst
    <3>1. q = r
      BY <1>1, <1>6, <2>1 DEF CreateExports
    <3>2. QED
      BY <3>1
  <2>2. CASE i = job.inst
    <3> DEFINE s == Map(Mod.exports, ExportInst)
    <3>1. insts' = [insts EXCEPT ![i] = [r EXCEPT !.exports = s]] /\ job.step = "exports"
      BY <1>6, <2>2 DEF CreateExports
    <3> HIDE DEF s
    <3>2. q = [r EXCEPT !.exports = s]
      BY <1>1, <3>1
    <3> HIDE DEF r, q
    <3>3. /\ q.module = r.module /\ q.funcaddrs = r.funcaddrs
          /\ q.tableaddrs = r.tableaddrs /\ q.memaddrs = r.memaddrs
          /\ q.dataaddrs = r.dataaddrs /\ q.globaladdrs = r.globaladdrs
          /\ q.elemaddrs = r.elemaddrs
          /\ q.exports = s
      BY <1>1, <3>2 DEF InstSet
    <3>4. QED
      BY <2>2, <3>1, <3>3 DEF r, q, s
  <2>3. QED
    BY <2>1, <2>2
<1>7. QED
  BY <1>2, <1>3, <1>4, <1>5, <1>6, InstsChangeWhen

\* Only the beginning of an instantiation makes an instance.
LEMMA NoInstMade ==
    ASSUME LInv, [Next]_vars,
           ~ \E m \in DOMAIN Modules, name \in Ids \cup {NoName} : BeginInstantiate(m, name)
    PROVE  Len(insts') = Len(insts)
<1>1. insts \in Seq(InstSet)
  BY DEF LInv, TypeOK
<1>2. CASE AllocGlobal
  BY <1>1, <1>2 DEF AllocGlobal
<1>3. CASE AllocElem
  BY <1>1, <1>3 DEF AllocElem
<1>4. CASE CreateExports
  BY <1>1, <1>4 DEF CreateExports
<1>5. QED
  BY <1>2, <1>3, <1>4, InstsChangeWhen

\* What becomes of the job.
LEMMA JobAfter ==
    ASSUME LInv, [Next]_vars
    PROVE  \/ job' = Idle
           \/ job' = job
           \/ /\ Instantiate /\ job.step # "idle" /\ job' \in JobSet /\ job'.inst = job.inst
              /\ \/ Again
                 \/ \E s \in Steps : Goto(s)
           \/ \E m \in DOMAIN Modules, name \in Ids \cup {NoName} : BeginInstantiate(m, name)
<1>1. CASE UNCHANGED vars
  BY <1>1 DEF vars
<1>2. ASSUME NEW m \in DOMAIN Modules, AssertInvalid(m) \/ AssertUnlinkable(m)
      PROVE  job' = job
  BY <1>2 DEF AssertInvalid, AssertUnlinkable, Refuse
<1>3. ASSUME NEW name, Register(name) \/ Invoke(name)
      PROVE  job' = job
  BY <1>3 DEF Register, Invoke
<1>4. ASSUME Instantiate
      PROVE  job.step # "idle" /\ (job' = Idle \/ Again \/ \E s \in Steps : Goto(s))
  <2>1. CASE AllocGlobal \/ AllocElem \/ CreateExports
    BY <2>1 DEF AllocGlobal, AllocElem, CreateExports, Steps
  <2>2. CASE InitTables
    <3>0. job.step = "tables" /\ job.i \in Nat /\ Len(Mod.elems) \in Nat
      BY <2>2, JobIndex DEF InitTables
    <3>1. CASE job.i > Len(Mod.elems)
      BY <2>2, <3>0, <3>1 DEF InitTables, Steps
    <3>2. CASE ~(job.i > Len(Mod.elems))
      <4>1. Mod.elems[job.i].mode \in {"active", "passive", "declarative"}
        <5>1. job.i <= Len(Mod.elems)
          BY <3>0, <3>2, SMTT(40)
        <5>2. QED
          BY <3>0, <5>1, ElemSegment
      <4>2. CASE Mod.elems[job.i].mode = "active"
        <5>1. InitTable
          BY <2>2, <3>2, <4>2 DEF InitTables
        <5>2. QED
          BY <3>0, <5>1 DEF InitTable, Fail
      <4>3. CASE Mod.elems[job.i].mode # "active"
        BY <2>2, <3>0, <3>2, <4>1, <4>3 DEF InitTables
      <4>4. QED
        BY <4>2, <4>3
    <3>3. QED
      BY <3>1, <3>2
  <2>3. CASE InitMems
    BY <2>3 DEF InitMems, InitMem, Fail, Steps
  <2>4. CASE Start
    BY <2>4 DEF Start, Fail, Steps
  <2>5. CASE CreateTestModule
    BY <2>5 DEF CreateTestModule
  <2>6. QED
    BY <1>4, <2>1, <2>2, <2>3, <2>4, <2>5 DEF Instantiate
<1>5. CASE Instantiate
  <2>1. job.step # "idle" /\ (job' = Idle \/ Again \/ \E s \in Steps : Goto(s))
    BY <1>4, <1>5
  <2>2. job \in JobSet
    BY <2>1, JobFacts
  <2>3. QED
    BY <1>5, <2>1, <2>2, GotoTyped, AgainTyped
<1>6. QED
  BY <1>1, <1>2, <1>3, <1>5 DEF Next

-----------------------------------------------------------------------------
(* Which instance a function belongs to.                                   *)

\* An instance holds and exports functions of its own and of earlier instances.
OwnsUpTo(r, i, fs) ==
    /\ \A f \in Elems(r.funcaddrs) : fs[f].inst <= i
    /\ \A e \in Elems(r.exports) : e.kind = "func" => fs[e.addr].inst <= i

\* Nobody has got hold of the functions of an instance that is not filled yet.
Owners ==
    /\ \A i \in 1 .. Len(insts) : OwnsUpTo(insts[i], i, funcs)
    /\ job # Idle => \A t \in DOMAIN test_modules : test_modules[t].inst # job.inst
    /\ job.step \in {"globals", "elems"} =>
          \A a \in 1 .. Len(tables) : \A f \in Elems(tables[a].elem) \ {0} :
             funcs[f].inst # job.inst

\* The loops that allocate leave tables and functions alone.
LEMMA Allocating ==
    ASSUME LInv, [Next]_vars, job'.step \in {"globals", "elems"}
    PROVE  \/ /\ UNCHANGED <<tables, funcs>> /\ job'.inst = job.inst
              /\ job.step \in {"globals", "elems"}
           \/ \E m \in DOMAIN Modules, name \in Ids \cup {NoName} : BeginInstantiate(m, name)
<1> DEFINE Goal == /\ UNCHANGED <<tables, funcs>> /\ job'.inst = job.inst
                   /\ job.step \in {"globals", "elems"}
<1>1. CASE UNCHANGED vars
  BY <1>1 DEF vars, store
<1>2. ASSUME NEW m \in DOMAIN Modules, AssertInvalid(m) \/ AssertUnlinkable(m)
      PROVE  FALSE
  BY <1>2 DEF AssertInvalid, AssertUnlinkable, Refuse, Idle
<1>3. ASSUME NEW name, Register(name) \/ Invoke(name)
      PROVE  FALSE
  BY <1>3 DEF Register, Invoke, Idle
<1>4. ASSUME Instantiate
      PROVE  Goal
  <2>1. job.step # "idle"
    BY <1>4 DEF Instantiate, AllocGlobal, AllocElem, CreateExports, InitTables, InitMems, Start,
                CreateTestModule
  <2>2. job \in JobSet
    BY <2>1, JobFacts
  <2>3. Idle.step \notin {"globals", "elems"}
    BY DEF Idle
  <2>4. ASSUME NEW s \in Steps \ {"globals", "elems"}, Goto(s)
        PROVE  FALSE
    BY <2>2, <2>4, GotoTyped
  <2>5. ASSUME Again, job.step \notin {"globals", "elems"}
        PROVE  FALSE
    BY <2>2, <2>5, AgainTyped
  <2>6. CASE AllocGlobal
    <3>1. job' = [job EXCEPT !.step = "elems", !.i = 1] \/ Again
      BY <2>6 DEF AllocGlobal, Goto
    <3>2. job'.inst = job.inst
      BY <2>2, <2>6, GotoTyped, AgainTyped DEF AllocGlobal, Steps
    <3>3. QED
      BY <2>6, <3>2 DEF AllocGlobal
  <2>7. CASE AllocElem
    <3>1. job'.inst = job.inst
      BY <2>2, <2>7, GotoTyped, AgainTyped DEF AllocElem, Steps
    <3>2. QED
      BY <2>7, <3>1 DEF AllocElem
  <2>8. CASE CreateExports
    BY <2>4, <2>8 DEF CreateExports, Steps
  <2>9. CASE CreateTestModule \/ Fail
    BY <2>3, <2>9 DEF CreateTestModule, Fail
  <2>10. CASE InitTables
    <3>0. job.step = "tables" /\ job.i \in Nat /\ Len(Mod.elems) \in Nat
      BY <2>10, JobIndex DEF InitTables
    <3>1. CASE job.i > Len(Mod.elems)
      BY <2>4, <2>10, <3>1 DEF InitTables, Steps
    <3>2. CASE ~(job.i > Len(Mod.elems))
      <4>1. Mod.elems[job.i].mode \in {"active", "passive", "declarative"}
        <5>1. job.i <= Len(Mod.elems)
          BY <3>0, <3>2
        <5>2. QED
          BY <3>0, <5>1, ElemSegment
      <4>2. CASE Mod.elems[job.i].mode = "active"
        <5>1. InitTable
          BY <2>10, <3>2, <4>2 DEF InitTables
        <5>2. QED
          BY <2>5, <2>9, <3>0, <5>1 DEF InitTable
      <4>3. CASE Mod.elems[job.i].mode # "active"
        BY <2>5, <2>10, <3>0, <3>2, <4>1, <4>3 DEF InitTables
      <4>4. QED
        BY <4>2, <4>3
    <3>3. QED
      BY <3>1, <3>2
  <2>11. CASE InitMems
    <3>1. Again \/ Fail \/ Goto("start")
      BY <2>11 DEF InitMems, InitMem
    <3>2. QED
      BY <2>4, <2>5, <2>9, <2>11, <3>1 DEF InitMems, Steps
  <2>12. CASE Start
    BY <2>4, <2>9, <2>12 DEF Start, Steps
  <2>13. QED
    BY <1>4, <2>6, <2>7, <2>8, <2>9, <2>10, <2>11, <2>12 DEF Instantiate
<1>5. QED
  BY <1>1, <1>2, <1>3, <1>4 DEF Next

\* What a new instance begins with.
LEMMA Begun ==
    ASSUME LInv, NEW m \in DOMAIN Modules, NEW name, BeginInstantiate(m, name)
    PROVE  /\ insts' = Append(insts, NewInst(m, Modules[m]))
           /\ Len(insts') = Len(insts) + 1 /\ Len(insts) \in Nat
           /\ job = Idle
           /\ job' = [step |-> "globals", i |-> 1, inst |-> Len(insts) + 1, name |-> name]
           /\ UNCHANGED <<globals, elems, host>>
           /\ Valid(Modules[m]) /\ NamesKnown(Modules[m]) /\ Resolved(Modules[m])
<1>1. insts \in Seq(InstSet)
  BY DEF LInv, TypeOK
<1>2. QED
  BY <1>1 DEF BeginInstantiate, ValidModules

\* Every step keeps the functions that can be reached with their owners.
LEMMA OwnersNext ==
    ASSUME LInv, Owners, [Next]_vars
    PROVE  Owners'
<1> DEFINE Begins == \E m \in DOMAIN Modules, name \in Ids \cup {NoName} : BeginInstantiate(m, name)
<1>1. LInv' /\ Grown(Store, Store')
  BY NextOK
<1>2. /\ insts \in Seq(InstSet) /\ insts' \in Seq(InstSet)
      /\ Len(insts) \in Nat /\ Len(insts') \in Nat
      /\ tables \in Seq(TableSet) /\ job \in {Idle} \cup JobSet
  BY <1>1, SMTT(40) DEF LInv, TypeOK
<1>3. \A f \in 1 .. Len(funcs) : funcs'[f] = funcs[f]
  BY <1>1, StoreFields, NextFields DEF Grown
<1>4. \A f \in 1 .. Len(funcs) : funcs[f].inst \in 1 .. Len(insts)
  BY StoreFields DEF LInv, StoreOK
<1>5. \A f \in 1 .. Len(funcs') : funcs'[f].inst \in 1 .. Len(insts')
  BY <1>1, NextFields DEF LInv, StoreOK
<1>6. CASE Begins
  <2>1. PICK m \in DOMAIN Modules, name \in Ids \cup {NoName} : BeginInstantiate(m, name)
    BY <1>6
  <2>2. /\ insts' = Append(insts, NewInst(m, Modules[m])) /\ Len(insts') = Len(insts) + 1
        /\ job'.inst = Len(insts) + 1 /\ UNCHANGED host
    BY <2>1, Begun
  <2>3. \A t \in DOMAIN test_modules' : test_modules'[t].inst # job'.inst
    BY <1>2, <2>2 DEF host, LInv, HostOK
  <2>4. ASSUME NEW a \in 1 .. Len(tables'), NEW f \in Elems(tables'[a].elem) \ {0}
        PROVE  funcs'[f].inst # job'.inst
    <3> DEFINE M == Modules[m]
    <3>1. /\ Len(tables') = Len(tables) + Len(M.tables) /\ Len(M.tables) \in Nat
          /\ \A k \in 1 .. Len(M.tables) : tables'[Len(tables) + k] = NewTables(M)[k]
          /\ \A b \in 1 .. Len(tables) : tables'[b] = tables[b]
      BY <2>1, NewAfter
    <3>2. IsModule(M)
      BY LoaderAssumption
    <3> HIDE DEF M
    <3>3. \A k \in 1 .. Len(M.tables) : Elems(NewTables(M)[k].elem) \subseteq {0}
      BY <3>2, NewTablesAre
    <3>4. Len(tables) \in Nat
      BY <1>2
    <3>5. a \in 1 .. Len(tables) \/ (a - Len(tables) \in 1 .. Len(M.tables) /\ Len(tables) + (a - Len(tables)) = a)
      BY <3>1, <3>4, Ahead
    <3>6. CASE a \in 1 .. Len(tables)
      <4>1. Elems(tables[a].elem) \subseteq 0 .. Len(funcs)
        BY <3>6, TableIs, StoreFields DEF Ref
      <4>2. Len(funcs) \in Nat
        BY DEF LInv, TypeOK
      <4>3. f \in 1 .. Len(funcs)
        BY <3>1, <3>6, <4>1, <4>2
      <4>4. funcs'[f].inst \in 1 .. Len(insts)
        BY <1>3, <1>4, <4>3
      <4>5. QED
        BY <1>2, <2>2, <4>4
    <3>7. CASE a - Len(tables) \in 1 .. Len(M.tables) /\ Len(tables) + (a - Len(tables)) = a
      BY <3>1, <3>3, <3>7
    <3>8. QED
      BY <3>5, <3>6, <3>7
  <2>5. \A i \in 1 .. Len(insts) : insts'[i] = insts[i]
    BY <1>2, <2>2
  <2>6. ASSUME NEW i \in 1 .. Len(insts)
        PROVE  OwnsUpTo(insts'[i], i, funcs')
    <3>1. OwnsUpTo(insts[i], i, funcs)
      BY DEF Owners
    <3>2. Held(insts[i], Store)
      BY DEF LInv, InstsOK, InstOK
    <3>3. Elems(insts[i].funcaddrs) \subseteq 1 .. Len(funcs)
      BY <1>2, HeldBy
    <3>4. \A e \in Elems(insts[i].exports) : e.kind = "func" => e.addr \in 1 .. Len(funcs)
      BY <3>2, StoreFields DEF Held, Addrs
    <3>5. QED
      BY <1>3, <2>5, <3>1, <3>3, <3>4 DEF OwnsUpTo
  <2>7. OwnsUpTo(insts'[Len(insts')], Len(insts'), funcs')
    <3>0. Len(insts') \in 1 .. Len(insts') /\ Len(insts') \in DOMAIN insts'
      BY <1>2, <2>2
    <3>1. Held(insts'[Len(insts')], Store')
      BY <1>1, <3>0 DEF LInv, InstsOK, InstOK
    <3>2. Elems(insts'[Len(insts')].funcaddrs) \subseteq 1 .. Len(funcs')
      BY <3>1, NextFields DEF Held, Addrs, AddressOf, Kinds
    <3>3. \A e \in Elems(insts'[Len(insts')].exports) : e.kind = "func" => e.addr \in 1 .. Len(funcs')
      BY <3>1, NextFields DEF Held, Addrs
    <3>4. \A f \in 1 .. Len(funcs') : funcs'[f].inst <= Len(insts')
      BY <1>2, <1>5
    <3>5. QED
      BY <3>2, <3>3, <3>4 DEF OwnsUpTo
  <2>8. \A i \in 1 .. Len(insts') : OwnsUpTo(insts'[i], i, funcs')
    <3>1. \A i \in 1 .. Len(insts') : i \in 1 .. Len(insts) \/ i = Len(insts')
      BY <1>2, <2>2
    <3>2. QED
      BY <2>6, <2>7, <3>1
  <2>9. QED
    BY <2>3, <2>4, <2>8 DEF Owners
<1>7. CASE ~Begins
  <2>1. Len(insts') = Len(insts)
    BY <1>7, NoInstMade
  <2>2. ASSUME NEW i \in 1 .. Len(insts')
        PROVE  OwnsUpTo(insts'[i], i, funcs')
    <3>0. i \in 1 .. Len(insts) /\ i \in DOMAIN insts /\ i \in DOMAIN insts'
      BY <1>2, <2>1
    <3>1. Held(insts'[i], Store')
      BY <1>1 DEF LInv, InstsOK, InstOK
    <3>2. Elems(insts'[i].funcaddrs) \subseteq 1 .. Len(funcs')
      BY <3>1, NextFields DEF Held, Addrs, AddressOf, Kinds
    <3>3. \A e \in Elems(insts'[i].exports) : e.kind = "func" => e.addr \in 1 .. Len(funcs')
      BY <3>1, NextFields DEF Held, Addrs
    <3>4. CASE i = Len(insts')
      <4>1. \A f \in 1 .. Len(funcs') : funcs'[f].inst <= i
        BY <1>2, <1>5, <3>4
      <4>2. QED
        BY <3>2, <3>3, <4>1 DEF OwnsUpTo
    <3>5. CASE i # Len(insts')
      <4>1. OwnsUpTo(insts[i], i, funcs)
        BY <3>0 DEF Owners
      <4>2. Held(insts[i], Store)
        BY <3>0 DEF LInv, InstsOK, InstOK
      <4>3. Elems(insts[i].funcaddrs) \subseteq 1 .. Len(funcs)
        BY <3>0, HeldBy
      <4>4. \A e \in Elems(insts[i].exports) : e.kind = "func" => e.addr \in 1 .. Len(funcs)
        BY <4>2, StoreFields DEF Held, Addrs
      <4>5. ~(job.step = "exports" /\ i = job.inst)
        BY <2>1, <3>5, JobFacts
      <4>6. insts'[i].funcaddrs = insts[i].funcaddrs /\ insts'[i].exports = insts[i].exports
        BY <3>0, <4>5, InstsAfter
      <4>7. QED
        BY <1>3, <4>1, <4>3, <4>4, <4>6 DEF OwnsUpTo
    <3>6. QED
      BY <3>4, <3>5
  <2>3. ASSUME job' # Idle, NEW t \in DOMAIN test_modules'
        PROVE  test_modules'[t].inst # job'.inst
    <3>1. job # Idle /\ job'.inst = job.inst
      <4>1. Idle.step = "idle"
        BY DEF Idle
      <4>2. QED
        BY <1>7, <2>3, <4>1, JobAfter
    <3>2. ~CreateTestModule /\ ~ \E name \in Names : Register(name)
      BY <2>3, <3>1 DEF CreateTestModule, Register
    <3>3. test_modules' = test_modules
      BY <3>2, HostChangesWhen
    <3>4. QED
      BY <2>3, <3>1, <3>3 DEF Owners
  <2>4. ASSUME job'.step \in {"globals", "elems"}, NEW a \in 1 .. Len(tables'),
               NEW f \in Elems(tables'[a].elem) \ {0}
        PROVE  funcs'[f].inst # job'.inst
    <3>1. /\ UNCHANGED <<tables, funcs>> /\ job'.inst = job.inst
          /\ job.step \in {"globals", "elems"}
      BY <1>7, <2>4, Allocating
    <3>2. QED
      BY <2>4, <3>1 DEF Owners
  <2>5. QED
    BY <2>2, <2>3, <2>4 DEF Owners
<1>8. QED
  BY <1>6, <1>7

\* An instance past the loops that allocate is complete.
LEMMA FilledIsComplete ==
    ASSUME LInv, NEW i \in 1 .. Len(insts), ~(job.step \in {"globals", "elems"} /\ job.inst = i)
    PROVE  Complete(i)
<1> DEFINE r == insts[i]
           M == Modules[r.module]
<1>1. r \in InstSet /\ IsModule(M)
  <2>1. insts \in Seq(InstSet)
    BY DEF LInv, TypeOK
  <2>2. QED
    BY <2>1, InstTyped
<1>2. GlobalsOf(M, i, job) = Len(M.globals) /\ ElemsOf(M, i, job) = Len(M.elems)
  BY DEF GlobalsOf, ElemsOf
<1>3. FilledTo(r, Len(M.globals), Len(M.elems))
  <2>1. FilledTo(r, GlobalsOf(M, i, job), ElemsOf(M, i, job))
    BY DEF LInv, InstsOK, InstOK
  <2>2. QED
    BY <1>2, <2>1
<1> HIDE DEF M
<1>4. Len(ConstGlobals(M)) + Len(M.globals) = Space(M, "global")
  BY <1>1, Spaces
<1>5. QED
  BY <1>3, <1>4 DEF FilledTo, Complete, M

\* Where a function that can be called was found.
LEMMA RunnableFound ==
    ASSUME LInv, NEW f \in Runnable
    PROVE  \/ \E a \in 1 .. Len(tables) : f \in Elems(tables[a].elem) \ {0}
           \/ \E t \in DOMAIN test_modules :
                 \E e \in Elems(insts[test_modules[t].inst].exports) : e.kind = "func" /\ f = e.addr
           \/ job.step = "start" /\ f \in Elems(Inst.funcaddrs)
<1>1. tables \in Seq(TableSet) /\ test_modules \in Seq(TestModuleSet)
  BY DEF LInv, TypeOK
<1> DEFINE Es == {Elems(t.elem) : t \in Elems(tables)}
<1>2. ASSUME f \in (UNION Es) \ {0}
      PROVE  \E a \in 1 .. Len(tables) : f \in Elems(tables[a].elem) \ {0}
  <2>1. PICK t \in Elems(tables) : f \in Elems(t.elem) \ {0}
    <3> HIDE DEF Es
    <3>1. PICK E \in Es : f \in E /\ f # 0
      BY <1>2
    <3>2. PICK t \in Elems(tables) : E = Elems(t.elem)
      BY DEF Es
    <3>3. QED
      BY <3>1, <3>2
  <2>2. PICK a \in 1 .. Len(tables) : t = tables[a]
    BY DEF Elems
  <2>3. QED
    BY <2>1, <2>2
<1>3. CASE f \in {e.addr : e \in {x \in UNION {Elems(insts[t.inst].exports) : t \in Elems(test_modules)} :
                                x.kind = "func"}}
  <2>1. PICK e \in UNION {Elems(insts[t.inst].exports) : t \in Elems(test_modules)} :
           e.kind = "func" /\ f = e.addr
    BY <1>3
  <2>2. PICK t \in Elems(test_modules) : e \in Elems(insts[t.inst].exports)
    OBVIOUS
  <2>3. PICK k \in DOMAIN test_modules : t = test_modules[k]
    BY <1>1 DEF Elems
  <2>4. QED
    BY <2>1, <2>2, <2>3
<1>4. CASE f \in IF job.step = "start" THEN Elems(Inst.funcaddrs) ELSE {}
  BY <1>4
<1>5. QED
  BY <1>2, <1>3, <1>4 DEF Runnable

\* Functions that can be reached have an owner that is complete.
LEMMA RunnableComplete ==
    ASSUME LInv, Owners
    PROVE  RunnableIsComplete
<1> SUFFICES ASSUME NEW f \in Runnable
             PROVE  Complete(funcs[f].inst)
  BY DEF RunnableIsComplete
<1>1. Len(insts) \in Nat /\ insts \in Seq(InstSet) /\ Len(funcs) \in Nat
  BY DEF LInv, TypeOK
<1>2. \A g \in 1 .. Len(funcs) : funcs[g].inst \in 1 .. Len(insts)
  BY StoreFields DEF LInv, StoreOK
<1>3. CASE \E a \in 1 .. Len(tables) : f \in Elems(tables[a].elem) \ {0}
  <2>1. PICK a \in 1 .. Len(tables) : f \in Elems(tables[a].elem) \ {0}
    BY <1>3
  <2>2. Elems(tables[a].elem) \subseteq 0 .. Len(funcs)
    BY TableIs, StoreFields DEF Ref
  <2>3. f \in 1 .. Len(funcs)
    BY <1>1, <2>1, <2>2
  <2>4. job.step \in {"globals", "elems"} => funcs[f].inst # job.inst
    BY <2>1 DEF Owners
  <2>5. QED
    BY <1>2, <2>3, <2>4, FilledIsComplete
<1>4. CASE \E t \in DOMAIN test_modules :
             \E e \in Elems(insts[test_modules[t].inst].exports) : e.kind = "func" /\ f = e.addr
  <2>1. PICK t \in DOMAIN test_modules :
             \E e \in Elems(insts[test_modules[t].inst].exports) : e.kind = "func" /\ f = e.addr
    BY <1>4
  <2> DEFINE i == test_modules[t].inst
  <2>2. i \in 1 .. Len(insts)
    BY <1>1 DEF LInv, HostOK
  <2>3. PICK e \in Elems(insts[i].exports) : e.kind = "func" /\ f = e.addr
    BY <2>1
  <2>4. OwnsUpTo(insts[i], i, funcs)
    BY <2>2 DEF Owners
  <2>5. Held(insts[i], Store)
    BY <2>2 DEF LInv, InstsOK, InstOK
  <2>6. f \in 1 .. Len(funcs)
    BY <2>3, <2>5, StoreFields DEF Held, Addrs
  <2>7. funcs[f].inst <= i
    BY <2>3, <2>4 DEF OwnsUpTo
  <2>8. job.step \in {"globals", "elems"} => funcs[f].inst # job.inst
    <3>1. ASSUME job.step \in {"globals", "elems"}
          PROVE  funcs[f].inst # job.inst
      <4>1. job # Idle /\ job.inst = Len(insts)
        BY <3>1, JobFacts
      <4>2. i # job.inst
        BY <4>1 DEF Owners
      <4> HIDE DEF i
      <4>3. QED
        BY <1>1, <1>2, <2>2, <2>6, <2>7, <4>1, <4>2
    <3>2. QED
      BY <3>1
  <2>9. QED
    BY <1>2, <2>6, <2>8, FilledIsComplete
<1>5. CASE job.step = "start" /\ f \in Elems(Inst.funcaddrs)
  <2>1. job.inst \in DOMAIN insts
    BY <1>5, JobFacts
  <2>2. f \in 1 .. Len(funcs)
    BY <1>5, <2>1, HeldBy DEF Inst
  <2>3. QED
    BY <1>2, <1>5, <2>2, FilledIsComplete
<1>6. QED
  BY <1>3, <1>4, <1>5, RunnableFound

\* A function that can be called belongs to an instance all of whose address
\* vectors are filled, even if its instantiation trapped (instantiate).
THEOREM SpecRunnable == Spec => []RunnableIsComplete
<1>1. Init => Owners
  BY DEF Init, Owners, Idle
<1>2. LInv /\ Owners /\ [Next]_vars => Owners'
  BY OwnersNext
<1>3. LInv /\ Owners => RunnableIsComplete
  BY RunnableComplete
<1>4. QED
  BY <1>1, <1>2, <1>3, LInvHolds, PTL DEF Spec

-----------------------------------------------------------------------------
(* The order of the steps of a job.                                        *)

\* The order of the loops of instantiate.
LEMMA JobFollows ==
    ASSUME LInv, [Next]_vars, job.step # "idle"
    PROVE  \/ UNCHANGED vars
           \/ job' = Idle /\ test_modules' = test_modules
           \/ job.step = "done" /\ CreateTestModule
           \/ /\ job' \in JobSet /\ job'.inst = job.inst
              /\ \/ job.step \in {"globals", "elems"} /\ job'.step \in {"globals", "elems", "exports"}
                 \/ job.step = "exports" /\ job'.step = "tables" /\ job'.i = 1
                 \/ /\ job.step = "tables" /\ InitTables /\ job.i <= Len(Mod.elems)
                    /\ job'.step = "tables" /\ job'.i = job.i + 1
                 \/ job.step = "tables" /\ job.i > Len(Mod.elems) /\ job'.step = "mems" /\ job'.i = 1
                 \/ /\ job.step = "mems" /\ InitMems /\ job.i <= Len(Mod.datas)
                    /\ job'.step = "mems" /\ job'.i = job.i + 1
                 \/ job.step = "mems" /\ job.i > Len(Mod.datas) /\ job'.step = "start"
                 \/ job.step = "start" /\ job'.step = "done"
<1>0. /\ job \in JobSet /\ job # Idle /\ job.i \in Nat /\ Len(Mod.elems) \in Nat /\ Len(Mod.datas) \in Nat
  BY JobFacts, JobIndex
<1>1. Instantiate \/ UNCHANGED vars
  BY <1>0 DEF Next, AssertInvalid, AssertUnlinkable, Refuse, BeginInstantiate, Register, Invoke
<1>2. ASSUME NEW s \in Steps, Goto(s)
      PROVE  job' \in JobSet /\ job'.inst = job.inst /\ job'.step = s /\ job'.i = 1
  BY <1>0, <1>2, GotoTyped
<1>3. ASSUME Again
      PROVE  job' \in JobSet /\ job'.inst = job.inst /\ job'.step = job.step /\ job'.i = job.i + 1
  BY <1>0, <1>3, AgainTyped
<1>4. CASE AllocGlobal
  <2>1. job.step = "globals" /\ (Goto("elems") \/ Again)
    BY <1>4 DEF AllocGlobal
  <2>2. QED
    BY <2>1, <1>2, <1>3 DEF Steps
<1>5. CASE AllocElem
  <2>1. job.step = "elems" /\ (Goto("exports") \/ Again)
    BY <1>5 DEF AllocElem
  <2>2. QED
    BY <2>1, <1>2, <1>3 DEF Steps
<1>6. CASE CreateExports
  <2>1. job.step = "exports" /\ Goto("tables")
    BY <1>6 DEF CreateExports
  <2>2. QED
    BY <2>1, <1>2 DEF Steps
<1>7. CASE InitTables
  <2>1. job.step = "tables"
    BY <1>7 DEF InitTables
  <2>2. CASE job.i > Len(Mod.elems)
    <3>1. Goto("mems")
      BY <1>7, <2>2 DEF InitTables
    <3>2. QED
      BY <2>1, <2>2, <3>1, <1>2 DEF Steps
  <2>3. CASE ~(job.i > Len(Mod.elems))
    <3>1. job.i <= Len(Mod.elems)
      BY <1>0, <2>3
    <3>2. Mod.elems[job.i].mode \in {"active", "passive", "declarative"}
      BY <2>1, <3>1, ElemSegment
    <3>3. Again \/ (job' = Idle /\ test_modules' = test_modules)
      <4>0. test_modules' = test_modules
        BY <1>7 DEF InitTables, host
      <4>1. CASE Mod.elems[job.i].mode = "active"
        <5>1. InitTable
          BY <1>7, <2>3, <4>1 DEF InitTables
        <5>2. QED
          BY <4>0, <5>1 DEF InitTable, Fail
      <4>2. CASE Mod.elems[job.i].mode # "active"
        BY <1>7, <2>3, <3>2, <4>2 DEF InitTables
      <4>3. QED
        BY <4>1, <4>2
    <3>4. QED
      BY <1>3, <1>7, <2>1, <3>1, <3>3
  <2>4. QED
    BY <2>2, <2>3
<1>8. CASE InitMems
  <2>1. job.step = "mems" /\ test_modules' = test_modules
    BY <1>8 DEF InitMems, host
  <2>2. CASE job.i > Len(Mod.datas)
    <3>1. Goto("start")
      BY <1>8, <2>2 DEF InitMems
    <3>2. QED
      BY <2>1, <2>2, <3>1, <1>2 DEF Steps
  <2>3. CASE ~(job.i > Len(Mod.datas))
    <3>1. job.i <= Len(Mod.datas)
      BY <1>0, <2>3
    <3>2. Again \/ job' = Idle
      BY <1>8, <2>3 DEF InitMems, InitMem, Fail
    <3>3. QED
      BY <1>3, <1>8, <2>1, <3>1, <3>2
  <2>4. QED
    BY <2>2, <2>3
<1>9. CASE Start
  <2>1. job.step = "start" /\ test_modules' = test_modules /\ (job' = Idle \/ Goto("done"))
    BY <1>9 DEF Start, Fail, host
  <2>2. QED
    BY <1>2, <2>1 DEF Steps
<1>10. CASE CreateTestModule
  BY <1>10 DEF CreateTestModule
<1>11. QED
  BY <1>1, <1>4, <1>5, <1>6, <1>7, <1>8, <1>9, <1>10 DEF Instantiate

\* The segments of the instance i of the module M that the job j has done with.
ElemsDone(M, i, j) ==
    IF j.step # "idle" /\ j.inst = i
    THEN CASE j.step = "tables" -> j.i - 1
           [] j.step \in {"mems", "start", "done"} -> Len(M.elems)
           [] OTHER -> 0
    ELSE Len(M.elems)
DatasDone(M, i, j) ==
    IF j.step # "idle" /\ j.inst = i
    THEN CASE j.step = "mems" -> j.i - 1
           [] j.step \in {"start", "done"} -> Len(M.datas)
           [] OTHER -> 0
    ELSE Len(M.datas)

\* The instances of which the segments still count.
Kept(i) ==
    \/ job.step # "idle" /\ job.inst = i
    \/ \E t \in DOMAIN test_modules : test_modules[t].inst = i

\* An instance that is kept was kept before.
LEMMA KeptBefore ==
    ASSUME LInv, [Next]_vars, NEW i \in 1 .. Len(insts), Kept(i)'
    PROVE  Kept(i)
<1>1. CASE job'.step # "idle" /\ job'.inst = i
  <2>1. CASE \E m \in DOMAIN Modules, name \in Ids \cup {NoName} : BeginInstantiate(m, name)
    <3>1. job'.inst = Len(insts) + 1 /\ Len(insts) \in Nat
      BY <2>1, Begun
    <3>2. QED
      BY <1>1, <3>1
  <2>2. CASE ~ \E m \in DOMAIN Modules, name \in Ids \cup {NoName} : BeginInstantiate(m, name)
    <3>1. Idle.step = "idle"
      BY DEF Idle
    <3>2. job.step # "idle" /\ job.inst = i
      BY <1>1, <2>2, <3>1, JobAfter
    <3>3. QED
      BY <3>2 DEF Kept
  <2>3. QED
    BY <2>1, <2>2
<1>2. CASE \E t \in DOMAIN test_modules' : test_modules'[t].inst = i
  <2>1. PICK t \in DOMAIN test_modules' : test_modules'[t].inst = i
    BY <1>2
  <2>2. test_modules \in Seq(TestModuleSet)
    BY DEF LInv, TypeOK
  <2>3. CASE test_modules' = test_modules
    BY <2>1, <2>3 DEF Kept
  <2>4. CASE CreateTestModule
    <3> DEFINE x == [name |-> job.name, export_name |-> NoName, inst |-> job.inst]
    <3>1. test_modules' = Append(test_modules, x) /\ job.step # "idle"
      BY <2>4 DEF CreateTestModule
    <3>2. x.inst = job.inst
      OBVIOUS
    <3> HIDE DEF x
    <3>3. (t \in DOMAIN test_modules /\ test_modules'[t] = test_modules[t]) \/ test_modules'[t] = x
      BY <2>1, <2>2, <3>1
    <3>4. CASE t \in DOMAIN test_modules /\ test_modules'[t] = test_modules[t]
      BY <2>1, <3>4 DEF Kept
    <3>5. CASE test_modules'[t] = x
      BY <2>1, <3>1, <3>2, <3>5 DEF Kept
    <3>6. QED
      BY <3>3, <3>4, <3>5
  <2>5. ASSUME NEW name \in Names, Register(name)
        PROVE  Kept(i)
    <3>1. test_modules' = [test_modules EXCEPT ![current].export_name = name]
      BY <2>5 DEF Register
    <3>2. t \in DOMAIN test_modules
      BY <2>1, <3>1
    <3>3. test_modules[t] \in TestModuleSet
      BY <2>2, <3>2
    <3>4. test_modules'[t].inst = test_modules[t].inst
      <4>1. CASE t = current
        <5>1. [test_modules[t] EXCEPT !.export_name = name].inst = test_modules[t].inst
          BY <3>3 DEF TestModuleSet
        <5>2. test_modules'[t] = [test_modules[t] EXCEPT !.export_name = name]
          BY <3>1, <3>2, <4>1
        <5>3. QED
          BY <5>1, <5>2
      <4>2. CASE t # current
        BY <3>1, <3>2, <4>2
      <4>3. QED
        BY <4>1, <4>2
    <3>5. QED
      BY <2>1, <3>2, <3>4 DEF Kept
  <2>6. QED
    BY <2>3, <2>4, <2>5, HostChangesWhen
<1>3. QED
  BY <1>1, <1>2 DEF Kept

\* A trapped instantiation drops the instance.
LEMMA NotKept ==
    ASSUME LInv, Owners, job.step # "idle", job' = Idle, test_modules' = test_modules,
           NEW i, Kept(i)'
    PROVE  job.inst # i
<1>1. job # Idle /\ Idle.step = "idle"
  BY DEF Idle
<1>2. \A t \in DOMAIN test_modules : test_modules[t].inst # job.inst
  BY <1>1 DEF Owners
<1>3. QED
  BY <1>1, <1>2 DEF Kept

\* An element segment that is done was done before, or is the one this step did.
LEMMA NextElem ==
    ASSUME LInv, Owners, [Next]_vars, NEW i \in 1 .. Len(insts), Kept(i)',
           NEW M, M = Modules[insts[i].module], NEW n \in 1 .. Len(M.elems),
           n <= ElemsDone(M, i, job')
    PROVE  \/ n <= ElemsDone(M, i, job)
           \/ InitTables /\ job.inst = i /\ n = job.i /\ job.i <= Len(Mod.elems) /\ job' # Idle
<1>1. Len(M.elems) \in Nat
  <2>1. insts \in Seq(InstSet)
    BY DEF LInv, TypeOK
  <2>2. IsModule(M)
    BY <2>1, InstTyped
  <2>3. QED
    BY <2>2, ModuleTyped
<1>2. CASE ~(job.step # "idle" /\ job.inst = i)
  BY <1>1, <1>2 DEF ElemsDone
<1>3. CASE job.step # "idle" /\ job.inst = i
  <2>0. /\ M = Mod /\ job.i \in Nat /\ Idle.step = "idle" /\ job \in JobSet
    BY <1>3, JobIndex DEF Mod, Inst, Idle
  <2>1. CASE UNCHANGED vars
    BY <2>1 DEF vars
  <2>2. CASE job' = Idle /\ test_modules' = test_modules
    BY <1>3, <2>2, NotKept
  <2>3. CASE job.step = "done"
    BY <1>1, <1>3, <2>3 DEF ElemsDone
  <2>4. CASE job.step \in {"mems", "start"}
    BY <1>1, <1>3, <2>4 DEF ElemsDone
  <2>5. CASE /\ job' \in JobSet /\ job'.inst = job.inst
             /\ \/ job'.step \in {"globals", "elems", "exports"}
                \/ job'.step = "tables" /\ job'.i = 1
    <3>1. job'.step # "idle"
      BY <2>5
    <3>2. ElemsDone(M, i, job') = 0
      BY <1>3, <2>5, <3>1 DEF ElemsDone
    <3>3. QED
      BY <1>1, <3>2
  <2>6. CASE /\ job' \in JobSet /\ job'.inst = job.inst
             /\ job.step = "tables" /\ InitTables /\ job.i <= Len(Mod.elems)
             /\ job'.step = "tables" /\ job'.i = job.i + 1
    <3>0. job'.step # "idle" /\ job'.inst = i
      BY <1>3, <2>6
    <3>1. ElemsDone(M, i, job') = job'.i - 1 /\ ElemsDone(M, i, job) = job.i - 1
      BY <1>3, <2>6, <3>0 DEF ElemsDone
    <3>2. job' # Idle
      BY <2>0, <2>6
    <3>3. n <= job.i - 1 \/ n = job.i
      BY <1>1, <2>0, <2>6, <3>1
    <3>4. QED
      BY <1>3, <2>6, <3>1, <3>2, <3>3
  <2>7. CASE job.step = "tables" /\ job.i > Len(Mod.elems)
    <3>1. ElemsDone(M, i, job) = job.i - 1
      BY <1>3, <2>7 DEF ElemsDone
    <3>2. QED
      BY <1>1, <2>0, <2>7, <3>1
  <2>8. QED
    BY <1>3, <2>1, <2>2, <2>3, <2>4, <2>5, <2>6, <2>7, JobFollows
<1>4. QED
  BY <1>2, <1>3

\* A data segment that is done was done before, or is the one this step did.
LEMMA NextData ==
    ASSUME LInv, Owners, [Next]_vars, NEW i \in 1 .. Len(insts), Kept(i)',
           NEW M, M = Modules[insts[i].module], NEW n \in 1 .. Len(M.datas),
           n <= DatasDone(M, i, job')
    PROVE  \/ n <= DatasDone(M, i, job)
           \/ InitMems /\ job.inst = i /\ n = job.i /\ job.i <= Len(Mod.datas) /\ job' # Idle
<1>1. Len(M.datas) \in Nat
  <2>1. insts \in Seq(InstSet)
    BY DEF LInv, TypeOK
  <2>2. IsModule(M)
    BY <2>1, InstTyped
  <2>3. QED
    BY <2>2, ModuleTyped
<1>2. CASE ~(job.step # "idle" /\ job.inst = i)
  BY <1>1, <1>2 DEF DatasDone
<1>3. CASE job.step # "idle" /\ job.inst = i
  <2>0. /\ M = Mod /\ job.i \in Nat /\ Idle.step = "idle" /\ job \in JobSet
    BY <1>3, JobIndex DEF Mod, Inst, Idle
  <2>1. CASE UNCHANGED vars
    BY <2>1 DEF vars
  <2>2. CASE job' = Idle /\ test_modules' = test_modules
    BY <1>3, <2>2, NotKept
  <2>3. CASE job.step \in {"start", "done"}
    BY <1>1, <1>3, <2>3 DEF DatasDone
  <2>5. CASE /\ job' \in JobSet /\ job'.inst = job.inst
             /\ \/ job'.step \in {"globals", "elems", "exports", "tables"}
                \/ job'.step = "mems" /\ job'.i = 1
    <3>1. job'.step # "idle"
      BY <2>5
    <3>2. DatasDone(M, i, job') = 0
      BY <1>3, <2>5, <3>1 DEF DatasDone
    <3>3. QED
      BY <1>1, <3>2
  <2>6. CASE /\ job' \in JobSet /\ job'.inst = job.inst
             /\ job.step = "mems" /\ InitMems /\ job.i <= Len(Mod.datas)
             /\ job'.step = "mems" /\ job'.i = job.i + 1
    <3>0. job'.step # "idle" /\ job'.inst = i
      BY <1>3, <2>6
    <3>1. DatasDone(M, i, job') = job'.i - 1 /\ DatasDone(M, i, job) = job.i - 1
      BY <1>3, <2>6, <3>0 DEF DatasDone
    <3>2. job' # Idle
      BY <2>0, <2>6
    <3>3. n <= job.i - 1 \/ n = job.i
      BY <1>1, <2>0, <2>6, <3>1
    <3>4. QED
      BY <1>3, <2>6, <3>1, <3>2, <3>3
  <2>7. CASE job.step = "mems" /\ job.i > Len(Mod.datas)
    <3>1. DatasDone(M, i, job) = job.i - 1
      BY <1>3, <2>7 DEF DatasDone
    <3>2. QED
      BY <1>1, <2>0, <2>7, <3>1
  <2>8. QED
    BY <1>3, <2>1, <2>2, <2>3, <2>5, <2>6, <2>7, JobFollows
<1>4. QED
  BY <1>2, <1>3

-----------------------------------------------------------------------------
(* Segments.                                                               *)

DatasLen ==
    \A i \in 1 .. Len(insts) : \A n \in 1 .. Len(insts[i].dataaddrs) :
        datas[insts[i].dataaddrs[n]] = Modules[insts[i].module].datas[n].len

\* What a function does leaves segments alone.
LEMMA EffectLeaves ==
    ASSUME LInv, NEW i, Effect(i)
    PROVE  datas' = datas /\ elems' = elems
<1>1. CASE UNCHANGED store
  BY <1>1 DEF store
<1>2. ASSUME NEW a, GrowTable(a) \/ GrowMem(a) \/ \E k, f : SetTable(a, k, f)
      PROVE  datas' = datas /\ elems' = elems
  BY <1>2 DEF GrowTable, GrowMem, SetTable
<1>3. QED
  BY <1>1, <1>2, EffectIs

\* Data segments change only when a module is begun.
LEMMA DatasStay ==
    ASSUME LInv, [Next]_vars,
           ~ \E m \in DOMAIN Modules, name \in Ids \cup {NoName} : BeginInstantiate(m, name)
    PROVE  datas' = datas
<1>1. CASE UNCHANGED vars
  BY <1>1 DEF vars, store
<1>2. ASSUME NEW m \in DOMAIN Modules, AssertInvalid(m) \/ AssertUnlinkable(m)
      PROVE  datas' = datas
  BY <1>2 DEF AssertInvalid, AssertUnlinkable, Refuse, store
<1>3. CASE Instantiate
  <2>1. CASE AllocGlobal \/ AllocElem \/ CreateExports \/ InitTables \/ InitMems \/ CreateTestModule
    BY <2>1 DEF AllocGlobal, AllocElem, CreateExports, InitTables, InitMems, CreateTestModule, store
  <2>2. CASE Start
    BY <2>2, EffectLeaves DEF Start, store
  <2>3. QED
    BY <1>3, <2>1, <2>2 DEF Instantiate
<1>4. ASSUME NEW name, Register(name) \/ Invoke(name)
      PROVE  datas' = datas
  BY <1>4, EffectLeaves DEF Register, Invoke, store
<1>5. QED
  BY <1>1, <1>2, <1>3, <1>4 DEF Next

\* Element segments are dropped and do not change otherwise.
LEMMA ElemsAfter ==
    ASSUME LInv, [Next]_vars, NEW a \in 1 .. Len(elems)
    PROVE  elems'[a] = elems[a] \/ elems'[a] = <<>>
<1>0. elems \in Seq(Seq(Nat))
  BY DEF LInv, TypeOK
<1>1. CASE elems' = elems
  BY <1>1
<1>2. CASE UNCHANGED vars
  BY <1>1, <1>2 DEF vars, store
<1>3. ASSUME NEW m \in DOMAIN Modules, AssertInvalid(m) \/ AssertUnlinkable(m)
      PROVE  elems' = elems
  BY <1>3 DEF AssertInvalid, AssertUnlinkable, Refuse, store
<1>4. ASSUME NEW m, NEW name, BeginInstantiate(m, name)
      PROVE  elems' = elems
  BY <1>4 DEF BeginInstantiate
<1>5. CASE Instantiate
  <2>1. CASE AllocGlobal \/ CreateExports \/ InitMems \/ CreateTestModule
    BY <1>1, <2>1 DEF AllocGlobal, CreateExports, InitMems, CreateTestModule, store
  <2>2. CASE Start
    BY <1>1, <2>2, EffectLeaves DEF Start, store
  <2>3. CASE AllocElem
    <3> DEFINE s == Map(Mod.elems[job.i].init, Eval)
    <3>1. elems' = elems \/ elems' = Append(elems, s)
      BY <2>3 DEF AllocElem
    <3> HIDE DEF s
    <3>2. Append(elems, s)[a] = elems[a]
      BY <1>0
    <3>3. QED
      BY <3>1, <3>2
  <2>4. CASE InitTables
    <3>1. elems' = elems \/ elems' = Dropped
      <4>1. job.step = "tables" /\ job.i \in Nat /\ Len(Mod.elems) \in Nat
        BY <2>4, JobIndex DEF InitTables
      <4>2. CASE job.i > Len(Mod.elems)
        BY <2>4, <4>2 DEF InitTables
      <4>3. CASE ~(job.i > Len(Mod.elems))
        <5>1. Mod.elems[job.i].mode \in {"active", "passive", "declarative"}
          <6>1. job.i <= Len(Mod.elems)
            BY <4>1, <4>3
          <6>2. QED
            BY <4>1, <6>1, ElemSegment
        <5>2. CASE Mod.elems[job.i].mode = "active"
          <6>1. InitTable
            BY <2>4, <4>3, <5>2 DEF InitTables
          <6>2. QED
            BY <6>1 DEF InitTable
        <5>3. CASE Mod.elems[job.i].mode # "active"
          BY <2>4, <4>3, <5>1, <5>3 DEF InitTables
        <5>4. QED
          BY <5>2, <5>3
      <4>4. QED
        BY <4>2, <4>3
    <3>2. Dropped[a] = elems[a] \/ Dropped[a] = <<>>
      BY <1>0 DEF Dropped
    <3>3. QED
      BY <3>1, <3>2
  <2>5. QED
    BY <1>5, <2>1, <2>2, <2>3, <2>4 DEF Instantiate
<1>6. ASSUME NEW name, Register(name) \/ Invoke(name)
      PROVE  elems' = elems
  BY <1>6, EffectLeaves DEF Register, Invoke, store
<1>7. QED
  BY <1>1, <1>2, <1>3, <1>4, <1>5, <1>6 DEF Next

\* The address vectors of a new instance.
LEMMA DatasBegun ==
    ASSUME LInv, NEW m \in DOMAIN Modules, NEW name, BeginInstantiate(m, name)
    PROVE  LET r == insts'[Len(insts) + 1]
               M == Modules[m]
           IN  /\ r.module = m /\ Len(r.dataaddrs) = Len(M.datas) /\ Len(M.datas) \in Nat
               /\ \A n \in 1 .. Len(M.datas) : datas'[r.dataaddrs[n]] = M.datas[n].len
               /\ \A a \in 1 .. Len(datas) : datas'[a] = datas[a]
<1> DEFINE M == Modules[m]
           ls == Map(M.datas, LAMBDA d : d.len)
           r == NewInst(m, M)
<1>1. insts \in Seq(InstSet) /\ Len(insts) \in Nat /\ datas \in Seq(Nat) /\ Len(datas) \in Nat
  BY DEF LInv, TypeOK
<1>2. IsModule(M)
  BY LoaderAssumption
<1>3. ls \in Seq(Nat) /\ Len(ls) = Len(M.datas) /\ \A k \in 1 .. Len(M.datas) : ls[k] = M.datas[k].len
  BY <1>2, NewDatasAre
<1>4. Len(M.datas) \in Nat
  BY <1>2, ModuleTyped
<1>5. datas' = datas \o ls /\ insts' = Append(insts, r)
  BY DEF BeginInstantiate
<1>6. r.module = m /\ r.dataaddrs = Addresses(datas, Len(M.datas))
  BY DEF NewInst
<1> HIDE DEF r, ls, M
<1>7. insts'[Len(insts) + 1] = r
  BY <1>1, <1>5
<1>8. /\ \A k \in 1 .. Len(datas) : (datas \o ls)[k] = datas[k]
      /\ \A k \in 1 .. Len(ls) : (datas \o ls)[Len(datas) + k] = ls[k]
  BY <1>1, <1>3, JoinedNat
<1>9. Len(Addresses(datas, Len(M.datas))) = Len(M.datas)
  BY <1>1, <1>4, AddressesAre
<1>10. \A k \in 1 .. Len(M.datas) : Addresses(datas, Len(M.datas))[k] = Len(datas) + k
  BY <1>1, <1>4, AddressesAre
<1>11. ASSUME NEW n \in 1 .. Len(M.datas)
       PROVE  datas'[r.dataaddrs[n]] = M.datas[n].len
  <2>1. r.dataaddrs[n] = Len(datas) + n
    BY <1>6, <1>10
  <2>2. datas'[Len(datas) + n] = ls[n]
    BY <1>3, <1>5, <1>8
  <2>3. QED
    BY <1>3, <2>1, <2>2
<1>12. \A a \in 1 .. Len(datas) : datas'[a] = datas[a]
  BY <1>5, <1>8
<1>13. r.module = m /\ Len(r.dataaddrs) = Len(M.datas)
  BY <1>6, <1>9
<1>14. QED
  BY <1>4, <1>7, <1>11, <1>12, <1>13 DEF M

\* The data segments of an instance are as long as its module's, at every step.
LEMMA DatasNext ==
    ASSUME LInv, DatasLen, [Next]_vars
    PROVE  DatasLen'
<1>1. Len(insts) \in Nat /\ insts \in Seq(InstSet)
  BY DEF LInv, TypeOK
<1>2. \A i \in 1 .. Len(insts) : /\ insts'[i].dataaddrs = insts[i].dataaddrs
                                 /\ insts'[i].module = insts[i].module
  BY InstsAfter
<1>3. ASSUME NEW i \in 1 .. Len(insts)
      PROVE  \A n \in 1 .. Len(insts[i].dataaddrs) : insts[i].dataaddrs[n] \in 1 .. Len(datas)
  <2>1. Held(insts[i], Store)
    BY DEF LInv, InstsOK, InstOK
  <2>2. Elems(insts[i].dataaddrs) \subseteq 1 .. Len(datas)
    BY <2>1, StoreFields DEF Held
  <2>3. QED
    BY <2>2 DEF Elems
<1>4. CASE \E m \in DOMAIN Modules, name \in Ids \cup {NoName} : BeginInstantiate(m, name)
  <2>1. PICK m \in DOMAIN Modules, name \in Ids \cup {NoName} : BeginInstantiate(m, name)
    BY <1>4
  <2>2. /\ insts'[Len(insts) + 1].module = m
        /\ \A n \in 1 .. Len(insts'[Len(insts) + 1].dataaddrs) :
              datas'[insts'[Len(insts) + 1].dataaddrs[n]] = Modules[m].datas[n].len
        /\ \A a \in 1 .. Len(datas) : datas'[a] = datas[a]
    BY <2>1, DatasBegun
  <2>3. Len(insts') = Len(insts) + 1
    BY <2>1, Begun
  <2>4. \A i \in 1 .. Len(insts') : i \in 1 .. Len(insts) \/ i = Len(insts) + 1
    BY <1>1, <2>3
  <2>5. ASSUME NEW i \in 1 .. Len(insts'), NEW n \in 1 .. Len(insts'[i].dataaddrs)
        PROVE  datas'[insts'[i].dataaddrs[n]] = Modules[insts'[i].module].datas[n].len
    <3>1. CASE i \in 1 .. Len(insts)
      <4>1. n \in 1 .. Len(insts[i].dataaddrs)
        BY <1>2, <3>1
      <4>2. datas[insts[i].dataaddrs[n]] = Modules[insts[i].module].datas[n].len
        BY <3>1, <4>1 DEF DatasLen
      <4>3. datas'[insts[i].dataaddrs[n]] = datas[insts[i].dataaddrs[n]]
        BY <1>3, <2>2, <3>1, <4>1
      <4>4. QED
        BY <1>2, <3>1, <4>2, <4>3
    <3>2. CASE i = Len(insts) + 1
      BY <2>2, <3>2
    <3>3. QED
      BY <2>4, <3>1, <3>2
  <2>6. QED
    BY <2>5 DEF DatasLen
<1>5. CASE ~ \E m \in DOMAIN Modules, name \in Ids \cup {NoName} : BeginInstantiate(m, name)
  <2>1. datas' = datas /\ Len(insts') = Len(insts)
    BY <1>5, DatasStay, NoInstMade
  <2>2. QED
    BY <1>2, <2>1, SMTT(40) DEF DatasLen
<1>6. QED
  BY <1>4, <1>5

\* The offset of an active data segment.
ValueIn(r, e, gs) ==
    CASE e.op = "i32" -> e.n
      [] e.op = "get" -> gs[At(r.globaladdrs, e.x)].val

\* The data segment d of the instance r, the i-th, is in its memory, or later
\* instances wrote over it.
InPlace(r, d, i, gs, ms) ==
    \A k \in ValueIn(r, d.offset, gs) + 1 .. ValueIn(r, d.offset, gs) + d.len :
        /\ k \in 1 .. Len(ms[r.memaddrs[1]].bytes)
        /\ ms[r.memaddrs[1]].bytes[k] >= i

Segments ==
    \A i \in 1 .. Len(insts) : Kept(i) =>
        LET r == insts[i]
            M == Modules[r.module]
        IN  /\ \A n \in 1 .. Len(M.datas) :
                  n <= DatasDone(M, i, job) /\ M.datas[n].mode = "active" =>
                      InPlace(r, M.datas[n], i, globals, mems)
            /\ \A n \in 1 .. Len(M.elems) :
                  n <= ElemsDone(M, i, job) /\ M.elems[n].mode # "passive" =>
                      elems[r.elemaddrs[n]] = <<>>

\* Where an active data segment goes.
LEMMA ActiveData ==
    ASSUME NEW r \in InstSet, NEW S \in StoreSet, Held(r, S), NEW M, M = Modules[r.module],
           NEW g \in Nat, NEW e, FilledTo(r, g, e),
           NEW d \in Elems(M.datas), d.mode = "active"
    PROVE  /\ r.memaddrs[1] \in 1 .. Len(S.mems)
           /\ d.offset.op \in {"i32", "get"} /\ d.offset \in Expr
           /\ d.offset.op = "get" => /\ d.offset.x \in Nat /\ d.offset.x < Len(r.globaladdrs)
                                     /\ At(r.globaladdrs, d.offset.x) \in 1 .. Len(S.globals)
<1>1. /\ IsModule(M) /\ Valid(M) /\ r.memaddrs \in Seq(Nat) /\ r.globaladdrs \in Seq(Nat)
      /\ Len(r.memaddrs) = Space(M, "mem") /\ Len(r.globaladdrs) = Len(ConstGlobals(M)) + g
  BY InstTyped DEF FilledTo
<1>2. d \in DataDecl
  <2>1. M.datas \in Seq(DataDecl)
    BY <1>1 DEF IsModule
  <2>2. QED
    BY <2>1, SequenceOfElems
<1>3. d.memory \in Nat /\ d.offset \in Expr
  BY <1>2 DEF DataDecl
<1>4. ValidData(M, d)
  BY <1>1 DEF Valid
<1>5. d.memory < Len(MemTypes(M)) /\ ValidConst(M, d.offset, "i32")
  BY <1>4 DEF ValidData, In
<1>6. Len(MemTypes(M)) = Space(M, "mem") /\ Len(ConstGlobals(M)) \in Nat
  BY <1>1, Spaces DEF Kinds
<1>7. 0 < Len(r.memaddrs)
  BY <1>1, <1>3, <1>5, <1>6
<1>8. r.memaddrs[1] \in 1 .. Len(S.mems)
  <2>1. r.memaddrs[1] \in Elems(r.memaddrs)
    <3>1. 1 \in 1 .. Len(r.memaddrs)
      BY <1>1, <1>7
    <3>2. QED
      BY <3>1 DEF Elems
  <2>2. Elems(r.memaddrs) \subseteq 1 .. Len(S.mems)
    BY DEF Held, AddressOf, Addrs, Kinds
  <2>3. QED
    BY <2>1, <2>2
<1>9. d.offset.op \in {"i32", "get"}
  <2>1. is_constant_expr(M, d.offset) /\ Leaves(M, d.offset, "i32")
    BY <1>5 DEF ValidConst
  <2>2. CASE d.offset.op = "null"
    BY <2>1, <2>2 DEF Leaves
  <2>3. CASE d.offset.op = "func"
    BY <2>1, <2>3 DEF Leaves
  <2>4. CASE d.offset.op = "other"
    BY <2>1, <2>4 DEF is_constant_expr
  <2>5. d.offset.op \in {"i32", "get", "func", "null", "other"}
    BY <1>3 DEF Expr
  <2>6. QED
    BY <2>2, <2>3, <2>4, <2>5
<1>10. ASSUME d.offset.op = "get"
       PROVE  /\ d.offset.x \in Nat /\ d.offset.x < Len(r.globaladdrs)
              /\ At(r.globaladdrs, d.offset.x) \in 1 .. Len(S.globals)
  <2>1. d.offset.x \in Nat
    BY <1>3, <1>10 DEF Expr
  <2>2. d.offset.x < Len(ConstGlobals(M))
    BY <1>5, <1>10 DEF ValidConst, Leaves, In
  <2>3. d.offset.x < Len(r.globaladdrs)
    BY <1>1, <1>6, <2>1, <2>2
  <2>4. d.offset.x + 1 \in 1 .. Len(r.globaladdrs)
    BY <1>1, <2>1, <2>3
  <2>5. At(r.globaladdrs, d.offset.x) \in Elems(r.globaladdrs)
    BY <2>4 DEF At, Elems
  <2>6. Elems(r.globaladdrs) \subseteq 1 .. Len(S.globals)
    BY DEF Held, AddressOf, Addrs, Kinds
  <2>7. QED
    BY <2>1, <2>3, <2>5, <2>6
<1>11. QED
  BY <1>3, <1>8, <1>9, <1>10

\* An element of a sequence stays where it is when one is appended.
LEMMA AppendedKeeps ==
    ASSUME NEW s \in Seq(Nat), NEW a, NEW x \in Nat, x < Len(s)
    PROVE  At(Append(s, a), x) = At(s, x)
  BY SMTT(40) DEF At

\* What is in place stays in place.
LEMMA StaysInPlace ==
    ASSUME LInv, [Next]_vars, NEW i \in 1 .. Len(insts), NEW M, M = Modules[insts[i].module],
           NEW d \in Elems(M.datas), d.mode = "active",
           InPlace(insts[i], d, i, globals, mems)
    PROVE  InPlace(insts'[i], d, i, globals', mems')
<1> DEFINE r == insts[i]
           q == insts'[i]
           b == r.memaddrs[1]
<1>1. insts \in Seq(InstSet) /\ Len(insts) \in Nat /\ Store \in StoreSet /\ job \in {Idle} \cup JobSet
  BY StoreTyped DEF LInv, TypeOK
<1>2. r \in InstSet /\ IsModule(M) /\ r.globaladdrs \in Seq(Nat)
  BY <1>1, InstTyped
<1>3. GlobalsOf(M, i, job) \in Nat /\ Held(r, Store)
      /\ FilledTo(r, GlobalsOf(M, i, job), ElemsOf(M, i, job))
  BY <1>1, <1>2, GlobalsNat DEF LInv, InstsOK, InstOK
<1>4. /\ b \in 1 .. Len(mems) /\ d.offset.op \in {"i32", "get"}
      /\ d.offset.op = "get" => /\ d.offset.x \in Nat /\ d.offset.x < Len(r.globaladdrs)
                                /\ At(r.globaladdrs, d.offset.x) \in 1 .. Len(globals)
  <2> HIDE DEF r
  <2>1. M = Modules[r.module]
    BY DEF r
  <2>2. QED
    BY <1>1, <1>2, <1>3, <2>1, ActiveData, StoreFields
<1>5. q.memaddrs = r.memaddrs
      /\ (q.globaladdrs = r.globaladdrs \/ q.globaladdrs = Append(r.globaladdrs, Len(globals) + 1))
  BY InstsAfter
<1>6. \A a \in 1 .. Len(globals) : globals'[a] = globals[a]
  BY NextOK, StoreFields, NextFields DEF Grown
<1> DEFINE v == ValueIn(r, d.offset, globals)
<1>7. ValueIn(q, d.offset, globals') = v
  <2>1. CASE d.offset.op = "i32"
    BY <2>1 DEF ValueIn
  <2>2. CASE d.offset.op = "get"
    <3>1. At(q.globaladdrs, d.offset.x) = At(r.globaladdrs, d.offset.x)
      BY <1>2, <1>4, <1>5, <2>2, AppendedKeeps
    <3>2. globals'[At(r.globaladdrs, d.offset.x)] = globals[At(r.globaladdrs, d.offset.x)]
      BY <1>4, <1>6, <2>2
    <3>3. QED
      BY <2>2, <3>1, <3>2 DEF ValueIn
  <2>3. QED
    BY <1>4, <2>1, <2>2
<1> HIDE DEF v, b
<1>8. ASSUME NEW k \in v + 1 .. v + d.len
      PROVE  k \in 1 .. Len(mems'[b].bytes) /\ mems'[b].bytes[k] >= i
  <2>1. k \in 1 .. Len(mems[b].bytes) /\ mems[b].bytes[k] >= i
    BY DEF InPlace, v, b
  <2>2. /\ Len(mems[b].bytes) \in Nat /\ PageSize \in Nat
    BY <1>4, MemTyped, LoaderAssumption
  <2>3. \/ Len(mems'[b].bytes) = Len(mems[b].bytes)
        \/ Len(mems'[b].bytes) = Len(mems[b].bytes) + PageSize
    BY <1>4, MemAfter
  <2>4. k \in 1 .. Len(mems'[b].bytes)
    BY <2>1, <2>2, <2>3
  <2>5. mems'[b].bytes[k] = mems[b].bytes[k] \/ (job.step = "mems" /\ mems'[b].bytes[k] = job.inst)
    BY <1>4, <2>1, MemAfter
  <2>6. job.step = "mems" => job.inst >= i
    BY <1>1, JobFacts
  <2>7. QED
    BY <2>1, <2>4, <2>5, <2>6
<1>9. QED
  BY <1>5, <1>7, <1>8 DEF InPlace, b

\* The step that writes a segment puts it in place.
LEMMA PutInPlace ==
    ASSUME LInv, DatasLen, InitMems, job.i <= Len(Mod.datas), job' # Idle,
           Mod.datas[job.i].mode = "active"
    PROVE  InPlace(Inst, Mod.datas[job.i], job.inst, globals, mems')
<1> DEFINE d == Mod.datas[job.i]
           b == At(Inst.memaddrs, 0)
           at == Eval(d.offset)
           l == datas[Inst.dataaddrs[job.i]]
           xs == [k \in 1 .. l |-> job.inst]
<1>1. /\ job.step = "mems" /\ job.i \in Nat /\ job.i >= 1 /\ Len(Mod.datas) \in Nat
      /\ ~(job.i > Len(Mod.datas)) /\ job.inst \in 1 .. Len(insts) /\ Len(insts) \in Nat
  <2>1. job.step = "mems"
    BY DEF InitMems
  <2>2. job.inst \in 1 .. Len(insts) /\ Len(insts) \in Nat
    BY <2>1, JobFacts, SMTT(40) DEF LInv, TypeOK
  <2>3. QED
    BY <2>1, <2>2, JobIndex
<1>2. b \in 1 .. Len(mems) /\ at \in Nat /\ l \in Nat
  BY <1>1, DataSegment
<1>3. l = d.len
  <2>1. Len(Inst.dataaddrs) = Len(Mod.datas)
    BY <1>1, JobFacts DEF FilledTo, Mod
  <2>2. job.i \in 1 .. Len(Inst.dataaddrs)
    BY <1>1, <2>1
  <2>3. QED
    BY <1>1, <2>2 DEF DatasLen, Inst, Mod
<1>4. InitMem
  BY <1>1 DEF InitMems
<1>5. xs \in Seq(Nat) /\ Len(xs) = l /\ \A k \in 1 .. l : xs[k] = job.inst
  BY <1>1, <1>2
<1>6. ~(at + Len(xs) > Len(mems[b].bytes))
      /\ mems' = [mems EXCEPT ![b].bytes = Written(mems[b].bytes, at, xs)]
  BY <1>4 DEF InitMem, Fail
<1>7. at = ValueIn(Inst, d.offset, globals)
  <2>1. /\ Inst \in InstSet /\ Held(Inst, Store) /\ Store \in StoreSet
        /\ FilledTo(Inst, GlobalsOf(Mod, job.inst, job), ElemsOf(Mod, job.inst, job))
        /\ GlobalsOf(Mod, job.inst, job) \in Nat /\ Mod = Modules[Inst.module]
    BY <1>1, JobFacts DEF Mod
  <2>2. d \in Elems(Mod.datas)
    BY <1>1 DEF Elems
  <2>3. d.offset.op \in {"i32", "get"}
    <3> HIDE DEF d
    <3>1. d.mode = "active"
      BY DEF d
    <3>2. QED
      BY <2>1, <2>2, <3>1, ActiveData
  <2>4. QED
    BY <2>3 DEF Eval, ValueIn
<1>8. b = Inst.memaddrs[1]
  BY DEF At
<1> DEFINE old == mems[b].bytes
           w == Written(old, at, xs)
<1>9. old \in Seq(Nat)
  BY <1>2, MemTyped
<1> HIDE DEF at, l, xs, b, old
<1>10. w \in Seq(Nat) /\ Len(w) = Len(old)
  BY <1>2, <1>5, <1>9, WrittenNat
<1>11. \A k \in 1 .. Len(old) : w[k] = IF k \in at + 1 .. at + Len(xs) THEN xs[k - at] ELSE old[k]
  BY <1>2, <1>5, <1>9, WrittenNat, SMTT(40)
<1>12. mems'[b].bytes = w
  <2>1. mems' = [mems EXCEPT ![b].bytes = w]
    BY <1>6 DEF old
  <2> HIDE DEF w
  <2>2. QED
    BY <1>2, <1>10, <2>1, MemChanged
<1> HIDE DEF w
<1>13. ASSUME NEW k \in at + 1 .. at + l
       PROVE  k \in 1 .. Len(w) /\ w[k] >= job.inst
  <2> DEFINE n == Len(xs)
             m == Len(old)
  <2>0. ~(at + n > m)
    BY <1>6 DEF old
  <2>1. m \in Nat /\ at \in Nat /\ l \in Nat /\ n = l
    BY <1>2, <1>5, <1>9
  <2>2. k \in 1 .. Len(old) /\ k - at \in 1 .. l
    <3> HIDE DEF n, m
    <3>1. k \in 1 .. m /\ k - at \in 1 .. l
      BY <2>0, <2>1
    <3>2. QED
      BY <3>1 DEF m
  <2>3. w[k] = job.inst
    BY <1>5, <1>11, <2>2
  <2>4. QED
    BY <1>1, <1>10, <2>2, <2>3
<1>14. QED
  BY <1>3, <1>7, <1>8, <1>12, <1>13 DEF InPlace, at

\* An active or declarative segment is dropped in the step that reaches it.
LEMMA DropsElem ==
    ASSUME LInv, InitTables, job.i <= Len(Mod.elems), job' # Idle, Mod.elems[job.i].mode # "passive"
    PROVE  elems'[Inst.elemaddrs[job.i]] = <<>>
<1>1. /\ job.step = "tables" /\ ~(job.i > Len(Mod.elems))
  <2>1. job.step = "tables"
    BY DEF InitTables
  <2>2. QED
    BY <2>1, JobIndex
<1>2. /\ Inst.elemaddrs[job.i] \in 1 .. Len(elems)
      /\ Mod.elems[job.i].mode \in {"active", "passive", "declarative"}
  BY <1>1, ElemSegment
<1>3. elems' = Dropped
  <2>1. CASE Mod.elems[job.i].mode = "active"
    <3>1. InitTable
      BY <1>1, <2>1 DEF InitTables
    <3>2. QED
      BY <3>1 DEF InitTable, Fail
  <2>2. CASE Mod.elems[job.i].mode = "declarative"
    BY <1>1, <2>2 DEF InitTables
  <2>3. QED
    BY <1>2, <2>1, <2>2
<1>4. elems \in Seq(Seq(Nat))
  BY DEF LInv, TypeOK
<1>5. QED
  BY <1>2, <1>3, <1>4 DEF Dropped

\* Every step keeps the segments that are done in place, and adds the one it does.
LEMMA SegmentsNext ==
    ASSUME LInv, Owners, DatasLen, Segments, [Next]_vars
    PROVE  Segments'
<1>0. /\ insts \in Seq(InstSet) /\ Len(insts) \in Nat
  BY DEF LInv, TypeOK
<1>1. ASSUME NEW i \in 1 .. Len(insts), Kept(i)'
      PROVE  LET q == insts'[i]
                 M == Modules[q.module]
             IN  /\ \A n \in 1 .. Len(M.datas) :
                       n <= DatasDone(M, i, job') /\ M.datas[n].mode = "active" =>
                           InPlace(q, M.datas[n], i, globals', mems')
                 /\ \A n \in 1 .. Len(M.elems) :
                       n <= ElemsDone(M, i, job') /\ M.elems[n].mode # "passive" =>
                           elems'[q.elemaddrs[n]] = <<>>
  <2> DEFINE r == insts[i]
             q == insts'[i]
             M == Modules[r.module]
  <2>1. Kept(i)
    BY <1>1, KeptBefore
  <2>2. /\ q.module = r.module
        /\ \/ q.elemaddrs = r.elemaddrs
           \/ job.step = "elems" /\ i = job.inst
        /\ q.memaddrs = r.memaddrs
    BY InstsAfter
  <2>3. IsModule(M)
    BY <1>0, InstTyped
  <2>4. ASSUME NEW n \in 1 .. Len(M.datas), n <= DatasDone(M, i, job'), M.datas[n].mode = "active"
        PROVE  InPlace(q, M.datas[n], i, globals', mems')
    <3>1. M.datas[n] \in Elems(M.datas)
      BY DEF Elems
    <3>2. CASE n <= DatasDone(M, i, job)
      <4>1. InPlace(r, M.datas[n], i, globals, mems)
        BY <2>1, <2>4, <3>2 DEF Segments
      <4>2. QED
        BY <2>4, <3>1, <4>1, StaysInPlace
    <3>3. CASE InitMems /\ job.inst = i /\ n = job.i /\ job.i <= Len(Mod.datas) /\ job' # Idle
      <4>1. M = Mod /\ r = Inst
        BY <3>3 DEF Mod, Inst
      <4>2. InPlace(r, M.datas[n], i, globals, mems')
        BY <2>4, <3>3, <4>1, PutInPlace
      <4>3. globals' = globals /\ q = r
        BY <3>3 DEF InitMems
      <4>4. QED
        BY <4>2, <4>3
    <3>4. QED
      BY <1>1, <2>4, <3>2, <3>3, NextData
  <2>5. ASSUME NEW n \in 1 .. Len(M.elems), n <= ElemsDone(M, i, job'), M.elems[n].mode # "passive"
        PROVE  elems'[q.elemaddrs[n]] = <<>>
    <3>1. CASE n <= ElemsDone(M, i, job)
      <4>1. elems[r.elemaddrs[n]] = <<>>
        BY <2>1, <2>5, <3>1 DEF Segments
      <4>2. ~(job.step \in {"globals", "elems"} /\ i = job.inst)
        <5>1. ASSUME job.step \in {"globals", "elems"}, i = job.inst
              PROVE  FALSE
          <6>1. ElemsDone(M, i, job) = 0
            BY <5>1 DEF ElemsDone
          <6>2. QED
            BY <3>1, <6>1
        <5>2. QED
          BY <5>1
      <4>3. q.elemaddrs = r.elemaddrs
        BY <2>2, <4>2
      <4>4. r.elemaddrs[n] \in 1 .. Len(elems)
        <5>1. ElemsOf(M, i, job) = Len(M.elems)
          BY <4>2 DEF ElemsOf
        <5>2. Held(r, Store) /\ Len(r.elemaddrs) = Len(M.elems)
          <6>1. InstOK(r, GlobalsOf(M, i, job), ElemsOf(M, i, job), Store)
            BY DEF LInv, InstsOK
          <6>2. QED
            BY <5>1, <6>1 DEF InstOK, FilledTo
        <5>3. r.elemaddrs[n] \in Elems(r.elemaddrs)
          BY <5>2 DEF Elems
        <5>4. QED
          BY <5>2, <5>3, StoreFields DEF Held
      <4>5. elems'[r.elemaddrs[n]] = elems[r.elemaddrs[n]] \/ elems'[r.elemaddrs[n]] = <<>>
        BY <4>4, ElemsAfter
      <4>6. QED
        BY <4>1, <4>3, <4>5
    <3>2. CASE InitTables /\ job.inst = i /\ n = job.i /\ job.i <= Len(Mod.elems) /\ job' # Idle
      <4>1. M = Mod /\ r = Inst
        BY <3>2 DEF Mod, Inst
      <4>2. elems'[r.elemaddrs[n]] = <<>>
        BY <2>5, <3>2, <4>1, DropsElem
      <4>3. q = r
        BY <3>2 DEF InitTables
      <4>4. QED
        BY <4>2, <4>3
    <3>3. QED
      BY <1>1, <2>5, <3>1, <3>2, NextElem
  <2>6. Modules[q.module] = M
    BY <2>2
  <2> HIDE DEF M, q, r
  <2>7. QED
    BY <2>4, <2>5, <2>6 DEF q
<1>2. CASE \E m \in DOMAIN Modules, name \in Ids \cup {NoName} : BeginInstantiate(m, name)
  <2>1. /\ Len(insts') = Len(insts) + 1 /\ job'.step = "globals" /\ job'.inst = Len(insts) + 1
    BY <1>2, Begun
  <2>2. \A i \in 1 .. Len(insts') : i \in 1 .. Len(insts) \/ i = Len(insts) + 1
    BY <1>0, <2>1
  <2>3. \A M : ElemsDone(M, Len(insts) + 1, job') = 0 /\ DatasDone(M, Len(insts) + 1, job') = 0
    BY <2>1 DEF ElemsDone, DatasDone
  <2>4. \A k : \A n \in 1 .. k : ~(n <= 0)
    OBVIOUS
  <2> DEFINE Done(i) ==
        LET q == insts'[i]
            M == Modules[q.module]
        IN  /\ \A n \in 1 .. Len(M.datas) :
                  n <= DatasDone(M, i, job') /\ M.datas[n].mode = "active" =>
                      InPlace(q, M.datas[n], i, globals', mems')
            /\ \A n \in 1 .. Len(M.elems) :
                  n <= ElemsDone(M, i, job') /\ M.elems[n].mode # "passive" =>
                      elems'[q.elemaddrs[n]] = <<>>
  <2>5. Done(Len(insts) + 1)
    BY <2>3, <2>4
  <2>6. \A i \in 1 .. Len(insts) : Kept(i)' => Done(i)
    BY <1>1
  <2> HIDE DEF Done
  <2>7. \A i \in 1 .. Len(insts') : Kept(i)' => Done(i)
    BY <2>2, <2>5, <2>6
  <2>8. QED
    BY <2>7 DEF Done, Segments
<1>3. CASE ~ \E m \in DOMAIN Modules, name \in Ids \cup {NoName} : BeginInstantiate(m, name)
  <2>1. Len(insts') = Len(insts)
    BY <1>3, NoInstMade, SMTT(40)
  <2>2. QED
    BY <1>1, <2>1 DEF Segments
<1>4. QED
  BY <1>2, <1>3

\* Segments done are all segments when the instance is linked.
LEMMA SegmentsKept ==
    ASSUME LInv, Owners, DatasLen, Segments
    PROVE  SegmentsInPlace
<1> SUFFICES ASSUME NEW t \in Elems(test_modules)
             PROVE  LET i == insts[t.inst]
                        M == Modules[i.module]
                    IN  /\ \A n \in DOMAIN M.datas : M.datas[n].mode = "active" =>
                               LET at == ValueOf(i, M.datas[n].offset)
                               IN  \A k \in at + 1 .. at + M.datas[n].len :
                                      /\ k \in DOMAIN mems[i.memaddrs[1]].bytes
                                      /\ mems[i.memaddrs[1]].bytes[k] >= t.inst
                        /\ \A n \in DOMAIN M.elems :
                               M.elems[n].mode # "passive" => elems[i.elemaddrs[n]] = <<>>
  BY DEF SegmentsInPlace
<1> DEFINE j == t.inst
           i == insts[j]
           M == Modules[i.module]
<1>1. /\ insts \in Seq(InstSet) /\ Len(insts) \in Nat /\ test_modules \in Seq(TestModuleSet)
      /\ Store \in StoreSet /\ job \in {Idle} \cup JobSet
  BY StoreTyped DEF LInv, TypeOK
<1>2. PICK k \in DOMAIN test_modules : t = test_modules[k]
  BY <1>1 DEF Elems
<1>3. j \in 1 .. Len(insts) /\ Kept(j)
  BY <1>1, <1>2 DEF LInv, HostOK, Kept
<1>4. ~(job.step # "idle" /\ job.inst = j)
  <2>1. job.step # "idle" => job # Idle
    BY DEF Idle
  <2>2. QED
    BY <1>2, <2>1 DEF Owners
<1>5. i \in InstSet /\ IsModule(M) /\ M.datas \in Seq(DataDecl) /\ M.elems \in Seq(ElemDecl)
  <2>1. i \in InstSet
    BY <1>1, <1>3
  <2>2. QED
    BY <2>1, InstTyped DEF IsModule
<1>6. /\ Held(i, Store) /\ GlobalsOf(M, j, job) \in Nat
      /\ FilledTo(i, GlobalsOf(M, j, job), ElemsOf(M, j, job))
  BY <1>1, <1>3, <1>5, GlobalsNat DEF LInv, InstsOK, InstOK
<1>7. DatasDone(M, j, job) = Len(M.datas) /\ ElemsDone(M, j, job) = Len(M.elems)
  BY <1>4 DEF DatasDone, ElemsDone
<1>8. /\ \A n \in 1 .. Len(M.datas) : M.datas[n].mode = "active" =>
            InPlace(i, M.datas[n], j, globals, mems)
      /\ \A n \in 1 .. Len(M.elems) : M.elems[n].mode # "passive" => elems[i.elemaddrs[n]] = <<>>
  <2>1. \A n \in 1 .. Len(M.datas) : n <= Len(M.datas)
    BY <1>5
  <2>2. \A n \in 1 .. Len(M.elems) : n <= Len(M.elems)
    BY <1>5, SMTT(40)
  <2>3. /\ \A n \in 1 .. Len(M.datas) :
              n <= DatasDone(M, j, job) /\ M.datas[n].mode = "active" =>
                  InPlace(i, M.datas[n], j, globals, mems)
        /\ \A n \in 1 .. Len(M.elems) :
              n <= ElemsDone(M, j, job) /\ M.elems[n].mode # "passive" =>
                  elems[i.elemaddrs[n]] = <<>>
    BY <1>3, ZenonT(40) DEF Segments
  <2> HIDE DEF M, i, j
  <2>4. QED
    BY <1>7, <2>1, <2>2, <2>3
<1>9. ASSUME NEW n \in 1 .. Len(M.datas), M.datas[n].mode = "active"
      PROVE  LET at == ValueOf(i, M.datas[n].offset)
             IN  \A x \in at + 1 .. at + M.datas[n].len :
                    /\ x \in DOMAIN mems[i.memaddrs[1]].bytes
                    /\ mems[i.memaddrs[1]].bytes[x] >= j
  <2> DEFINE d == M.datas[n]
             b == i.memaddrs[1]
  <2>1. InPlace(i, d, j, globals, mems)
    BY <1>8, <1>9
  <2>2. d \in Elems(M.datas)
    BY DEF Elems
  <2>3. b \in 1 .. Len(mems) /\ d.offset.op \in {"i32", "get"}
    <3> HIDE DEF d, i
    <3>1. M = Modules[i.module] /\ d.mode = "active"
      BY <1>9 DEF d, i
    <3> HIDE DEF M
    <3>2. QED
      BY <1>1, <1>5, <1>6, <2>2, <3>1, ActiveData, StoreFields
  <2>4. mems[b].bytes \in Seq(Nat)
    BY <2>3, MemTyped
  <2>5. DOMAIN mems[b].bytes = 1 .. Len(mems[b].bytes)
    BY <2>4
  <2>6. ValueOf(i, d.offset) = ValueIn(i, d.offset, globals)
    BY <2>3 DEF ValueOf, ValueIn
  <2>7. QED
    BY <2>1, <2>5, <2>6, ZenonT(40) DEF InPlace
<1>10. DOMAIN M.datas = 1 .. Len(M.datas) /\ DOMAIN M.elems = 1 .. Len(M.elems)
  BY <1>5
<1>11. QED
  BY <1>8, <1>9, <1>10, ZenonT(40)

\* An instance the runner keeps has its active data in memory, except where a
\* later instance wrote over it, and its active and declarative element
\* segments are dropped (instantiate, elem.drop).
THEOREM SpecSegments == Spec => []SegmentsInPlace
<1>1. Init => Owners /\ DatasLen /\ Segments
  BY DEF Init, Owners, DatasLen, Segments, Idle
<1>2. LInv /\ (Owners /\ DatasLen /\ Segments) /\ [Next]_vars => (Owners /\ DatasLen /\ Segments)'
  BY OwnersNext, DatasNext, SegmentsNext
<1>3. LInv /\ (Owners /\ DatasLen /\ Segments) => SegmentsInPlace
  BY SegmentsKept
<1>4. QED
  BY <1>1, <1>2, <1>3, LInvHolds, PTL DEF Spec
=============================================================================
