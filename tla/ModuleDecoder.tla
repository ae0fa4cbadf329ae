--------------------------- MODULE ModuleDecoder ---------------------------
(***************************************************************************)
(* decode_module: the sections of an image in their order, and what they   *)
(* leave in the module for one another.  A section is what the decoder sees *)
(* of it: its id, how many entries it announces, whether they fill it, and  *)
(* whether a function body names a data segment.  The image is made up as   *)
(* it is read.                                                              *)
(***************************************************************************)
EXTENDS Integers, Sequences

CONSTANTS
    Counts,        \* the numbers of entries a section announces,
    DataCounts,    \* and the data count section
    Beyond,        \* ids the memory behind section_order may hold
    LoneDataCount, \* whether the data section behind a data count may be left out
    OddKinds,      \* {"odd"} if data segments may be of an unknown kind, or {}
    MaxSections    \* the most sections of an image

ASSUME CountAssumption == Counts \subseteq Nat /\ DataCounts \subseteq Nat
ASSUME ImageAssumption == OddKinds \subseteq {"odd"} /\ LoneDataCount \in BOOLEAN /\ MaxSections \in Nat

Custom == 0
Func == 3
Start == 8
Code == 10
Data == 11
DataCount == 12

section_order == <<1, 2, 3, 4, 5, 6, 7, 8, 9, 12, 10, 11>>

\* Sections whose entries no other section of the binary format depends on.
Plain == {1, 2, 4, 5, 6, 7, 9}
Known == {section_order[k] : k \in 1 .. 12}

ASSUME BeyondAssumption == Beyond \subseteq Known

\* An image: ids above 12 are all alike.  "short" is a section whose entries
\* run over its end or are malformed, "long" one with bytes left behind them,
\* "cut" one that is longer than the image, and in an "odd" one the switch of
\* decode_datasec has no case for a segment.
Sections ==
    [id : Plain \cup {Custom, Start, 13}, n : {1}, fit : {"exact", "short", "long", "cut"}, uses : {FALSE}]
    \cup [id : {Func}, n : Counts, fit : {"exact", "long"}, uses : {FALSE}]
    \cup [id : {Data}, n : Counts, fit : {"exact", "long"} \cup OddKinds, uses : {FALSE}]
    \cup [id : {Code}, n : Counts, fit : {"exact", "short"}, uses : BOOLEAN]
    \cup [id : {DataCount}, n : DataCounts, fit : {"exact", "long"}, uses : {FALSE}]

VARIABLES
    image,       \* the sections read so far
    expected_id, \* the place in section_order the next one is looked for from
    funcs,       \* mod->funcs: whether the entry has its body,
    datas,       \* mod->datas: whether the entry has its mode and bytes
    vecs,        \* the lengths of the other vectors
    num_codes,
    has_start,
    out          \* "header", "sections", "module", "refused" or "incomplete"

vars == <<image, expected_id, funcs, datas, vecs, num_codes, has_start, out>>
module == <<funcs, datas, vecs, num_codes, has_start>>

Init ==
    /\ image = <<>>
    /\ expected_id = 0
    /\ funcs = <<>>
    /\ datas = <<>>
    /\ vecs = [id \in Plain |-> 0]
    /\ num_codes = 0
    /\ has_start = FALSE
    /\ out = "header"

\* Magic and version.
DecodeHeader(good) ==
    /\ out = "header"
    /\ out' = IF good THEN "sections" ELSE "refused"
    /\ UNCHANGED <<image, expected_id, module>>

Entries(n, decoded) == [i \in 1 .. n |-> decoded]

\* Mutant: the search starts at the section that was found last.
FoundAtFromLast(id) ==
    IF expected_id < 12
    THEN {k \in (IF expected_id = 0 THEN 0 ELSE expected_id - 1) .. 11 : section_order[k + 1] = id}
    ELSE {k \in {expected_id} : id \in Beyond}

\* section_order[expected_id++] != id: the places where the search may stop.
\* After the last section it reads what lies behind the array.
FoundAt(id) ==
    IF expected_id < 12
    THEN {k \in expected_id .. 11 : section_order[k + 1] = id}
    ELSE {k \in {expected_id} : id \in Beyond}

\* Mutant: a code section may be shorter than the function section.
CodeMatchesAtMost(s) == s.n <= Len(funcs)

CodeMatches(s) == s.n = Len(funcs)

\* Without entries there is no data count, whatever the section said.
DataMatches(s) == datas # <<>> => s.n = Len(datas)

\* memory.init and data.drop want the data count.
DataKnown(s) == s.uses => datas # <<>>

Fits(s) ==
    IF s.id = Custom THEN s.fit \in {"exact", "long"} ELSE s.fit \in {"exact", "odd"}

Accepted(s) ==
    /\ s.id # 13
    /\ s.id # Custom => FoundAt(s.id) # {}
    /\ Fits(s)
    /\ s.id = Code => CodeMatches(s) /\ DataKnown(s)
    /\ s.id = Data => DataMatches(s)

\* Mutant: the data section fills only entries it makes itself.
DecodedKeeps(s) ==
    /\ funcs' = CASE s.id = Func -> Entries(s.n, FALSE)
                  [] s.id = Code -> Entries(s.n, TRUE)
                  [] OTHER -> funcs
    /\ datas' = CASE s.id = DataCount -> Entries(s.n, FALSE)
                  [] s.id = Data /\ datas = <<>> -> Entries(s.n, s.fit = "exact")
                  [] OTHER -> datas
    /\ vecs' = IF s.id \in Plain THEN [vecs EXCEPT ![s.id] = s.n] ELSE vecs
    /\ num_codes' = IF s.id = Code THEN s.n ELSE num_codes
    /\ has_start' = (has_start \/ s.id = Start)

\* What the section's decoder leaves in the module.
Decoded(s) ==
    /\ funcs' = CASE s.id = Func -> Entries(s.n, FALSE)
                  [] s.id = Code -> Entries(s.n, TRUE)
                  [] OTHER -> funcs
    /\ datas' = CASE s.id = DataCount -> Entries(s.n, FALSE)
                  [] s.id = Data -> Entries(s.n, s.fit = "exact")
                  [] OTHER -> datas
    /\ vecs' = IF s.id \in Plain THEN [vecs EXCEPT ![s.id] = s.n] ELSE vecs
    /\ num_codes' = IF s.id = Code THEN s.n ELSE num_codes
    /\ has_start' = (has_start \/ s.id = Start)

Advance(s) ==
    IF s.id = Custom
    THEN UNCHANGED expected_id
    ELSE \E k \in FoundAt(s.id) : expected_id' = k + 1

DecodeSection(s) ==
    /\ out = "sections"
    /\ Len(image) < MaxSections
    /\ Accepted(s)
    /\ image' = Append(image, s)
    /\ Advance(s)
    /\ Decoded(s)
    /\ UNCHANGED out

\* Some check of the section fails; the caller forgets the module.
RefuseSection(s) ==
    /\ out = "sections"
    /\ Len(image) < MaxSections
    /\ ~Accepted(s)
    /\ image' = Append(image, s)
    /\ out' = "refused"
    /\ UNCHANGED <<expected_id, module>>

\* The image ends.
DecodeEnd ==
    /\ out = "sections"
    /\ LoneDataCount \/ datas = <<>> \/ \E i \in 1 .. Len(image) : image[i].id = Data
    /\ out' = IF num_codes = Len(funcs) THEN "module" ELSE "incomplete"
    /\ UNCHANGED <<image, expected_id, module>>

Next ==
    \/ \E good \in BOOLEAN : DecodeHeader(good)
    \/ \E s \in Sections : DecodeSection(s) \/ RefuseSection(s)
    \/ DecodeEnd

Spec == Init /\ [][Next]_vars
-----------------------------------------------------------------------------

\* The fields have their types, and expected_id stays at most one past
\* section_order unless the bytes behind it can pass for a section.
TypeOK ==
    /\ image \in Seq(Sections) /\ Len(image) <= MaxSections
    /\ expected_id \in 0 .. IF Beyond = {} THEN 12 ELSE 12 + MaxSections
    /\ funcs \in Seq(BOOLEAN) /\ datas \in Seq(BOOLEAN)
    /\ vecs \in [Plain -> Nat]
    /\ num_codes \in Nat
    /\ has_start \in BOOLEAN
    /\ out \in {"header", "sections", "module", "refused", "incomplete"}

Read(id) == {i \in 1 .. Len(image) : image[i].id = id}
Rank(id) == CHOOSE k \in 1 .. 12 : section_order[k] = id

\* The sections accepted so far: all but the last when that one was refused.
Taken == IF out = "refused" /\ image # <<>> THEN 1 .. Len(image) - 1 ELSE 1 .. Len(image)

\* "Make sure that the section is in order and only appears once"
\* (decode.c:1167): no section other than a custom one is taken behind itself
\* or behind a later one.
SectionsInOrder ==
    \A i, j \in Taken :
        i < j /\ Custom \notin {image[i].id, image[j].id}
            => Rank(image[i].id) < Rank(image[j].id)

\* A module that is handed on is complete: each of its functions has a body
\* and each of its data segments a mode and bytes, for the validator and
\* instantiate read all of them.
EntriesDecoded ==
    out = "module" =>
        /\ \A i \in 1 .. Len(funcs) : funcs[i]
        /\ \A i \in 1 .. Len(datas) : datas[i]

\* "check that length of vector matches datacount if datacount section
\* present" (decode.c:1067): a data section that was taken has as many segments
\* as the data count section said.
DataCountHonoured ==
    \A i \in Read(DataCount) \cap Taken, j \in Read(Data) \cap Taken :
        image[i].n = image[j].n

-----------------------------------------------------------------------------
(* The binary format of a module, of all its sections at once.             *)

WellFormed(s) == s.id # 13 /\ Fits(s)

InOrder ==
    \A i, j \in 1 .. Len(image) :
        i < j /\ Custom \notin {image[i].id, image[j].id}
            => Rank(image[i].id) < Rank(image[j].id)

Announced(id) == IF Read(id) = {} THEN 0 ELSE image[CHOOSE i \in Read(id) : TRUE].n

\* Beginnings of modules, as far as one can tell behind the last section.
IsBeginning ==
    /\ \A i \in 1 .. Len(image) : WellFormed(image[i])
    /\ InOrder
    /\ Read(Code) # {} => Announced(Code) = Announced(Func)
    /\ Read(DataCount) # {} /\ Read(Data) # {} => Announced(Data) = Announced(DataCount)
    /\ \A i \in Read(Code) : image[i].uses => Read(DataCount) # {}

IsModule ==
    /\ IsBeginning
    /\ Announced(Code) = Announced(Func)
    /\ Read(DataCount) # {} => Announced(Data) = Announced(DataCount)

\* The decoder, which goes through the image once and remembers a place in
\* section_order and two lengths, accepts the modules of the binary format and
\* nothing else, and refuses an image at the section that spoils it.
AcceptsTheFormat ==
    /\ out = "sections" => IsBeginning
    /\ out = "module" => IsModule
    /\ out = "incomplete" => ~IsModule
    /\ out = "refused" => image = <<>> \/ ~IsBeginning
=============================================================================
