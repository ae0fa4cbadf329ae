--------------------------- MODULE DecoderProofs ---------------------------
(***************************************************************************)
(* Proofs about the module decoder, for images of any length and sections  *)
(* of any size: what it remembers of them is enough to accept the modules  *)
(* of the binary format and nothing else.                                  *)
(***************************************************************************)
EXTENDS ModuleDecoder, TLAPS

\* Images the decoder goes through without leaving section_order, whose data
\* count is not 0 and is followed by a data section of known kinds.
OrderlyImages ==
    /\ Beyond = {}
    /\ OddKinds = {}
    /\ LoneDataCount = FALSE
    /\ 0 \notin DataCounts

Has(id) == \E i \in Taken : image[i].id = id

\* expected_id is past every section that was taken.
OrderRemembered ==
    \A i \in Taken : image[i].id # Custom =>
        image[i].id \in Known /\ Rank(image[i].id) <= expected_id

\* What the lengths of the vectors say about the sections taken.
VectorsRemember ==
    /\ ~Has(Code) => num_codes = 0
    /\ Has(Code) => \A i \in 1 .. Len(funcs) : funcs[i]
    /\ Has(Data) => \A i \in 1 .. Len(datas) : datas[i]
    /\ ~Has(Data) /\ ~Has(DataCount) => datas = <<>>
    /\ ~Has(Data) => \A i \in Taken : image[i].id = DataCount => Len(datas) = image[i].n

HeaderFirst == out = "header" => image = <<>>

DInv ==
    /\ TypeOK
    /\ HeaderFirst
    /\ OrderRemembered
    /\ SectionsInOrder
    /\ VectorsRemember
    /\ DataCountHonoured
    /\ EntriesDecoded

-----------------------------------------------------------------------------

\* The fields of a section.
LEMMA SectionFacts ==
    ASSUME NEW s \in Sections
    PROVE  /\ s.id \in Plain \cup {Custom, Func, Start, Code, Data, DataCount, 13}
           /\ s.n \in Nat
           /\ s.id = DataCount => s.n \in DataCounts
           /\ s.fit \in {"exact", "long", "short", "cut"} \cup OddKinds
<1> DEFINE P == [id : Plain \cup {Custom, Start, 13}, n : {1},
                 fit : {"exact", "short", "long", "cut"}, uses : {FALSE}]
           F == [id : {Func}, n : Counts, fit : {"exact", "long"}, uses : {FALSE}]
           D == [id : {Data}, n : Counts, fit : {"exact", "long"} \cup OddKinds, uses : {FALSE}]
           C == [id : {Code}, n : Counts, fit : {"exact", "short"}, uses : BOOLEAN]
           N == [id : {DataCount}, n : DataCounts, fit : {"exact", "long"}, uses : {FALSE}]
<1>1. s \in P \/ s \in F \/ s \in D \/ s \in C \/ s \in N
  BY DEF Sections
<1>2. DataCount \notin Plain \cup {Custom, Start, 13} /\ DataCount \notin {Func, Data, Code}
  BY DEF Plain, Custom, Func, Start, Code, Data, DataCount
<1>3. CASE s \in P
  BY <1>2, <1>3
<1>4. CASE s \in F
  BY <1>2, <1>4, CountAssumption
<1>5. CASE s \in D
  BY <1>2, <1>5, CountAssumption
<1>6. CASE s \in C
  BY <1>2, <1>6, CountAssumption
<1>7. CASE s \in N
  BY <1>7, CountAssumption
<1> QED
  BY <1>1, <1>3, <1>4, <1>5, <1>6, <1>7

\* No id is in section_order twice.
LEMMA OrderInjective ==
    \A j, k \in 1 .. 12 : section_order[j] = section_order[k] => j = k
BY DEF section_order

\* Rank is the place of an id in section_order.
LEMMA RankOf ==
    ASSUME NEW k \in 1 .. 12
    PROVE  Rank(section_order[k]) = k
BY OrderInjective DEF Rank

\* The search stops behind every section that was taken.
LEMMA FoundFacts ==
    ASSUME TypeOK, Beyond = {}, NEW id, NEW k \in FoundAt(id)
    PROVE  /\ id \in Known
           /\ k \in expected_id .. 11
           /\ Rank(id) = k + 1
<1>1. k \in expected_id .. 11 /\ section_order[k + 1] = id
  BY DEF FoundAt, TypeOK
<1>2. expected_id \in 0 .. 12
  BY DEF TypeOK
<1>3. k + 1 \in 1 .. 12
  BY <1>1, <1>2
<1> QED
  BY <1>1, <1>3, RankOf DEF Known

\* The ranks of the sections that come in pairs.
LEMMA Ranks ==
    /\ Rank(Func) = 3
    /\ Rank(Code) = 11
    /\ Rank(Data) = 12
    /\ Rank(DataCount) = 10
<1>1. /\ section_order[3] = Func /\ section_order[11] = Code
      /\ section_order[12] = Data /\ section_order[10] = DataCount
  BY DEF section_order, Func, Code, Data, DataCount
<1> QED
  BY <1>1, RankOf
-----------------------------------------------------------------------------

\* A vector of n entries.
LEMMA EntriesFacts ==
    ASSUME NEW n \in Nat, NEW b \in BOOLEAN
    PROVE  /\ Entries(n, b) \in Seq(BOOLEAN)
           /\ Len(Entries(n, b)) = n
           /\ \A i \in 1 .. n : Entries(n, b)[i] = b
           /\ n = 0 => Entries(n, b) = <<>>
BY DEF Entries

\* The image before and after a section is taken.
LEMMA TakenFacts ==
    ASSUME TypeOK, NEW s \in Sections, DecodeSection(s)
    PROVE  /\ Len(image) \in Nat
           /\ Taken = 1 .. Len(image)
           /\ Taken' = 1 .. Len(image) + 1
           /\ \A i \in 1 .. Len(image) : image'[i] = image[i]
           /\ image'[Len(image) + 1] = s
BY DEF TypeOK, DecodeSection, Taken

\* A decoder starts with an empty module.
LEMMA InitOK ==
    ASSUME OrderlyImages, Init
    PROVE  DInv
<1>1. image = <<>> /\ Taken = {} /\ Len(image) = 0
  BY DEF Init, Taken
<1>2. TypeOK
  <2>1. image \in Seq(Sections) /\ funcs \in Seq(BOOLEAN) /\ datas \in Seq(BOOLEAN)
    BY DEF Init
  <2>2. Len(image) <= MaxSections /\ expected_id \in 0 .. 12
    BY <1>1, ImageAssumption DEF Init
  <2> QED
    BY <2>1, <2>2 DEF TypeOK, Init, OrderlyImages
<1>3. VectorsRemember
  BY <1>1 DEF VectorsRemember, Has, Init
<1> QED
  BY <1>1, <1>2, <1>3 DEF DInv, HeaderFirst, OrderRemembered, SectionsInOrder,
     DataCountHonoured, EntriesDecoded, Init

\* A section is found behind all that were taken, so what expected_id remembers
\* of them stays true.
LEMMA OrderOK ==
    ASSUME OrderlyImages, DInv, NEW s \in Sections, DecodeSection(s)
    PROVE  /\ OrderRemembered'
           /\ SectionsInOrder'
           /\ s.id # Custom => s.id \in Known /\ \A i \in 1 .. Len(image) :
                image[i].id # Custom => Rank(image[i].id) < Rank(s.id)
<1>1. /\ Len(image) \in Nat
      /\ Taken = 1 .. Len(image)
      /\ Taken' = 1 .. Len(image) + 1
      /\ \A i \in 1 .. Len(image) : image'[i] = image[i]
      /\ image'[Len(image) + 1] = s
  BY TakenFacts DEF DInv
<1>2. \A id \in Known : Rank(id) \in 1 .. 12
  BY RankOf DEF Known
<1>3. CASE s.id = Custom
  <2>1. expected_id' = expected_id
    BY <1>3 DEF DecodeSection, Advance
  <2>2. OrderRemembered'
    BY <1>1, <1>3, <2>1 DEF OrderRemembered, DInv
  <2>3. SectionsInOrder'
    BY <1>1, <1>3 DEF SectionsInOrder, DInv
  <2> QED
    BY <1>3, <2>2, <2>3
<1>4. CASE s.id # Custom
  <2>1. PICK k \in FoundAt(s.id) : expected_id' = k + 1
    BY <1>4 DEF DecodeSection, Advance
  <2>2. /\ s.id \in Known
        /\ k \in expected_id .. 11
        /\ Rank(s.id) = k + 1
    BY FoundFacts DEF DInv, OrderlyImages
  <2>3. expected_id \in 0 .. 12
    BY DEF DInv, TypeOK, OrderlyImages
  <2>4. \A i \in 1 .. Len(image) : image[i].id # Custom =>
            image[i].id \in Known /\ Rank(image[i].id) \in 1 .. 12 /\ Rank(image[i].id) < Rank(s.id)
    BY <1>1, <1>2, <2>2, <2>3, SMTT(40) DEF DInv, OrderRemembered
  <2>5. OrderRemembered'
    <3> SUFFICES ASSUME NEW i \in 1 .. Len(image) + 1, image'[i].id # Custom
                 PROVE  image'[i].id \in Known /\ Rank(image'[i].id) <= expected_id'
      BY <1>1 DEF OrderRemembered
    <3>1. CASE i = Len(image) + 1
      BY <1>1, <2>1, <2>2, <2>3, <3>1
    <3>2. CASE i \in 1 .. Len(image)
      <4>1. image'[i] = image[i]
        BY <1>1, <3>2
      <4>2. /\ image[i].id \in Known
            /\ Rank(image[i].id) \in 1 .. 12 /\ Rank(image[i].id) < Rank(s.id)
        BY <2>4, <3>2, <4>1
      <4>3. Rank(image[i].id) <= expected_id'
        BY <2>1, <2>2, <2>3, <4>2
      <4>4. QED
        BY <4>1, <4>2, <4>3
    <3> QED
      BY <1>1, <3>1, <3>2
  <2>6. SectionsInOrder'
    <3> SUFFICES ASSUME NEW i \in 1 .. Len(image) + 1, NEW j \in 1 .. Len(image) + 1, i < j,
                        Custom \notin {image'[i].id, image'[j].id}
                 PROVE  Rank(image'[i].id) < Rank(image'[j].id)
      BY <1>1 DEF SectionsInOrder
    <3>0. i \in 1 .. Len(image)
      BY <1>1
    <3>1. CASE j = Len(image) + 1
      BY <1>1, <2>4, <3>0, <3>1
    <3>2. CASE j \in 1 .. Len(image)
      BY <1>1, <3>0, <3>2 DEF DInv, SectionsInOrder
    <3> QED
      BY <1>1, <3>1, <3>2
  <2> QED
    BY <2>2, <2>4, <2>5, <2>6
<1> QED
  BY <1>3, <1>4

\* The fields keep their types.
LEMMA TypesOK ==
    ASSUME OrderlyImages, DInv, NEW s \in Sections, DecodeSection(s)
    PROVE  TypeOK'
<1>1. /\ s.id \in Plain \cup {Custom, Func, Start, Code, Data, DataCount, 13}
      /\ s.n \in Nat
  BY SectionFacts
<1>2. image' \in Seq(Sections) /\ Len(image') <= MaxSections
  BY ImageAssumption DEF DInv, TypeOK, DecodeSection
<1>3. expected_id' \in 0 .. IF Beyond = {} THEN 12 ELSE 12 + MaxSections
  <2>1. CASE s.id = Custom
    BY <2>1 DEF DecodeSection, Advance, DInv, TypeOK
  <2>2. CASE s.id # Custom
    <3>1. PICK k \in FoundAt(s.id) : expected_id' = k + 1
      BY <2>2 DEF DecodeSection, Advance
    <3>2. k \in expected_id .. 11 /\ expected_id \in 0 .. 12
      BY FoundFacts DEF DInv, OrderlyImages, TypeOK
    <3> QED
      BY <3>1, <3>2 DEF OrderlyImages
  <2> QED
    BY <2>1, <2>2
<1>4. funcs' \in Seq(BOOLEAN) /\ datas' \in Seq(BOOLEAN)
  BY <1>1, EntriesFacts DEF DecodeSection, Decoded, DInv, TypeOK
<1>5. vecs' \in [Plain -> Nat] /\ num_codes' \in Nat /\ has_start' \in BOOLEAN
  BY <1>1 DEF DecodeSection, Decoded, DInv, TypeOK
<1>6. out' \in {"header", "sections", "module", "refused", "incomplete"}
  BY DEF DecodeSection
<1> QED
  BY <1>2, <1>3, <1>4, <1>5, <1>6 DEF TypeOK

\* The lengths go on saying which sections were taken: the function and the
\* data count section cannot come again behind the sections that fill their
\* entries.
LEMMA VectorsOK ==
    ASSUME OrderlyImages, DInv, NEW s \in Sections, DecodeSection(s)
    PROVE  VectorsRemember' /\ DataCountHonoured'
<1>1. /\ Len(image) \in Nat
      /\ Taken = 1 .. Len(image)
      /\ Taken' = 1 .. Len(image) + 1
      /\ \A i \in 1 .. Len(image) : image'[i] = image[i]
      /\ image'[Len(image) + 1] = s
  BY TakenFacts DEF DInv
<1>2. /\ s.n \in Nat
      /\ s.id = DataCount => s.n \in DataCounts
      /\ s.fit \in {"exact", "long", "short", "cut"}
  BY SectionFacts DEF OrderlyImages
<1>3. \A id : Has(id)' <=> Has(id) \/ s.id = id
  BY <1>1 DEF Has
<1>4. s.id # Custom => \A i \in 1 .. Len(image) :
          image[i].id # Custom => Rank(image[i].id) < Rank(s.id)
  BY OrderOK
<1>5. /\ Custom \notin {Func, Code, Data, DataCount} /\ Func \notin {Code, Data, DataCount}
      /\ Code \notin {Data, DataCount} /\ Data # DataCount
  BY DEF Custom, Func, Code, Data, DataCount
<1>6. /\ s.id = Func => ~Has(Code)
      /\ s.id = DataCount => ~Has(Data) /\ ~Has(DataCount)
      /\ s.id = Data => ~Has(Data)
  BY <1>1, <1>4, <1>5, Ranks DEF Has
<1>7. funcs \in Seq(BOOLEAN) /\ datas \in Seq(BOOLEAN)
  BY DEF DInv, TypeOK
<1>8. VectorsRemember
  BY DEF DInv
<1>9. s.fit = "exact" \/ s.id = Custom
  BY <1>2 DEF DecodeSection, Accepted, Fits
<1>10. /\ s.id = Func => funcs' = Entries(s.n, FALSE)
       /\ s.id = Code => funcs' = Entries(s.n, TRUE) /\ num_codes' = s.n
       /\ s.id \notin {Func, Code} => funcs' = funcs
       /\ s.id # Code => num_codes' = num_codes
       /\ s.id = DataCount => datas' = Entries(s.n, FALSE)
       /\ s.id = Data => datas' = Entries(s.n, TRUE)
       /\ s.id \notin {Data, DataCount} => datas' = datas
  BY <1>5, <1>9 DEF DecodeSection, Decoded
<1>11. ~Has(Code)' => num_codes' = 0
  BY <1>3, <1>8, <1>10 DEF VectorsRemember
<1>12. Has(Code)' => \A i \in 1 .. Len(funcs') : funcs'[i]
  <2>1. CASE s.id = Code
    BY <1>2, <1>10, <2>1, EntriesFacts
  <2>2. CASE s.id # Code /\ Has(Code)
    BY <1>6, <1>8, <1>10, <2>2 DEF VectorsRemember
  <2> QED
    BY <1>3, <2>1, <2>2
<1>13. Has(Data)' => \A i \in 1 .. Len(datas') : datas'[i]
  <2>1. CASE s.id = Data
    BY <1>2, <1>10, <2>1, EntriesFacts
  <2>2. CASE s.id # Data /\ Has(Data)
    BY <1>6, <1>8, <1>10, <2>2 DEF VectorsRemember
  <2> QED
    BY <1>3, <2>1, <2>2
<1>14. ~Has(Data)' /\ ~Has(DataCount)' => datas' = <<>>
  BY <1>3, <1>8, <1>10 DEF VectorsRemember
<1>15. ~Has(Data)' => \A i \in Taken' : image'[i].id = DataCount => Len(datas') = image'[i].n
  <2> SUFFICES ASSUME ~Has(Data)', NEW i \in 1 .. Len(image) + 1, image'[i].id = DataCount
               PROVE  Len(datas') = image'[i].n
    BY <1>1
  <2>1. CASE i = Len(image) + 1
    BY <1>1, <1>2, <1>10, <2>1, EntriesFacts
  <2>2. CASE i \in 1 .. Len(image)
    BY <1>1, <1>3, <1>6, <1>8, <1>10, <2>2 DEF VectorsRemember, Has
  <2> QED
    BY <1>1, <2>1, <2>2
<1>16. DataCountHonoured'
  <2> SUFFICES ASSUME NEW i \in 1 .. Len(image) + 1, NEW j \in 1 .. Len(image) + 1,
                      image'[i].id = DataCount, image'[j].id = Data
               PROVE  image'[i].n = image'[j].n
    BY <1>1 DEF DataCountHonoured, Read
  <2>1. CASE j = Len(image) + 1
    <3>1. i \in 1 .. Len(image) /\ image[i].id = DataCount /\ ~Has(Data)
      BY <1>1, <1>5, <1>6, <2>1
    <3>2. Len(datas) = image[i].n /\ image[i].n \in DataCounts
      <4>1. image[i] \in Sections
        BY <3>1 DEF DInv, TypeOK
      <4> QED
        BY <1>1, <1>8, <3>1, <4>1, SectionFacts DEF VectorsRemember
    <3>3. datas # <<>>
      BY <1>7, <3>2 DEF OrderlyImages
    <3>4. s.n = Len(datas)
      BY <1>1, <2>1, <3>3 DEF DecodeSection, Accepted, DataMatches
    <3> QED
      BY <1>1, <2>1, <3>1, <3>2, <3>4
  <2>2. CASE j \in 1 .. Len(image)
    <3>1. i \in 1 .. Len(image)
      BY <1>1, <1>6, <2>2 DEF Has
    <3> QED
      BY <1>1, <2>2, <3>1 DEF DInv, DataCountHonoured, Read
  <2> QED
    BY <2>1, <2>2
<1> QED
  BY <1>11, <1>12, <1>13, <1>14, <1>15, <1>16 DEF VectorsRemember

\* A step that takes no section.
LEMMA OtherOK ==
    ASSUME OrderlyImages, DInv,
           (\E good \in BOOLEAN : DecodeHeader(good)) \/ (\E s \in Sections : RefuseSection(s)) \/ DecodeEnd
    PROVE  DInv'
<1>1. UNCHANGED <<expected_id, funcs, datas, vecs, num_codes, has_start>>
  BY DEF DecodeHeader, RefuseSection, DecodeEnd, module
<1>2. /\ Taken' = Taken
      /\ \A i \in Taken : image'[i] = image[i]
      /\ image' \in Seq(Sections) /\ Len(image') <= MaxSections
      /\ out' \in {"header", "sections", "module", "refused", "incomplete"}
      /\ out' # "header"
      /\ \A id : (Read(id) \cap Taken)' = Read(id) \cap Taken
  <2>1. CASE \E good \in BOOLEAN : DecodeHeader(good)
    BY <2>1 DEF DecodeHeader, Taken, Read, DInv, TypeOK, HeaderFirst
  <2>2. CASE \E s \in Sections : RefuseSection(s)
    <3>1. PICK s \in Sections : RefuseSection(s)
      BY <2>2
    <3>2. /\ image' = Append(image, s) /\ out = "sections" /\ out' = "refused"
          /\ Len(image) \in Nat /\ Len(image) < MaxSections /\ image \in Seq(Sections)
      BY <3>1 DEF RefuseSection, DInv, TypeOK
    <3>3. Taken = 1 .. Len(image) /\ Taken' = 1 .. Len(image)
      BY <3>2 DEF Taken
    <3> QED
      BY <3>2, <3>3, ImageAssumption DEF Read
  <2>3. CASE DecodeEnd
    BY <2>3 DEF DecodeEnd, Taken, Read, DInv, TypeOK
  <2> QED
    BY <2>1, <2>2, <2>3
<1>3. TypeOK'
  BY <1>1, <1>2 DEF DInv, TypeOK
<1>4. OrderRemembered' /\ SectionsInOrder' /\ HeaderFirst'
  BY <1>1, <1>2 DEF DInv, OrderRemembered, SectionsInOrder, HeaderFirst
<1>5. VectorsRemember'
  BY <1>1, <1>2 DEF DInv, VectorsRemember, Has
<1>6. DataCountHonoured'
  BY <1>2 DEF DInv, DataCountHonoured
<1>7. EntriesDecoded'
  <2> SUFFICES ASSUME out' = "module"
               PROVE  (\A i \in 1 .. Len(funcs) : funcs[i]) /\ (\A i \in 1 .. Len(datas) : datas[i])
    BY <1>1 DEF EntriesDecoded
  <2>1. DecodeEnd
    BY DEF DecodeHeader, RefuseSection
  <2>2. /\ num_codes = Len(funcs)
        /\ datas = <<>> \/ \E i \in 1 .. Len(image) : image[i].id = Data
        /\ Taken = 1 .. Len(image)
    BY <2>1 DEF DecodeEnd, Taken, OrderlyImages
  <2>3. VectorsRemember
    BY DEF DInv
  <2>4. \A i \in 1 .. Len(funcs) : funcs[i]
    BY <2>2, <2>3 DEF VectorsRemember
  <2>5. \A i \in 1 .. Len(datas) : datas[i]
    BY <2>2, <2>3 DEF VectorsRemember, Has
  <2> QED
    BY <2>4, <2>5
<1> QED
  BY <1>3, <1>4, <1>5, <1>6, <1>7 DEF DInv

\* The invariant is inductive.
LEMMA StepOK ==
    ASSUME OrderlyImages, DInv, [Next]_vars
    PROVE  DInv'
<1>1. CASE UNCHANGED vars
  BY <1>1 DEF vars, module, DInv, TypeOK, HeaderFirst, OrderRemembered, SectionsInOrder, VectorsRemember,
     DataCountHonoured, EntriesDecoded, Taken, Has, Read
<1>2. CASE \E s \in Sections : DecodeSection(s)
  <2>1. PICK s \in Sections : DecodeSection(s)
    BY <1>2
  <2>2. out' = "sections"
    BY <2>1 DEF DecodeSection
  <2>3. HeaderFirst' /\ EntriesDecoded'
    BY <2>2 DEF HeaderFirst, EntriesDecoded
  <2> QED
    BY <2>1, <2>3, OrderOK, TypesOK, VectorsOK DEF DInv
<1> QED
  BY <1>1, <1>2, OtherOK DEF Next

-----------------------------------------------------------------------------

\* A module that decode_module hands on is complete: the order of the sections
\* keeps an emptied function or data vector from coming behind the section that
\* fills it.
THEOREM DecoderCompletes ==
    ASSUME OrderlyImages
    PROVE  Spec => []EntriesDecoded
<1>1. Init => DInv
  BY InitOK
<1>2. DInv /\ [Next]_vars => DInv'
  BY StepOK
<1>3. DInv => EntriesDecoded
  BY DEF DInv
<1>4. QED
  BY <1>1, <1>2, <1>3, PTL DEF Spec

\* Sections come in order and once, and a data section has the segments its
\* data count promised.
THEOREM DecoderOrder ==
    ASSUME OrderlyImages
    PROVE  Spec => [](TypeOK /\ SectionsInOrder /\ DataCountHonoured)
<1>1. Init => DInv
  BY InitOK
<1>2. DInv /\ [Next]_vars => DInv'
  BY StepOK
<1>3. DInv => TypeOK /\ SectionsInOrder /\ DataCountHonoured
  BY DEF DInv
<1>4. QED
  BY <1>1, <1>2, <1>3, PTL DEF Spec

-----------------------------------------------------------------------------
(* The decoder and the binary format.                                      *)

\* What the place in section_order and the two lengths say about the image.
FormatRemembered ==
    /\ \A i \in Taken : WellFormed(image[i])
    /\ expected_id # 0 =>
          \E i \in Taken : image[i].id # Custom /\ Rank(image[i].id) = expected_id
    /\ ~Has(Func) => Len(funcs) = 0
    /\ \A i \in Taken : image[i].id = Func => Len(funcs) = image[i].n
    /\ \A i \in Taken : image[i].id = Code =>
          /\ num_codes = image[i].n /\ num_codes = Len(funcs)
          /\ image[i].uses => Has(DataCount)

FInv == DInv /\ FormatRemembered /\ AcceptsTheFormat

\* In an image in order a section that is not a custom one comes once.
LEMMA OnlyOne ==
    ASSUME InOrder, NEW id \in Known, NEW i \in Read(id)
    PROVE  Read(id) = {i} /\ Announced(id) = image[i].n
<1>1. id # Custom /\ Rank(id) \in 1 .. 12
  <2>1. PICK k \in 1 .. 12 : id = section_order[k]
    BY DEF Known
  <2>2. id # Custom
    BY <2>1 DEF section_order, Custom
  <2>3. QED
    BY <2>1, <2>2, RankOf
<1>2. ASSUME NEW j \in Read(id)
      PROVE  j = i
  <2>1. i \in 1 .. Len(image) /\ j \in 1 .. Len(image) /\ image[i].id = id /\ image[j].id = id
    BY DEF Read
  <2>2. ~(i < j) /\ ~(j < i)
    BY <1>1, <2>1 DEF InOrder
  <2>3. QED
    BY <2>1, <2>2
<1>3. Read(id) = {i}
  BY <1>2
<1>4. QED
  BY <1>3 DEF Announced

\* The same of all sections.
LEMMA OnlyOneEver ==
    InOrder => \A id \in Known : \A i \in Read(id) : Announced(id) = image[i].n
  BY OnlyOne

\* And of the image after a step.
LEMMA OnlyOneNext ==
    (InOrder => \A id \in Known : \A i \in Read(id) : Announced(id) = image[i].n)'
  BY OnlyOneEver, PTL

\* What is announced where nothing was read.
LEMMA NothingAnnounced ==
    ASSUME NEW id, Read(id) = {}
    PROVE  Announced(id) = 0
  BY DEF Announced

\* The ids that section_order knows.
LEMMA KnownIds ==
    /\ Func \in Known /\ Code \in Known /\ Data \in Known /\ DataCount \in Known
    /\ Custom \notin Known
    /\ Plain \cup {Func, Start, Code, Data, DataCount} = Known
  BY DEF Known, section_order, Plain, Custom, Func, Start, Code, Data, DataCount

\* While sections are read the image is the beginning of a module.
LEMMA TakenBegins ==
    ASSUME DInv, FormatRemembered, Taken = 1 .. Len(image)
    PROVE  /\ IsBeginning
           /\ Announced(Func) = Len(funcs) /\ Announced(Code) = num_codes
<1>1. InOrder
  BY DEF DInv, SectionsInOrder, InOrder
<1>2. \A id : Has(id) <=> Read(id) # {}
  BY DEF Has, Read
<1>3. Announced(Func) = Len(funcs)
  <2>1. CASE Read(Func) = {}
    BY <1>2, <2>1, NothingAnnounced DEF FormatRemembered
  <2>2. CASE Read(Func) # {}
    <3>1. PICK i \in Read(Func) : TRUE
      BY <2>2
    <3>2. i \in Taken /\ image[i].id = Func
      BY <3>1 DEF Read
    <3>3. Len(funcs) = image[i].n
      BY <3>2 DEF FormatRemembered
    <3>4. QED
      BY <1>1, <3>1, <3>3, OnlyOne, KnownIds
  <2>3. QED
    BY <2>1, <2>2
<1>4. Announced(Code) = num_codes /\ (Read(Code) # {} => num_codes = Len(funcs))
  <2>1. CASE Read(Code) = {}
    <3>1. num_codes = 0
      BY <1>2, <2>1 DEF DInv, VectorsRemember
    <3>2. QED
      BY <2>1, <3>1, NothingAnnounced
  <2>2. CASE Read(Code) # {}
    <3>1. PICK i \in Read(Code) : TRUE
      BY <2>2
    <3>2. i \in Taken /\ image[i].id = Code
      BY <3>1 DEF Read
    <3>3. num_codes = image[i].n /\ num_codes = Len(funcs)
      BY <3>2 DEF FormatRemembered
    <3>4. QED
      BY <1>1, <3>1, <3>3, OnlyOne, KnownIds
  <2>3. QED
    BY <2>1, <2>2
<1>5. Read(DataCount) # {} /\ Read(Data) # {} => Announced(Data) = Announced(DataCount)
  <2>1. SUFFICES ASSUME NEW i \in Read(DataCount), NEW j \in Read(Data)
                 PROVE  Announced(Data) = Announced(DataCount)
    OBVIOUS
  <2>2. image[i].n = image[j].n
    BY DEF DInv, DataCountHonoured, Read
  <2>3. Announced(DataCount) = image[i].n
    BY <1>1, OnlyOne, KnownIds
  <2>4. Announced(Data) = image[j].n
    BY <1>1, OnlyOne, KnownIds
  <2>5. QED
    BY <2>2, <2>3, <2>4
<1>6. \A i \in Read(Code) : image[i].uses => Read(DataCount) # {}
  BY <1>2 DEF FormatRemembered, Read
<1>7. \A i \in 1 .. Len(image) : WellFormed(image[i])
  BY DEF FormatRemembered
<1>8. QED
  BY <1>1, <1>3, <1>4, <1>5, <1>6, <1>7 DEF IsBeginning

\* The same of the image after a step.
LEMMA BeginsNext ==
    (DInv /\ FormatRemembered /\ Taken = 1 .. Len(image) => IsBeginning)'
<1>1. DInv /\ FormatRemembered /\ Taken = 1 .. Len(image) => IsBeginning
  BY TakenBegins
<1>2. QED
  BY <1>1, PTL

\* The module that is empty is remembered.
LEMMA FormatInit ==
    ASSUME Init
    PROVE  FormatRemembered /\ AcceptsTheFormat
<1>1. image = <<>> /\ Taken = {} /\ Len(funcs) = 0 /\ expected_id = 0
  BY DEF Init, Taken
<1>2. FormatRemembered
  BY <1>1 DEF FormatRemembered
<1>3. QED
  BY <1>2 DEF AcceptsTheFormat, Init

\* A section that is taken is remembered.
LEMMA FormatTaken ==
    ASSUME OrderlyImages, DInv, FormatRemembered, NEW s \in Sections, DecodeSection(s)
    PROVE  FormatRemembered'
<1>1. /\ Len(image) \in Nat
      /\ Taken = 1 .. Len(image)
      /\ Taken' = 1 .. Len(image) + 1
      /\ \A i \in 1 .. Len(image) : image'[i] = image[i]
      /\ image'[Len(image) + 1] = s
  BY TakenFacts DEF DInv
<1>2. s.n \in Nat
  BY SectionFacts
<1>3. \A id : Has(id)' <=> Has(id) \/ s.id = id
  BY <1>1 DEF Has
<1>4. s.id # Custom => \A i \in 1 .. Len(image) :
          image[i].id # Custom => Rank(image[i].id) < Rank(s.id)
  BY OrderOK
<1>5. /\ Custom \notin {Func, Code, Data, DataCount} /\ Func \notin {Code, Data, DataCount}
      /\ Code \notin {Data, DataCount} /\ Data # DataCount
  BY DEF Custom, Func, Code, Data, DataCount
<1>6. /\ s.id = Func => ~Has(Code) /\ ~Has(Func)
      /\ s.id = Code => ~Has(Code) /\ ~Has(Data)
  BY <1>1, <1>4, <1>5, Ranks DEF Has
<1>7. /\ s.id = Func => funcs' = Entries(s.n, FALSE)
      /\ s.id = Code => funcs' = Entries(s.n, TRUE) /\ num_codes' = s.n
      /\ s.id \notin {Func, Code} => funcs' = funcs
      /\ s.id # Code => num_codes' = num_codes
  BY <1>5 DEF DecodeSection, Decoded
<1>8. /\ WellFormed(s)
      /\ s.id = Code => s.n = Len(funcs) /\ (s.uses => datas # <<>>)
  BY <1>5 DEF DecodeSection, Accepted, WellFormed, CodeMatches, DataKnown
<1>9. s.id \in {Func, Code} => Len(funcs') = s.n
  BY <1>2, <1>5, <1>7, EntriesFacts
<1>10. s.id # Func => Len(funcs') = Len(funcs)
  BY <1>7, <1>8, <1>9
<1>11. \A i \in Taken' : WellFormed(image'[i])
  BY <1>1, <1>8 DEF FormatRemembered
<1>12. expected_id' # 0 =>
          \E i \in Taken' : image'[i].id # Custom /\ Rank(image'[i].id) = expected_id'
  <2>1. CASE s.id = Custom
    <3>1. expected_id' = expected_id
      BY <2>1 DEF DecodeSection, Advance
    <3>2. QED
      BY <1>1, <3>1 DEF FormatRemembered
  <2>2. CASE s.id # Custom
    <3>1. PICK k \in FoundAt(s.id) : expected_id' = k + 1
      BY <2>2 DEF DecodeSection, Advance
    <3>2. Rank(s.id) = k + 1
      BY FoundFacts DEF DInv, OrderlyImages
    <3>3. Len(image) + 1 \in Taken'
      BY <1>1
    <3>4. QED
      BY <1>1, <2>2, <3>1, <3>2, <3>3
  <2>3. QED
    BY <2>1, <2>2
<1>13. ~Has(Func)' => Len(funcs') = 0
  BY <1>3, <1>10 DEF FormatRemembered
<1>14. \A i \in Taken' : image'[i].id = Func => Len(funcs') = image'[i].n
  <2>1. SUFFICES ASSUME NEW i \in 1 .. Len(image) + 1, image'[i].id = Func
                 PROVE  Len(funcs') = image'[i].n
    BY <1>1
  <2>2. CASE i = Len(image) + 1
    BY <1>1, <1>9, <2>1, <2>2
  <2>3. CASE i \in 1 .. Len(image)
    <3>1. image[i].id = Func /\ Has(Func) /\ image'[i] = image[i]
      BY <1>1, <2>1, <2>3 DEF Has
    <3>2. QED
      BY <1>1, <1>6, <1>10, <2>3, <3>1 DEF FormatRemembered
  <2>4. QED
    BY <1>1, <2>2, <2>3
<1>15. \A i \in Taken' : image'[i].id = Code =>
          /\ num_codes' = image'[i].n /\ num_codes' = Len(funcs')
          /\ image'[i].uses => Has(DataCount)'
  <2>1. SUFFICES ASSUME NEW i \in 1 .. Len(image) + 1, image'[i].id = Code
                 PROVE  /\ num_codes' = image'[i].n /\ num_codes' = Len(funcs')
                        /\ image'[i].uses => Has(DataCount)'
    BY <1>1
  <2>2. CASE i = Len(image) + 1
    <3>1. s.id = Code /\ image'[i] = s
      BY <1>1, <2>1, <2>2
    <3>2. num_codes' = s.n /\ Len(funcs') = s.n
      BY <1>7, <1>9, <3>1
    <3>3. s.uses => Has(DataCount)
      BY <1>6, <1>8, <3>1 DEF DInv, VectorsRemember
    <3>4. QED
      BY <1>3, <3>1, <3>2, <3>3
  <2>3. CASE i \in 1 .. Len(image)
    <3>1. image[i].id = Code /\ Has(Code) /\ image'[i] = image[i]
      BY <1>1, <2>1, <2>3 DEF Has
    <3>2. s.id \notin {Func, Code}
      BY <1>6, <3>1
    <3>3. num_codes' = num_codes /\ Len(funcs') = Len(funcs)
      BY <1>7, <3>2
    <3>4. QED
      BY <1>1, <1>3, <2>3, <3>1, <3>3 DEF FormatRemembered
  <2>4. QED
    BY <1>1, <2>2, <2>3
<1>16. QED
  BY <1>11, <1>12, <1>13, <1>14, <1>15 DEF FormatRemembered

\* A section that is refused spoils the image.
LEMMA RefusedSpoils ==
    ASSUME OrderlyImages, DInv, FormatRemembered, NEW s \in Sections, RefuseSection(s)
    PROVE  ~IsBeginning' /\ image' # <<>>
<1>1. /\ Len(image) \in Nat /\ image \in Seq(Sections)
      /\ Taken = 1 .. Len(image)
      /\ image' = Append(image, s) /\ Len(image') = Len(image) + 1
      /\ \A i \in 1 .. Len(image) : image'[i] = image[i]
      /\ image'[Len(image) + 1] = s
  BY DEF DInv, TypeOK, RefuseSection, Taken
<1> DEFINE z == Len(image) + 1
<1>2. z \in 1 .. Len(image') /\ 1 .. Len(image) \subseteq 1 .. Len(image') /\ z \notin 1 .. Len(image)
  BY <1>1
<1>3. SUFFICES ASSUME IsBeginning'
               PROVE  FALSE
  BY <1>1
<1>4. WellFormed(s)
  BY <1>1, <1>2, <1>3 DEF IsBeginning
<1>5. InOrder'
  BY <1>3 DEF IsBeginning
<1>6. s.id # Custom => s.id \in Known
  <2>1. s.id \in Plain \cup {Custom, Func, Start, Code, Data, DataCount, 13}
    BY SectionFacts
  <2>2. s.id # 13
    BY <1>4 DEF WellFormed
  <2>3. QED
    BY <2>1, <2>2, KnownIds
<1>7. s.id # Custom => \A i \in 1 .. Len(image) :
          image[i].id # Custom => Rank(image[i].id) < Rank(s.id)
  <2>1. SUFFICES ASSUME s.id # Custom, NEW i \in 1 .. Len(image), image[i].id # Custom
                 PROVE  Rank(image[i].id) < Rank(s.id)
    OBVIOUS
  <2>2. i < z /\ i \in 1 .. Len(image') /\ image'[i] = image[i] /\ image'[z] = s
    BY <1>1, <1>2
  <2>3. Custom \notin {image'[i].id, image'[z].id}
    BY <2>1, <2>2
  <2>4. QED
    BY <1>2, <1>5, <2>2, <2>3 DEF InOrder
<1>8. /\ Custom \notin {Func, Code, Data, DataCount} /\ Func \notin {Code, Data, DataCount}
      /\ Code \notin {Data, DataCount} /\ Data # DataCount
  BY DEF Custom, Func, Code, Data, DataCount
<1>9. \A id : id # s.id => Read(id)' = Read(id)
  BY <1>1, <1>2 DEF Read
<1>10. z \in Read(s.id)'
  BY <1>1, <1>2 DEF Read
<1>11. s.id \in Known => Announced(s.id)' = s.n
  <2>1. SUFFICES ASSUME s.id \in Known
                 PROVE  Announced(s.id)' = s.n
    OBVIOUS
  <2>2. (Announced(s.id))' = image'[z].n
    BY <1>5, <1>10, <2>1, OnlyOneNext
  <2>3. QED
    BY <1>1, <2>2
<1>12. s.id # Custom => FoundAt(s.id) # {}
  <2>1. SUFFICES ASSUME s.id # Custom, FoundAt(s.id) = {}
                 PROVE  FALSE
    OBVIOUS
  <2>2. expected_id \in 0 .. 12
    BY DEF DInv, TypeOK, OrderlyImages
  <2>3. PICK r \in 1 .. 12 : section_order[r] = s.id
    BY <1>6, <2>1 DEF Known
  <2>4. Rank(s.id) = r
    BY <2>3, RankOf
  <2>5. r <= expected_id
    <3>1. SUFFICES ASSUME r > expected_id
                   PROVE  FALSE
      BY <2>2
    <3>2. expected_id < 12 /\ r - 1 \in expected_id .. 11 /\ (r - 1) + 1 = r
      BY <2>2, <3>1
    <3>3. section_order[(r - 1) + 1] = s.id
      BY <2>3, <3>2
    <3>4. r - 1 \in FoundAt(s.id)
      BY <3>2, <3>3 DEF FoundAt
    <3>5. QED
      BY <2>1, <3>4
  <2>6. PICK i \in Taken : image[i].id # Custom /\ Rank(image[i].id) = expected_id
    BY <2>2, <2>5 DEF FormatRemembered
  <2>7. expected_id < r
    BY <1>1, <1>7, <2>1, <2>4, <2>6
  <2>8. QED
    BY <2>2, <2>5, <2>7
<1>13. s.id = Code => CodeMatches(s)
  <2>1. SUFFICES ASSUME s.id = Code
                 PROVE  s.n = Len(funcs)
    BY DEF CodeMatches
  <2>2. Announced(Code)' = s.n /\ Read(Code)' # {}
    BY <1>10, <1>11, <2>1, KnownIds
  <2>3. Announced(Func)' = s.n
    BY <1>3, <2>2 DEF IsBeginning
  <2>4. Announced(Func)' = Len(funcs)
    <3>1. Read(Func)' = Read(Func)
      BY <1>8, <1>9, <2>1
    <3>2. CASE Read(Func) = {}
      <4>1. Len(funcs) = 0
        BY <1>1, <3>2 DEF FormatRemembered, Has, Read
      <4>2. Announced(Func)' = 0
        BY <3>1, <3>2 DEF Announced
      <4>3. QED
        BY <4>1, <4>2
    <3>3. CASE Read(Func) # {}
      <4>1. PICK i \in Read(Func) : TRUE
        BY <3>3
      <4>2. i \in Taken /\ i \in 1 .. Len(image) /\ image[i].id = Func
        BY <1>1, <4>1 DEF Read
      <4>3. Len(funcs) = image[i].n
        BY <4>2 DEF FormatRemembered
      <4>4. i \in Read(Func)'
        BY <3>1, <4>1
      <4>5. (Announced(Func))' = image'[i].n
        BY <1>5, <4>4, KnownIds, OnlyOneNext
      <4>6. QED
        BY <1>1, <4>2, <4>3, <4>5
    <3>4. QED
      BY <3>2, <3>3
  <2>5. QED
    BY <2>3, <2>4
<1>14. /\ Has(Data) => s.id \notin {Code, Data}
       /\ Has(DataCount) /\ ~Has(Data) => datas # <<>>
       /\ \A i \in Taken : ~Has(Data) /\ image[i].id = DataCount => Len(datas) = image[i].n
       /\ ~Has(Data) /\ ~Has(DataCount) => datas = <<>>
  <2>1. Has(Data) => s.id \notin {Code, Data}
    BY <1>1, <1>7, <1>8, Ranks DEF Has
  <2>2. /\ \A i \in Taken : ~Has(Data) /\ image[i].id = DataCount => Len(datas) = image[i].n
        /\ ~Has(Data) /\ ~Has(DataCount) => datas = <<>>
    BY DEF DInv, VectorsRemember
  <2>3. Has(DataCount) /\ ~Has(Data) => datas # <<>>
    <3>1. SUFFICES ASSUME ~Has(Data), NEW i \in Taken, image[i].id = DataCount
                   PROVE  datas # <<>>
      BY DEF Has
    <3>2. image[i] \in Sections
      BY <1>1, <3>1
    <3>3. image[i].n \in DataCounts /\ image[i].n \in Nat
      BY <3>1, <3>2, SectionFacts
    <3>4. Len(datas) # 0
      BY <2>2, <3>1, <3>3 DEF OrderlyImages
    <3>5. QED
      BY <3>4
  <2>4. QED
    BY <2>1, <2>2, <2>3
<1>15. s.id = Code => DataKnown(s)
  <2>1. SUFFICES ASSUME s.id = Code, s.uses
                 PROVE  datas # <<>>
    BY DEF DataKnown
  <2>2. Read(DataCount)' # {}
    BY <1>1, <1>3, <1>10, <2>1 DEF IsBeginning
  <2>3. Has(DataCount)
    <3>1. Read(DataCount)' = Read(DataCount)
      BY <1>8, <1>9, <2>1
    <3>2. QED
      BY <1>1, <2>2, <3>1 DEF Read, Has
  <2>4. QED
    BY <1>14, <2>1, <2>3
<1>16. s.id = Data => DataMatches(s)
  <2>1. SUFFICES ASSUME s.id = Data, datas # <<>>
                 PROVE  s.n = Len(datas)
    BY DEF DataMatches
  <2>2. ~Has(Data) /\ Has(DataCount)
    BY <1>14, <2>1
  <2>3. PICK i \in Taken : image[i].id = DataCount
    BY <2>2 DEF Has
  <2>4. Len(datas) = image[i].n
    BY <1>14, <2>2, <2>3
  <2>5. i \in Read(DataCount)' /\ image'[i] = image[i]
    BY <1>1, <1>2, <2>3 DEF Read
  <2>6. (Announced(DataCount))' = image'[i].n
    BY <1>5, <2>5, KnownIds, OnlyOneNext
  <2>7. Announced(Data)' = s.n /\ Read(Data)' # {}
    BY <1>10, <1>11, <2>1, KnownIds
  <2>8. Announced(Data)' = Announced(DataCount)'
    BY <1>3, <2>5, <2>7 DEF IsBeginning
  <2>9. QED
    BY <2>4, <2>5, <2>6, <2>7, <2>8
<1>17. Accepted(s)
  BY <1>4, <1>12, <1>13, <1>15, <1>16 DEF Accepted, WellFormed
<1>18. QED
  BY <1>17 DEF RefuseSection

\* What is remembered stays when no section is taken.
LEMMA FormatSame ==
    ASSUME FormatRemembered, UNCHANGED <<expected_id, funcs, datas, vecs, num_codes, has_start>>,
           Taken' = Taken, \A i \in Taken : image'[i] = image[i]
    PROVE  FormatRemembered'
<1>1. \A id : Has(id)' <=> Has(id)
  BY DEF Has
<1>2. QED
  BY <1>1 DEF FormatRemembered

\* The end of the image: what was read is a module if every function has a body.
LEMMA FormatEnd ==
    ASSUME OrderlyImages, DInv, FormatRemembered, DecodeEnd
    PROVE  AcceptsTheFormat'
<1>1. Taken = 1 .. Len(image) /\ image' = image
  BY DEF DecodeEnd, Taken
<1>2. IsBeginning /\ Announced(Func) = Len(funcs) /\ Announced(Code) = num_codes
  BY <1>1, TakenBegins
<1>3. \A id : Has(id) <=> Read(id) # {}
  BY <1>1 DEF Has, Read
<1>4. Read(DataCount) # {} => Announced(Data) = Announced(DataCount)
  <2>1. SUFFICES ASSUME NEW i \in Read(DataCount)
                 PROVE  Read(Data) # {}
    BY <1>2 DEF IsBeginning
  <2>2. i \in Taken /\ image[i].id = DataCount /\ image[i] \in Sections
    BY <1>1 DEF Read, DInv, TypeOK
  <2>3. image[i].n \in DataCounts /\ image[i].n \in Nat
    BY <2>2, SectionFacts
  <2>4. SUFFICES ASSUME ~Has(Data)
                 PROVE  FALSE
    BY <1>3
  <2>5. Len(datas) = image[i].n
    BY <2>2, <2>4 DEF DInv, VectorsRemember
  <2>6. datas # <<>>
    BY <2>3, <2>5 DEF OrderlyImages
  <2>7. QED
    BY <1>1, <2>4, <2>6 DEF DecodeEnd, OrderlyImages, Has
<1>5. IsModule <=> num_codes = Len(funcs)
  BY <1>2, <1>4 DEF IsModule
<1>6. IsModule' <=> IsModule
  BY <1>1 DEF IsModule, IsBeginning, InOrder, Announced, Read
<1>7. out' = IF num_codes = Len(funcs) THEN "module" ELSE "incomplete"
  BY DEF DecodeEnd
<1>8. QED
  BY <1>5, <1>6, <1>7 DEF AcceptsTheFormat

\* Every step keeps what is remembered and the verdict right.
LEMMA FormatStep ==
    ASSUME OrderlyImages, FInv, [Next]_vars
    PROVE  FInv'
<1>1. DInv /\ FormatRemembered /\ AcceptsTheFormat /\ DInv'
  BY StepOK DEF FInv
<1>2. CASE UNCHANGED vars
  <2>1. FormatRemembered'
    BY <1>1, <1>2, FormatSame DEF vars, module, Taken
  <2>2. AcceptsTheFormat'
    <3>1. image' = image /\ out' = out
      BY <1>2 DEF vars
    <3>2. (IsModule' <=> IsModule) /\ (IsBeginning' <=> IsBeginning)
      BY <3>1 DEF IsModule, IsBeginning, InOrder, Announced, Read
    <3>3. QED
      BY <1>1, <3>1, <3>2 DEF AcceptsTheFormat
  <2>3. QED
    BY <1>1, <2>1, <2>2 DEF FInv
<1>3. CASE \E good \in BOOLEAN : DecodeHeader(good)
  <2>1. PICK good \in BOOLEAN : DecodeHeader(good)
    BY <1>3
  <2>2. /\ image' = image /\ image = <<>> /\ out' \in {"sections", "refused"}
        /\ Taken = {} /\ Taken' = {} /\ 1 .. Len(image) = {}
    BY <1>1, <2>1 DEF DecodeHeader, DInv, HeaderFirst, Taken
  <2>3. FormatRemembered'
    BY <1>1, <2>1, <2>2, FormatSame DEF DecodeHeader, module
  <2>4. IsBeginning'
    <3>1. Taken' = 1 .. Len(image')
      BY <2>2 DEF Taken
    <3>2. QED
      BY <1>1, <2>3, <3>1, BeginsNext
  <2>5. AcceptsTheFormat'
    BY <2>2, <2>4 DEF AcceptsTheFormat
  <2>6. QED
    BY <1>1, <2>3, <2>5 DEF FInv
<1>4. CASE \E s \in Sections : DecodeSection(s)
  <2>1. PICK s \in Sections : DecodeSection(s)
    BY <1>4
  <2>2. FormatRemembered' /\ out' = "sections"
    BY <1>1, <2>1, FormatTaken DEF DecodeSection
  <2>3. Taken' = 1 .. Len(image')
    BY <2>2 DEF Taken
  <2>4. IsBeginning'
    BY <1>1, <2>2, <2>3, BeginsNext
  <2>5. QED
    BY <1>1, <2>2, <2>4 DEF FInv, AcceptsTheFormat
<1>5. CASE \E s \in Sections : RefuseSection(s)
  <2>1. PICK s \in Sections : RefuseSection(s)
    BY <1>5
  <2>2. ~IsBeginning' /\ image' # <<>> /\ out' = "refused"
    BY <1>1, <2>1, RefusedSpoils DEF RefuseSection
  <2>3. /\ Taken' = Taken
        /\ \A i \in Taken : image'[i] = image[i]
        /\ UNCHANGED <<expected_id, funcs, datas, vecs, num_codes, has_start>>
    BY <1>1, <2>1 DEF RefuseSection, DInv, TypeOK, Taken, module
  <2>4. FormatRemembered'
    BY <1>1, <2>3, FormatSame
  <2>5. QED
    BY <1>1, <2>2, <2>4 DEF FInv, AcceptsTheFormat
<1>6. CASE DecodeEnd
  <2>1. /\ Taken' = Taken /\ image' = image
        /\ UNCHANGED <<expected_id, funcs, datas, vecs, num_codes, has_start>>
    BY <1>6 DEF DecodeEnd, Taken, module
  <2>2. FormatRemembered'
    BY <1>1, <2>1, FormatSame
  <2>3. AcceptsTheFormat'
    BY <1>1, <1>6, FormatEnd
  <2>4. QED
    BY <1>1, <2>2, <2>3 DEF FInv
<1>7. QED
  BY <1>2, <1>3, <1>4, <1>5, <1>6 DEF Next

\* The decoder accepts the sections of the binary format and nothing else, and
\* refuses an image at the section that spoils it: a place in section_order and
\* two lengths are all it has to remember (decode_module).
THEOREM DecoderFormat ==
    ASSUME OrderlyImages
    PROVE  Spec => []AcceptsTheFormat
<1>1. Init => FInv
  BY InitOK, FormatInit DEF FInv
<1>2. FInv /\ [Next]_vars => FInv'
  BY FormatStep
<1>3. FInv => AcceptsTheFormat
  BY DEF FInv
<1>4. QED
  BY <1>1, <1>2, <1>3, PTL DEF Spec
=============================================================================
