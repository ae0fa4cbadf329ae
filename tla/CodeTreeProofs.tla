--------------------------- MODULE CodeTreeProofs ---------------------------
(***************************************************************************)
(* Proofs about function bodies of any length and depth: what the text of  *)
(* a body determines, the inductive invariant of the decoder, which says   *)
(* that each pointer leads where the text goes on, and on top of it the    *)
(* labels of the interpreter and the refinement of the flat code.          *)
(***************************************************************************)
EXTENDS CodeTreeRefinement, TLAPS, FiniteSetTheorems, NaturalsInduction, WellFoundedInduction

-----------------------------------------------------------------------------
(* Induction, as a fact about sets of numbers.                             *)

\* A non-empty part of a well-founded set has a least element.
LEMMA LeastBy ==
    ASSUME NEW R, NEW S, IsWellFoundedOn(R, S), NEW T, T \subseteq S, T # {}
    PROVE  \E x \in T : \A y \in T : ~(<<y, x>> \in R)
  BY WFMin, Zenon

\* The order of the numbers is well founded.
LEMMA LessThan == IsWellFoundedOn({ss \in Nat \X Nat : ss[1] < ss[2]}, Nat)
  BY NatLessThanWellFounded, Zenon DEF OpToRel

\* A non-empty set of numbers has a least one.
LEMMA LeastNat ==
    ASSUME NEW T \in SUBSET Nat, T # {}
    PROVE  \E m \in T : \A k \in T : m <= k
<1> DEFINE R == {ss \in Nat \X Nat : ss[1] < ss[2]}
<1>1. \A k, m \in Nat : k < m => <<k, m>> \in R
  OBVIOUS
<1>2. IsWellFoundedOn(R, Nat)
  BY LessThan
<1> HIDE DEF R
<1>3. T \subseteq Nat
  OBVIOUS
<1>4. \E m \in T : \A k \in T : ~(<<k, m>> \in R)
  BY <1>2, <1>3, LeastBy, Zenon
<1>5. PICK m \in T : \A k \in T : ~(<<k, m>> \in R)
  BY <1>4
<1>6. m \in Nat /\ \A k \in T : k \in Nat /\ ~(k < m)
  BY <1>1, <1>5
<1>7. QED
  BY <1>6

\* Induction, for a set of numbers.
LEMMA Induct ==
    ASSUME NEW T, 0 \in T, \A k \in Nat : k \in T => k + 1 \in T
    PROVE  Nat \subseteq T
<1> DEFINE U == Nat \ T
<1>1. SUFFICES ASSUME U # {} PROVE FALSE
  OBVIOUS
<1>2. PICK m \in U : \A k \in U : m <= k
  BY <1>1, LeastNat
<1>3. m \in Nat /\ m \notin T /\ m # 0
  OBVIOUS
<1>4. m - 1 \in Nat /\ m - 1 \in T
  BY <1>2, <1>3
<1>5. (m - 1) + 1 = m
  BY <1>3
<1>6. QED
  BY <1>3, <1>4, <1>5

-----------------------------------------------------------------------------
(* The constructs that are open in a text.                                 *)

\* What opcode n makes of the constructs open before it.
Opened(code, n, before) ==
    IF code[n] \in Openers THEN Append(before, n)
    ELSE IF code[n] = "end" /\ before # <<>> THEN Front(before)
    ELSE before

\* g is what OpenAfter remembers of the first p opcodes.
IsOpen(g, code, p) ==
    g = [n \in 0 .. p |-> IF n = 0 THEN <<>>
                          ELSE IF code[n] \in Openers THEN Append(g[n - 1], n)
                          ELSE IF code[n] = "end" /\ g[n - 1] # <<>> THEN Front(g[n - 1])
                          ELSE g[n - 1]]

\* What this function does at each index.
LEMMA OpenEach ==
    ASSUME NEW g, NEW code, NEW p \in Nat, IsOpen(g, code, p)
    PROVE  /\ g[0] = <<>>
           /\ \A n \in 1 .. p : g[n] = Opened(code, n, g[n - 1])
<1>1. \A n \in 0 .. p : g[n] = IF n = 0 THEN <<>>
                                ELSE IF code[n] \in Openers THEN Append(g[n - 1], n)
                                ELSE IF code[n] = "end" /\ g[n - 1] # <<>> THEN Front(g[n - 1])
                                ELSE g[n - 1]
  BY Zenon DEF IsOpen
<1>2. 0 \in 0 .. p /\ \A n \in 1 .. p : n \in 0 .. p /\ n # 0
  OBVIOUS
<1>3. QED
  BY <1>1, <1>2, Zenon DEF Opened

\* There is such a function.
LEMMA OpenExists ==
    ASSUME NEW code, NEW p \in Nat
    PROVE  \E g : IsOpen(g, code, p)
<1> DEFINE T == {k \in Nat : \E g : IsOpen(g, code, k)}
<1>1. 0 \in T
  <2> DEFINE g == [n \in 0 .. 0 |-> <<>>]
  <2>1. IsOpen(g, code, 0)
    BY DEF IsOpen
  <2>2. QED
    BY <2>1
<1>2. ASSUME NEW k \in Nat, k \in T
      PROVE  k + 1 \in T
  <2>1. PICK g : IsOpen(g, code, k)
    BY <1>2
  <2> DEFINE h == [n \in 0 .. k + 1 |-> IF n = k + 1 THEN Opened(code, n, g[k]) ELSE g[n]]
  <2>2. g[0] = <<>> /\ \A n \in 1 .. k : g[n] = Opened(code, n, g[n - 1])
    BY <2>1, OpenEach
  <2>3. h[0] = <<>>
    BY <2>2
  <2>4. ASSUME NEW n \in 1 .. k + 1
        PROVE  h[n] = Opened(code, n, h[n - 1])
    <3>1. CASE n = k + 1
      <4>1. h[n - 1] = g[k] /\ h[n] = Opened(code, n, g[k])
        BY <3>1
      <4>2. QED
        BY <4>1
    <3>2. CASE n \in 1 .. k
      <4>1. h[n] = g[n] /\ h[n - 1] = g[n - 1]
        BY <3>2
      <4>2. QED
        BY <3>2, <2>2, <4>1
    <3>3. QED
      BY <3>1, <3>2
  <2>5. h = [n \in 0 .. k + 1 |-> h[n]]
    OBVIOUS
  <2> HIDE DEF h
  <2>6. \A n \in 0 .. k + 1 : h[n] = IF n = 0 THEN <<>> ELSE Opened(code, n, h[n - 1])
    BY <2>3, <2>4
  <2>7. IsOpen(h, code, k + 1)
    BY <2>5, <2>6 DEF IsOpen, Opened
  <2>8. QED
    BY <2>7
<1> HIDE DEF T
<1>3. Nat \subseteq T
  BY <1>1, <1>2, Induct
<1>4. QED
  BY <1>3 DEF T

\* The first p opcodes are the same.
Agree(c, d, p) == \A n \in 1 .. p : c[n] = d[n]

\* Two such functions agree where both are defined, if the texts do.
LEMMA OpenAgree ==
    ASSUME NEW c, NEW d, NEW p \in Nat, NEW q \in Nat, NEW g, NEW h,
           IsOpen(g, c, p), IsOpen(h, d, q), p <= q, Agree(c, d, p)
    PROVE  \A n \in 0 .. p : g[n] = h[n]
<1>1. /\ g[0] = <<>> /\ \A n \in 1 .. p : g[n] = Opened(c, n, g[n - 1])
      /\ h[0] = <<>> /\ \A n \in 1 .. q : h[n] = Opened(d, n, h[n - 1])
  BY OpenEach
<1> DEFINE T == {k \in Nat : k <= p => g[k] = h[k]}
<1>2. 0 \in T
  BY <1>1
<1>3. ASSUME NEW k \in Nat, k \in T
      PROVE  k + 1 \in T
  <2>1. SUFFICES ASSUME k + 1 <= p
                 PROVE  g[k + 1] = h[k + 1]
    OBVIOUS
  <2>2. g[k] = h[k] /\ k + 1 \in 1 .. p /\ k + 1 \in 1 .. q /\ (k + 1) - 1 = k
    BY <2>1, <1>3
  <2>3. g[k + 1] = Opened(c, k + 1, g[k]) /\ h[k + 1] = Opened(d, k + 1, h[k])
    BY <1>1, <2>2
  <2>4. c[k + 1] = d[k + 1]
    BY <2>2 DEF Agree
  <2>5. QED
    BY <2>2, <2>3, <2>4 DEF Opened
<1> HIDE DEF T
<1>4. Nat \subseteq T
  BY <1>2, <1>3, Induct
<1>5. QED
  BY <1>4 DEF T

\* OpenAfter is the last value of such a function.
LEMMA OpenIs ==
    ASSUME NEW code, NEW p \in Nat
    PROVE  \E g : IsOpen(g, code, p) /\ OpenAfter(code, p) = g[p]
<1> DEFINE g == CHOOSE g : IsOpen(g, code, p)
<1>1. IsOpen(g, code, p)
  BY OpenExists
<1>2. OpenAfter(code, p) = g[p]
  BY Zenon DEF OpenAfter, IsOpen
<1>3. QED
  BY <1>1, <1>2

\* Only the opcodes read so far count.
LEMMA OpenSame ==
    ASSUME NEW c, NEW d, NEW p \in Nat, Agree(c, d, p)
    PROVE  OpenAfter(c, p) = OpenAfter(d, p)
<1>1. PICK g : IsOpen(g, c, p) /\ OpenAfter(c, p) = g[p]
  BY OpenIs
<1>2. PICK h : IsOpen(h, d, p) /\ OpenAfter(d, p) = h[p]
  BY OpenIs
<1>3. \A n \in 0 .. p : g[n] = h[n]
  BY <1>1, <1>2, OpenAgree
<1>4. QED
  BY <1>1, <1>2, <1>3

\* OpenAfter, opcode by opcode.
LEMMA OpenSteps ==
    ASSUME NEW code
    PROVE  /\ OpenAfter(code, 0) = <<>>
           /\ \A p \in Nat : OpenAfter(code, p + 1) = Opened(code, p + 1, OpenAfter(code, p))
<1>1. OpenAfter(code, 0) = <<>>
  <2>1. PICK g : IsOpen(g, code, 0) /\ OpenAfter(code, 0) = g[0]
    BY OpenIs
  <2>2. QED
    BY <2>1, OpenEach
<1>2. ASSUME NEW p \in Nat
      PROVE  OpenAfter(code, p + 1) = Opened(code, p + 1, OpenAfter(code, p))
  <2>1. PICK g : IsOpen(g, code, p) /\ OpenAfter(code, p) = g[p]
    BY OpenIs
  <2> DEFINE q == p + 1
  <2>2. q \in Nat /\ p <= q /\ p \in 0 .. p /\ q \in 1 .. q /\ q - 1 = p
    OBVIOUS
  <2>3. OpenAfter(code, p + 1) = OpenAfter(code, q)
    OBVIOUS
  <2> HIDE DEF q
  <2>4. PICK h : IsOpen(h, code, q) /\ OpenAfter(code, q) = h[q]
    BY <2>2, OpenIs
  <2>5. Agree(code, code, p)
    BY DEF Agree
  <2>6. \A n \in 0 .. p : g[n] = h[n]
    BY <2>1, <2>2, <2>4, <2>5, OpenAgree
  <2>7. h[q] = Opened(code, q, h[p])
    BY <2>2, <2>4, OpenEach
  <2>8. OpenAfter(code, q) = Opened(code, q, OpenAfter(code, p))
    BY <2>1, <2>2, <2>4, <2>6, <2>7
  <2>9. QED
    BY <2>8 DEF q
<1>3. QED
  BY <1>1, <1>2

\* The beginning of a sequence.
LEMMA PrefixOf ==
    ASSUME NEW X, NEW s \in Seq(X), NEW n \in 0 .. Len(s)
    PROVE  /\ SubSeq(s, 1, n) \in Seq(X) /\ Len(SubSeq(s, 1, n)) = n
           /\ \A k \in 1 .. n : SubSeq(s, 1, n)[k] = s[k]
  OBVIOUS

\* A sequence without its last element.
LEMMA FrontOf ==
    ASSUME NEW X, NEW s \in Seq(X), s # <<>>
    PROVE  /\ Front(s) \in Seq(X) /\ Len(Front(s)) = Len(s) - 1 /\ Len(s) \in Nat \ {0}
           /\ \A k \in 1 .. Len(s) - 1 : Front(s)[k] = s[k]
           /\ Last(s) = s[Len(s)] /\ Last(s) \in X
           /\ Front(s) = SubSeq(s, 1, Len(s) - 1)
<1>1. Len(s) \in Nat \ {0}
  OBVIOUS
<1>2. Front(s) = SubSeq(s, 1, Len(s) - 1) /\ Last(s) = s[Len(s)]
  BY DEF Front, Last
<1>3. s[Len(s)] \in X
  BY <1>1
<1>4. /\ SubSeq(s, 1, Len(s) - 1) \in Seq(X) /\ Len(SubSeq(s, 1, Len(s) - 1)) = Len(s) - 1
      /\ \A k \in 1 .. Len(s) - 1 : SubSeq(s, 1, Len(s) - 1)[k] = s[k]
  <2>1. Len(s) - 1 \in 0 .. Len(s)
    BY <1>1
  <2>2. QED
    BY <2>1, PrefixOf
<1>5. QED
  BY <1>1, <1>2, <1>3, <1>4

\* Two sequences that agree are equal.
LEMMA SameSequence ==
    ASSUME NEW X, NEW s \in Seq(X), NEW Y, NEW t \in Seq(Y), Len(s) = Len(t),
           \A k \in 1 .. Len(s) : s[k] = t[k]
    PROVE  s = t
  OBVIOUS

\* The beginning of a sequence that became longer.
LEMMA PrefixOfAppend ==
    ASSUME NEW X, NEW s \in Seq(X), NEW x \in X, NEW n \in 0 .. Len(s)
    PROVE  SubSeq(Append(s, x), 1, n) = SubSeq(s, 1, n)
<1>1. /\ Append(s, x) \in Seq(X) /\ Len(s) \in Nat /\ Len(Append(s, x)) = Len(s) + 1
      /\ \A k \in 1 .. Len(s) : Append(s, x)[k] = s[k]
  OBVIOUS
<1>2. n \in 0 .. Len(Append(s, x))
  BY <1>1
<1>3. /\ SubSeq(s, 1, n) \in Seq(X) /\ Len(SubSeq(s, 1, n)) = n
      /\ \A k \in 1 .. n : SubSeq(s, 1, n)[k] = s[k]
  BY PrefixOf
<1>4. /\ SubSeq(Append(s, x), 1, n) \in Seq(X) /\ Len(SubSeq(Append(s, x), 1, n)) = n
      /\ \A k \in 1 .. n : SubSeq(Append(s, x), 1, n)[k] = Append(s, x)[k]
  BY <1>1, <1>2, PrefixOf
<1>5. \A k \in 1 .. n : SubSeq(Append(s, x), 1, n)[k] = SubSeq(s, 1, n)[k]
  BY <1>1, <1>3, <1>4
<1>6. QED
  BY <1>3, <1>4, <1>5, SameSequence

\* The beginning of a sequence that became shorter.
LEMMA PrefixOfPrefix ==
    ASSUME NEW X, NEW s \in Seq(X), NEW m \in 0 .. Len(s), NEW n \in 0 .. m
    PROVE  SubSeq(SubSeq(s, 1, m), 1, n) = SubSeq(s, 1, n)
<1> DEFINE t == SubSeq(s, 1, m)
<1>1. t \in Seq(X) /\ Len(t) = m /\ \A k \in 1 .. m : t[k] = s[k]
  BY PrefixOf
<1> HIDE DEF t
<1>2. n \in 0 .. Len(t) /\ n \in 0 .. Len(s)
  BY <1>1
<1>3. /\ SubSeq(s, 1, n) \in Seq(X) /\ Len(SubSeq(s, 1, n)) = n
      /\ \A k \in 1 .. n : SubSeq(s, 1, n)[k] = s[k]
  BY <1>2, PrefixOf
<1>4. /\ SubSeq(t, 1, n) \in Seq(X) /\ Len(SubSeq(t, 1, n)) = n
      /\ \A k \in 1 .. n : SubSeq(t, 1, n)[k] = t[k]
  BY <1>1, <1>2, PrefixOf
<1>5. \A k \in 1 .. n : SubSeq(t, 1, n)[k] = SubSeq(s, 1, n)[k]
  BY <1>1, <1>3, <1>4
<1>6. SubSeq(t, 1, n) = SubSeq(s, 1, n)
  BY <1>3, <1>4, <1>5, SameSequence
<1>7. QED
  BY <1>6 DEF t

\* s lists openers among the first p opcodes, from left to right, and below each
\* of them what was open in front of it.
Nested(code, p, s) ==
    /\ s \in Seq(Nat)
    /\ \A k \in 1 .. Len(s) : s[k] \in 1 .. p /\ code[s[k]] \in Openers
    /\ \A a, b \in 1 .. Len(s) : a < b => s[a] < s[b]
    /\ \A k \in 1 .. Len(s) : OpenAfter(code, s[k] - 1) = SubSeq(s, 1, k - 1)

\* An opener goes on top.
LEMMA NestedAppend ==
    ASSUME NEW code, NEW p \in Nat, Nested(code, p, OpenAfter(code, p)), code[p + 1] \in Openers
    PROVE  Nested(code, p + 1, Append(OpenAfter(code, p), p + 1))
<1> DEFINE s == OpenAfter(code, p)
           t == Append(s, p + 1)
<1>1. /\ s \in Seq(Nat) /\ Len(s) \in Nat
      /\ \A k \in 1 .. Len(s) : s[k] \in 1 .. p /\ code[s[k]] \in Openers
      /\ \A a, b \in 1 .. Len(s) : a < b => s[a] < s[b]
      /\ \A k \in 1 .. Len(s) : OpenAfter(code, s[k] - 1) = SubSeq(s, 1, k - 1)
  BY DEF Nested
<1>2. OpenAfter(code, p) = s
  OBVIOUS
<1> HIDE DEF s
<1>3. /\ t \in Seq(Nat) /\ Len(t) = Len(s) + 1 /\ t[Len(s) + 1] = p + 1
      /\ \A k \in 1 .. Len(s) : t[k] = s[k]
  BY <1>1
<1>4. \A n \in 0 .. Len(s) : SubSeq(t, 1, n) = SubSeq(s, 1, n)
  <2>1. p + 1 \in Nat
    OBVIOUS
  <2>2. QED
    BY <1>1, <2>1, PrefixOfAppend
<1>5. SubSeq(s, 1, Len(s)) = s
  BY <1>1
<1> HIDE DEF t
<1>6. ASSUME NEW k \in 1 .. Len(t)
      PROVE  /\ t[k] \in 1 .. p + 1 /\ code[t[k]] \in Openers
             /\ OpenAfter(code, t[k] - 1) = SubSeq(t, 1, k - 1)
  <2>1. CASE k = Len(s) + 1
    <3>1. t[k] = p + 1 /\ (p + 1) - 1 = p /\ k - 1 = Len(s)
      BY <1>1, <1>3, <2>1
    <3>2. SubSeq(t, 1, Len(s)) = s
      BY <1>1, <1>4, <1>5, SMTT(40)
    <3>3. QED
      <4>1. t[k] \in 1 .. p + 1 /\ code[t[k]] \in Openers
        BY <3>1
      <4>2. OpenAfter(code, t[k] - 1) = s /\ SubSeq(t, 1, k - 1) = s
        BY <1>2, <3>1, <3>2
      <4>3. QED
        BY <4>1, <4>2
  <2>2. CASE k \in 1 .. Len(s)
    <3>1. k - 1 \in 0 .. Len(s)
      BY <1>1, <2>2
    <3>2. QED
      <4>1. t[k] = s[k] /\ s[k] \in 1 .. p /\ code[s[k]] \in Openers
        BY <1>1, <1>3, <2>2
      <4>2. s[k] \in 1 .. p + 1
        BY <4>1
      <4>3. OpenAfter(code, s[k] - 1) = SubSeq(t, 1, k - 1)
        BY <1>1, <1>4, <2>2, <3>1
      <4>4. QED
        BY <4>1, <4>2, <4>3
  <2>3. QED
    <3>1. k = Len(s) + 1 \/ k \in 1 .. Len(s)
      BY <1>1, <1>3
    <3>2. QED
      BY <2>1, <2>2, <3>1
<1>7. ASSUME NEW a \in 1 .. Len(t), NEW b \in 1 .. Len(t), a < b
      PROVE  t[a] < t[b]
  <2>1. a \in 1 .. Len(s)
    BY <1>1, <1>3, <1>7
  <2>2. CASE b = Len(s) + 1
    BY <1>1, <1>3, <2>1, <2>2, SMTT(40)
  <2>3. CASE b \in 1 .. Len(s)
    BY <1>1, <1>3, <1>7, <2>1, <2>3
  <2>4. QED
    BY <1>1, <1>3, <2>2, <2>3
<1>8. Nested(code, p + 1, t)
  BY <1>3, <1>6, <1>7 DEF Nested
<1>9. QED
  BY <1>8 DEF t, s

\* The innermost construct goes.
LEMMA NestedFront ==
    ASSUME NEW code, NEW p \in Nat, NEW s, Nested(code, p, s), s # <<>>
    PROVE  Nested(code, p + 1, Front(s))
<1> DEFINE t == Front(s)
<1>1. /\ s \in Seq(Nat) /\ Len(s) \in Nat
      /\ \A k \in 1 .. Len(s) : s[k] \in 1 .. p /\ code[s[k]] \in Openers
      /\ \A a, b \in 1 .. Len(s) : a < b => s[a] < s[b]
      /\ \A k \in 1 .. Len(s) : OpenAfter(code, s[k] - 1) = SubSeq(s, 1, k - 1)
  BY DEF Nested
<1>2. /\ t \in Seq(Nat) /\ Len(t) = Len(s) - 1 /\ Len(s) \in Nat \ {0}
      /\ \A k \in 1 .. Len(t) : t[k] = s[k]
      /\ t = SubSeq(s, 1, Len(s) - 1)
  BY <1>1, FrontOf
<1> HIDE DEF t
<1>3. \A n \in 0 .. Len(t) : SubSeq(t, 1, n) = SubSeq(s, 1, n)
  <2>1. Len(s) - 1 \in 0 .. Len(s)
    BY <1>2
  <2>2. QED
    BY <1>1, <1>2, <2>1, PrefixOfPrefix
<1>4. ASSUME NEW k \in 1 .. Len(t)
      PROVE  /\ t[k] \in 1 .. p + 1 /\ code[t[k]] \in Openers
             /\ OpenAfter(code, t[k] - 1) = SubSeq(t, 1, k - 1)
  <2>1. k \in 1 .. Len(s) /\ k - 1 \in 0 .. Len(t)
    BY <1>2
  <2>2. t[k] = s[k] /\ s[k] \in 1 .. p /\ code[s[k]] \in Openers
    BY <1>1, <1>2, <2>1
  <2>3. s[k] \in 1 .. p + 1
    BY <2>2
  <2>4. OpenAfter(code, s[k] - 1) = SubSeq(t, 1, k - 1)
    BY <1>1, <1>3, <2>1
  <2>5. QED
    BY <2>2, <2>3, <2>4
<1>5. ASSUME NEW a \in 1 .. Len(t), NEW b \in 1 .. Len(t), a < b
      PROVE  t[a] < t[b]
  <2>1. a \in 1 .. Len(s) /\ b \in 1 .. Len(s)
    BY <1>2
  <2>2. s[a] < s[b] /\ t[a] = s[a] /\ t[b] = s[b]
    BY <1>1, <1>2, <1>5, <2>1
  <2>3. QED
    BY <2>2
<1>6. Nested(code, p + 1, t)
  BY <1>2, <1>4, <1>5 DEF Nested
<1>7. QED
  BY <1>6 DEF t

\* What is open is nested.
LEMMA OpenNested ==
    ASSUME NEW code, NEW p \in Nat
    PROVE  Nested(code, p, OpenAfter(code, p))
<1> DEFINE T == {k \in Nat : Nested(code, k, OpenAfter(code, k))}
<1>1. 0 \in T
  <2>1. OpenAfter(code, 0) = <<>>
    BY OpenSteps
  <2>2. Nested(code, 0, <<>>)
    BY DEF Nested
  <2>3. QED
    BY <2>1, <2>2
<1>2. ASSUME NEW k \in Nat, k \in T
      PROVE  k + 1 \in T
  <2>1. Nested(code, k, OpenAfter(code, k))
    BY <1>2
  <2>2. OpenAfter(code, k + 1) = Opened(code, k + 1, OpenAfter(code, k))
    BY OpenSteps
  <2>3. Nested(code, k + 1, OpenAfter(code, k + 1))
    <3>1. CASE code[k + 1] \in Openers
      BY <2>1, <2>2, <3>1, NestedAppend DEF Opened
    <3>2. CASE code[k + 1] \notin Openers /\ code[k + 1] = "end" /\ OpenAfter(code, k) # <<>>
      BY <2>1, <2>2, <3>2, NestedFront DEF Opened
    <3>3. CASE OpenAfter(code, k + 1) = OpenAfter(code, k)
      BY <2>1, <3>3 DEF Nested
    <3>4. QED
      BY <2>2, <3>1, <3>2, <3>3 DEF Opened
  <2>4. QED
    BY <2>3
<1> HIDE DEF T
<1>3. Nat \subseteq T
  BY <1>1, <1>2, Induct
<1>4. QED
  BY <1>3 DEF T

-----------------------------------------------------------------------------
(* Positions in a text.                                                    *)

\* The constructs around an opcode.
LEMMA EnclosingNested ==
    ASSUME NEW code, NEW p \in Nat \ {0}
    PROVE  Nested(code, p - 1, Enclosing(code, p))
<1>1. p - 1 \in Nat
  OBVIOUS
<1>2. QED
  BY <1>1, OpenNested DEF Enclosing

\* The constructs around the opcode behind p.
LEMMA EnclosingNext ==
    ASSUME NEW code, NEW p \in Nat \ {0}
    PROVE  Enclosing(code, p + 1) = Opened(code, p, Enclosing(code, p))
<1> DEFINE k == p - 1
<1>1. k \in Nat /\ k + 1 = p /\ (p + 1) - 1 = p
  OBVIOUS
<1>2. OpenAfter(code, k + 1) = Opened(code, k + 1, OpenAfter(code, k))
  BY <1>1, OpenSteps
<1>3. QED
  BY <1>1, <1>2 DEF Enclosing

\* The innermost construct of an opcode is an opener before it, and its own
\* surroundings are the rest of the surroundings.
LEMMA Inside ==
    ASSUME NEW code, NEW p \in Nat \ {0}, Innermost(code, p) # 0
    PROVE  LET i == Innermost(code, p)
           IN  /\ i \in 1 .. p - 1 /\ code[i] \in Openers
               /\ Enclosing(code, p) # <<>> /\ Last(Enclosing(code, p)) = i
               /\ Front(Enclosing(code, p)) = Enclosing(code, i)
               /\ Enclosing(code, p) = Append(Enclosing(code, i), i)
<1> DEFINE s == Enclosing(code, p)
           i == Last(s)
           f == Front(s)
<1>1. Innermost(code, p) = i /\ s # <<>>
  BY DEF Innermost
<1>2. Nested(code, p - 1, s)
  BY EnclosingNested
<1> HIDE DEF s
<1>3. /\ s \in Seq(Nat)
      /\ \A k \in 1 .. Len(s) : s[k] \in 1 .. p - 1 /\ code[s[k]] \in Openers
      /\ \A k \in 1 .. Len(s) : OpenAfter(code, s[k] - 1) = SubSeq(s, 1, k - 1)
  BY <1>2 DEF Nested
<1>4. /\ f \in Seq(Nat) /\ Len(f) = Len(s) - 1 /\ Len(s) \in Nat \ {0}
      /\ \A k \in 1 .. Len(s) - 1 : f[k] = s[k]
      /\ i = s[Len(s)] /\ i \in Nat
      /\ f = SubSeq(s, 1, Len(s) - 1)
  BY <1>1, <1>3, FrontOf
<1>5. Len(s) \in 1 .. Len(s)
  BY <1>4
<1>6. i \in 1 .. p - 1 /\ code[i] \in Openers
  BY <1>3, <1>4, <1>5
<1>7. Enclosing(code, i) = f
  BY <1>3, <1>4, <1>5 DEF Enclosing
<1> HIDE DEF f, i
<1>8. s = Append(f, i)
  <2> DEFINE t == Append(f, i)
  <2>1. t \in Seq(Nat) /\ Len(t) = Len(s) /\ t[Len(s)] = i /\ \A k \in 1 .. Len(f) : t[k] = f[k]
    BY <1>4
  <2> HIDE DEF t
  <2>2. ASSUME NEW k \in 1 .. Len(s)
        PROVE  s[k] = t[k]
    <3>1. CASE k = Len(s)
      BY <1>4, <2>1, <3>1
    <3>2. CASE k \in 1 .. Len(s) - 1
      BY <1>4, <2>1, <3>2
    <3>3. QED
      BY <1>4, <3>1, <3>2
  <2>3. s = t
    BY <1>3, <2>1, <2>2, SameSequence
  <2>4. QED
    BY <2>3 DEF t
<1>9. QED
  BY <1>1, <1>6, <1>7, <1>8 DEF s, i, f

\* Behind an end, the surroundings are those of its construct.
LEMMA BehindEnd ==
    ASSUME NEW code, NEW p \in Nat \ {0}, code[p] = "end", Innermost(code, p) # 0
    PROVE  Enclosing(code, p + 1) = Enclosing(code, Innermost(code, p))
<1>1. code[p] \notin Openers
  BY DEF Openers
<1>2. /\ Enclosing(code, p) # <<>>
      /\ Front(Enclosing(code, p)) = Enclosing(code, Innermost(code, p))
  BY Inside
<1>3. QED
  BY <1>1, <1>2, EnclosingNext DEF Opened

\* An opener is around what is behind it.
LEMMA BehindOpener ==
    ASSUME NEW code, NEW p \in Nat \ {0}, code[p] \in Openers
    PROVE  Enclosing(code, p + 1) = Append(Enclosing(code, p), p)
  BY EnclosingNext DEF Opened

\* Other opcodes do not change the surroundings.
LEMMA BehindOther ==
    ASSUME NEW code, NEW p \in Nat \ {0}, code[p] \in {"op", "else"}
    PROVE  Enclosing(code, p + 1) = Enclosing(code, p)
  BY EnclosingNext DEF Opened, Openers

\* Only what is in front of an opcode counts.
LEMMA SameSurroundings ==
    ASSUME NEW c, NEW d, NEW p \in Nat \ {0}, Agree(c, d, p - 1)
    PROVE  Enclosing(c, p) = Enclosing(d, p) /\ Innermost(c, p) = Innermost(d, p)
<1>1. p - 1 \in Nat
  OBVIOUS
<1>2. Enclosing(c, p) = Enclosing(d, p)
  BY <1>1, OpenSame DEF Enclosing
<1>3. QED
  BY <1>2 DEF Innermost

Among(i, s) == \E k \in 1 .. Len(s) : s[k] = i

\* A construct that is closed is not opened again.
LEMMA StaysClosed ==
    ASSUME NEW code, NEW q \in Nat, NEW r \in Nat, q <= r, NEW i \in 1 .. q,
           ~Among(i, OpenAfter(code, q))
    PROVE  ~Among(i, OpenAfter(code, r))
<1> DEFINE T == {k \in Nat : q <= k => ~Among(i, OpenAfter(code, k))}
<1>1. 0 \in T
  OBVIOUS
<1>2. ASSUME NEW k \in Nat, k \in T
      PROVE  k + 1 \in T
  <2>1. SUFFICES ASSUME q <= k + 1
                 PROVE  ~Among(i, OpenAfter(code, k + 1))
    OBVIOUS
  <2>2. CASE q = k + 1
    BY <2>2
  <2>3. CASE q <= k
    <3> DEFINE s == OpenAfter(code, k)
    <3>1. ~Among(i, s) /\ i # k + 1
      BY <1>2, <2>3
    <3>2. OpenAfter(code, k + 1) = Opened(code, k + 1, s)
      BY OpenSteps
    <3>3. Nested(code, k, s)
      BY OpenNested
    <3> HIDE DEF s
    <3>4. s \in Seq(Nat)
      BY <3>3 DEF Nested
    <3>5. ~Among(i, Append(s, k + 1))
      <4>1. /\ Len(Append(s, k + 1)) = Len(s) + 1 /\ Append(s, k + 1)[Len(s) + 1] = k + 1
            /\ \A n \in 1 .. Len(s) : Append(s, k + 1)[n] = s[n] /\ s[n] # i
        BY <3>1, <3>4 DEF Among
      <4>2. QED
        BY <3>1, <3>4, <4>1 DEF Among
    <3>6. s # <<>> => ~Among(i, Front(s))
      <4>1. SUFFICES ASSUME s # <<>>
                     PROVE  ~Among(i, Front(s))
        OBVIOUS
      <4>2. /\ Len(Front(s)) = Len(s) - 1 /\ Len(s) \in Nat \ {0}
            /\ \A n \in 1 .. Len(s) - 1 : Front(s)[n] = s[n]
        BY <3>4, <4>1, FrontOf
      <4>3. QED
        BY <3>1, <4>2 DEF Among
    <3>7. QED
      BY <3>1, <3>2, <3>5, <3>6 DEF Opened
  <2>4. QED
    BY <2>1, <2>2, <2>3
<1> HIDE DEF T
<1>3. Nat \subseteq T
  BY <1>1, <1>2, Induct
<1>4. QED
  BY <1>3 DEF T

\* Behind its end, a construct is not open.
LEMMA ClosedBehindEnd ==
    ASSUME NEW code, NEW p \in Nat \ {0}, code[p] = "end", Innermost(code, p) # 0
    PROVE  ~Among(Innermost(code, p), OpenAfter(code, p))
<1> DEFINE s == Enclosing(code, p)
           i == Innermost(code, p)
           f == Front(s)
<1>1. /\ i \in 1 .. p - 1 /\ s # <<>> /\ Last(s) = i /\ Enclosing(code, i) = f
  BY Inside
<1>2. Enclosing(code, p + 1) = f
  BY <1>1, BehindEnd
<1>3. OpenAfter(code, p) = f
  BY <1>2 DEF Enclosing
<1>4. Nested(code, i - 1, f)
  BY <1>1, EnclosingNested
<1>5. \A k \in 1 .. Len(f) : f[k] \in 1 .. i - 1
  BY <1>4 DEF Nested
<1>6. ~Among(i, f)
  BY <1>1, <1>5 DEF Among
<1>7. QED
  BY <1>3, <1>6

\* A construct ends once.
LEMMA EndsOnce ==
    ASSUME NEW code, NEW p \in Nat \ {0}, NEW q \in Nat \ {0}, p < q, code[p] = "end",
           Innermost(code, p) # 0
    PROVE  Innermost(code, q) # Innermost(code, p)
<1> DEFINE i == Innermost(code, p)
<1>1. i \in 1 .. p - 1
  BY Inside
<1>2. ~Among(i, OpenAfter(code, p))
  BY ClosedBehindEnd
<1> HIDE DEF i
<1>3. p \in Nat /\ q - 1 \in Nat /\ p <= q - 1 /\ i \in 1 .. p
  BY <1>1
<1>4. ~Among(i, OpenAfter(code, q - 1))
  BY <1>2, <1>3, StaysClosed
<1>5. SUFFICES ASSUME Innermost(code, q) = i
               PROVE  FALSE
  BY DEF i
<1>6. Innermost(code, q) # 0
  BY <1>1, <1>5
<1>7. Enclosing(code, q) # <<>> /\ Last(Enclosing(code, q)) = i
  BY <1>5, <1>6, Inside
<1> DEFINE s == Enclosing(code, q)
<1>8. s \in Seq(Nat)
  BY EnclosingNested DEF Nested
<1>9. s[Len(s)] = i /\ Len(s) \in Nat \ {0}
  BY <1>7, <1>8, FrontOf
<1>10. ~Among(i, s)
  BY <1>4 DEF Enclosing
<1>11. QED
  BY <1>9, <1>10 DEF Among

\* That is the end EndOf chooses.
LEMMA EndIs ==
    ASSUME NEW code, Len(code) \in Nat, NEW p \in 1 .. Len(code), code[p] = "end",
           Innermost(code, p) # 0
    PROVE  EndOf(code, Innermost(code, p)) = p
<1> DEFINE i == Innermost(code, p)
           Ends(q) == q \in i + 1 .. Len(code) /\ code[q] = "end" /\ Innermost(code, q) = i
<1>1. i \in 1 .. p - 1
  BY Inside
<1>2. Ends(p)
  BY <1>1
<1>3. ASSUME NEW q, Ends(q)
      PROVE  q = p
  <2>1. q \in Nat \ {0} /\ p \in Nat \ {0} /\ code[q] = "end" /\ Innermost(code, q) = i /\ i # 0
    BY <1>1, <1>3
  <2>2. ~(p < q)
    BY <2>1, EndsOnce
  <2>3. ~(q < p)
    BY <2>1, EndsOnce
  <2>4. QED
    BY <2>1, <2>2, <2>3
<1>4. EndOf(code, i) = CHOOSE q \in i + 1 .. Len(code) : code[q] = "end" /\ Innermost(code, q) = i
  BY DEF EndOf
<1> HIDE DEF i
<1>5. EndOf(code, i) = p
  BY <1>2, <1>3, <1>4
<1>6. QED
  BY <1>5 DEF i

-----------------------------------------------------------------------------
(* The tree and the text.                                                  *)

NodeSet == [op : Opcodes, next : Nat, in1 : Nat, in2 : Nat]
FrameSet == [node : Nat, list : {"body", "in1", "in2"}, last : Nat]

TextOf(ns) == [i \in 1 .. Len(ns) |-> ns[i].op]

\* Behind the instruction or construct that begins at i the text goes on at t.
Exits(c, i, t) ==
    /\ i < t /\ c[i] # "end"
    /\ IF c[i] \in Openers THEN c[t - 1] = "end" /\ Innermost(c, t - 1) = i ELSE t = i + 1

\* The second arm of the construct i begins at t.
ElseAt(c, i, t) == i + 1 < t /\ c[t - 1] = "else" /\ Innermost(c, t - 1) = i

\* Each pointer of node i leads on in the text; it is missing only while an
\* activation will set it.
NextOK(ns, c, fs, i) ==
    /\ ns[i].next # 0 => ns[i].next <= Len(ns) /\ Exits(c, i, ns[i].next)
    /\ ns[i].next = 0 /\ c[i] \in Openers \cup {"op"} =>
          \E k \in 1 .. Len(fs) : i \in {fs[k].node, fs[k].last}
In1OK(ns, c, fs, i) ==
    /\ ns[i].in1 # 0 => ns[i].in1 <= Len(ns) /\ ns[i].in1 = i + 1 /\ c[i] \in Openers
    /\ ns[i].in1 = 0 /\ c[i] \in Openers => \E k \in 1 .. Len(fs) : fs[k] = Frame(i, "in1")
In2OK(ns, c, fs, i) ==
    /\ ns[i].in2 # 0 => ns[i].in2 <= Len(ns) /\ ElseAt(c, i, ns[i].in2)
    /\ ns[i].in2 = 0 /\ ElseOf(c, i) # {} => \E k \in 1 .. Len(fs) : fs[k] = Frame(i, "in2")

NodeOK(ns, c, fs, i) == NextOK(ns, c, fs, i) /\ In1OK(ns, c, fs, i) /\ In2OK(ns, c, fs, i)

\* The pointer that activation f will set is NULL, and what begins at s goes there.
SlotOK(ns, b, c, f, s) ==
    /\ f.last # 0 =>
          /\ f.node < f.last /\ f.last <= Len(ns) /\ ns[f.last].next = 0 /\ Exits(c, f.last, s)
          /\ f.list = "body" => b = 1
          /\ f.list = "in2" => ns[f.node].in2 # 0
    /\ f.last = 0 =>
          /\ f.list = "body" => b = 0 /\ s = 1
          /\ f.list = "in1" => ns[f.node].in1 = 0 /\ s = f.node + 1
          /\ f.list = "in2" => ns[f.node].in2 = 0 /\ ElseAt(c, f.node, s)
    /\ f.list = "in1" => ns[f.node].in2 = 0 /\ ElseOf(c, f.node) = {}
    /\ f.list # "body" => ns[f.node].next = 0

\* Where what the k-th activation is reading begins.
Begins(c, p, k) == IF k <= Len(OpenAfter(c, p)) THEN OpenAfter(c, p)[k] ELSE p + 1

\* The activations are those of the open constructs.
FramesOK(ns, b, c, fs) ==
    LET open == OpenAfter(c, Len(ns))
    IN  /\ Len(fs) = Len(open) + 1
        /\ fs[1].node = 0 /\ fs[1].list = "body"
        /\ \A k \in 1 .. Len(open) : fs[k + 1].node = open[k] /\ fs[k + 1].list \in {"in1", "in2"}
        /\ \A k \in 1 .. Len(fs) : SlotOK(ns, b, c, fs[k], Begins(c, Len(ns), k))

TypeOK ==
    /\ nodes \in Seq(NodeSet) /\ Len(nodes) <= MaxInstrs
    /\ frames \in Seq(FrameSet)
    /\ body \in {0, 1}
    /\ mode \in {"decode", "refused", "ready", "run"}

TreeInv ==
    /\ TypeOK
    /\ \A i \in 1 .. Len(nodes) : NodeOK(nodes, Text, frames, i)
    /\ mode \in {"decode", "refused"} => FramesOK(nodes, body, Text, frames)
    /\ mode \in {"ready", "run"} => frames = <<>> /\ body = 1 /\ nodes # <<>>

-----------------------------------------------------------------------------
(* Reading one more opcode.                                                *)

\* d is the text c with one more opcode.
OneMore(c, d, n) == /\ n \in Nat /\ Len(c) = n /\ Len(d) = n + 1 /\ Agree(c, d, n)

\* What is known of a text stays when it goes on.
LEMMA Prefix ==
    ASSUME NEW c, NEW d, NEW n, OneMore(c, d, n), NEW i \in 1 .. n, NEW t \in 1 .. n + 1
    PROVE  /\ Exits(c, i, t) <=> Exits(d, i, t)
           /\ ElseAt(c, i, t) <=> ElseAt(d, i, t)
<1>1. n \in Nat /\ \A k \in 1 .. n : c[k] = d[k]
  BY DEF OneMore, Agree
<1>2. SUFFICES ASSUME i < t
               PROVE  /\ Exits(c, i, t) <=> Exits(d, i, t)
                      /\ ElseAt(c, i, t) <=> ElseAt(d, i, t)
  BY <1>1 DEF Exits, ElseAt
<1>3. t - 1 \in 1 .. n /\ t - 1 \in Nat \ {0}
  BY <1>1, <1>2
<1>4. Agree(c, d, (t - 1) - 1)
  BY <1>1, <1>3 DEF Agree
<1>5. Innermost(c, t - 1) = Innermost(d, t - 1)
  BY <1>3, <1>4, SameSurroundings
<1>6. QED
  BY <1>1, <1>3, <1>5 DEF Exits, ElseAt

\* The last opcode of a text that goes on.
LEMMA OneMoreOpcode ==
    ASSUME NEW c, NEW d, NEW n, OneMore(c, d, n)
    PROVE  LET open == OpenAfter(c, n)
           IN  /\ OpenAfter(d, n + 1) = Opened(d, n + 1, open)
               /\ Innermost(d, n + 1) = (IF open = <<>> THEN 0 ELSE Last(open))
               /\ Enclosing(d, n + 1) = open
<1>1. n \in Nat /\ (n + 1) - 1 = n /\ Agree(c, d, n)
  BY DEF OneMore
<1>2. OpenAfter(d, n) = OpenAfter(c, n)
  BY <1>1, OpenSame
<1>3. Enclosing(d, n + 1) = OpenAfter(c, n)
  BY <1>1, <1>2 DEF Enclosing
<1>4. OpenAfter(d, n + 1) = Opened(d, n + 1, OpenAfter(d, n))
  BY <1>1, OpenSteps
<1>5. QED
  BY <1>2, <1>3, <1>4 DEF Innermost

\* The arms of a construct when the text goes on.
LEMMA OneMoreElse ==
    ASSUME NEW c, NEW d, NEW n, OneMore(c, d, n), NEW i \in 1 .. n
    PROVE  /\ ElseOf(c, i) \subseteq ElseOf(d, i)
           /\ ~(d[n + 1] = "else" /\ Innermost(d, n + 1) = i) => ElseOf(d, i) = ElseOf(c, i)
<1>1. n \in Nat /\ Len(c) = n /\ Len(d) = n + 1 /\ \A k \in 1 .. n : c[k] = d[k]
  BY DEF OneMore, Agree
<1>2. ASSUME NEW p \in i + 1 .. n
      PROVE  c[p] = d[p] /\ Innermost(c, p) = Innermost(d, p)
  <2>1. p \in Nat \ {0} /\ p \in 1 .. n
    BY <1>1
  <2>2. Agree(c, d, p - 1)
    BY <1>1, <2>1 DEF Agree
  <2>3. QED
    BY <1>1, <2>1, <2>2, SameSurroundings
<1>3. ElseOf(c, i) \subseteq ElseOf(d, i)
  BY <1>1, <1>2 DEF ElseOf
<1>4. ASSUME ~(d[n + 1] = "else" /\ Innermost(d, n + 1) = i), NEW p \in ElseOf(d, i)
      PROVE  p \in ElseOf(c, i)
  <2>1. p \in i + 1 .. n + 1 /\ d[p] = "else" /\ Innermost(d, p) = i
    BY <1>1 DEF ElseOf
  <2>2. p # n + 1
    BY <1>4, <2>1
  <2>3. p \in i + 1 .. n
    BY <1>1, <2>1, <2>2
  <2>4. QED
    BY <1>1, <1>2, <2>1, <2>3 DEF ElseOf
<1>5. QED
  BY <1>3, <1>4

\* *instr = i sets one pointer: that of the last node, or the head of a list.
LEMMA LinkedFields ==
    ASSUME NEW ns \in Seq(NodeSet), NEW f \in FrameSet, f.last <= Len(ns),
           f.list # "body" => f.node \in 1 .. Len(ns), NEW i \in Nat
    PROVE  LET u == Linked(ns, f, i)
           IN  /\ u \in Seq(NodeSet) /\ Len(u) = Len(ns)
               /\ \A j \in 1 .. Len(ns) :
                     /\ u[j].op = ns[j].op
                     /\ u[j].next = IF f.last = j THEN i ELSE ns[j].next
                     /\ u[j].in1 = IF f.last = 0 /\ f.list = "in1" /\ f.node = j THEN i ELSE ns[j].in1
                     /\ u[j].in2 = IF f.last = 0 /\ f.list = "in2" /\ f.node = j THEN i ELSE ns[j].in2
<1>1. f.last \in Nat /\ f.node \in Nat /\ f.list \in {"body", "in1", "in2"} /\ Len(ns) \in Nat
  BY DEF FrameSet
<1>2. \A j \in 1 .. Len(ns) : ns[j] \in NodeSet
  OBVIOUS
<1>3. CASE f.last # 0
  <2>1. f.last \in 1 .. Len(ns)
    BY <1>1, <1>3
  <2>2. Linked(ns, f, i) = [ns EXCEPT ![f.last].next = i]
    BY <1>3 DEF Linked, NULL
  <2> DEFINE x == f.last
             r == [ns[x] EXCEPT !.next = i]
             u == [ns EXCEPT ![x] = r]
  <2>3. r \in NodeSet
    BY <1>2, <2>1 DEF NodeSet
  <2>4. ns[x] \in NodeSet
    BY <1>2, <2>1
  <2>5. r.next = i /\ r.op = ns[x].op /\ r.in1 = ns[x].in1 /\ r.in2 = ns[x].in2
    BY <2>4 DEF NodeSet
  <2>6. Linked(ns, f, i) = u
    BY <2>2
  <2> HIDE DEF r
  <2>7. /\ u \in Seq(NodeSet) /\ Len(u) = Len(ns) /\ u[x] = r
        /\ \A j \in 1 .. Len(ns) : j # x => u[j] = ns[j]
    BY <1>1, <2>3, <2>1
  <2> HIDE DEF u
  <2>8. QED
    BY <1>1, <1>3, <2>5, <2>6, <2>7
<1>4. CASE f.last = 0 /\ f.list = "in1"
  <2>1. Linked(ns, f, i) = [ns EXCEPT ![f.node].in1 = i]
    BY <1>4 DEF Linked, NULL
  <2>2. f.node \in 1 .. Len(ns)
    BY <1>4
  <2> DEFINE x == f.node
             r == [ns[x] EXCEPT !.in1 = i]
             u == [ns EXCEPT ![x] = r]
  <2>3. r \in NodeSet
    BY <1>2, <2>2 DEF NodeSet
  <2>4. ns[x] \in NodeSet
    BY <1>2, <2>2
  <2>5. r.in1 = i /\ r.op = ns[x].op /\ r.next = ns[x].next /\ r.in2 = ns[x].in2
    BY <2>4 DEF NodeSet
  <2>6. Linked(ns, f, i) = u
    BY <2>1
  <2> HIDE DEF r
  <2>7. /\ u \in Seq(NodeSet) /\ Len(u) = Len(ns) /\ u[x] = r
        /\ \A j \in 1 .. Len(ns) : j # x => u[j] = ns[j]
    BY <1>1, <2>3, <2>2
  <2> HIDE DEF u
  <2>8. QED
    BY <1>1, <1>4, <2>5, <2>6, <2>7
<1>5. CASE f.last = 0 /\ f.list = "in2"
  <2>1. Linked(ns, f, i) = [ns EXCEPT ![f.node].in2 = i]
    BY <1>5 DEF Linked, NULL
  <2>2. f.node \in 1 .. Len(ns)
    BY <1>5
  <2> DEFINE x == f.node
             r == [ns[x] EXCEPT !.in2 = i]
             u == [ns EXCEPT ![x] = r]
  <2>3. r \in NodeSet
    BY <1>2, <2>2 DEF NodeSet
  <2>4. ns[x] \in NodeSet
    BY <1>2, <2>2
  <2>5. r.in2 = i /\ r.op = ns[x].op /\ r.next = ns[x].next /\ r.in1 = ns[x].in1
    BY <2>4 DEF NodeSet
  <2>6. Linked(ns, f, i) = u
    BY <2>1
  <2> HIDE DEF r
  <2>7. /\ u \in Seq(NodeSet) /\ Len(u) = Len(ns) /\ u[x] = r
        /\ \A j \in 1 .. Len(ns) : j # x => u[j] = ns[j]
    BY <1>1, <2>3, <2>2
  <2> HIDE DEF u
  <2>8. QED
    BY <1>1, <1>5, <2>5, <2>6, <2>7
<1>6. CASE f.last = 0 /\ f.list = "body"
  <2>1. Linked(ns, f, i) = ns
    BY <1>6 DEF Linked, NULL
  <2>2. QED
    BY <1>1, <1>2, <1>6, <2>1
<1>7. QED
  BY <1>1, <1>3, <1>4, <1>5, <1>6

\* The text of the nodes.
LEMMA TextIs ==
    ASSUME NEW ns \in Seq(NodeSet)
    PROVE  /\ Len(ns) \in Nat /\ Len(TextOf(ns)) = Len(ns)
           /\ \A i \in 1 .. Len(ns) : TextOf(ns)[i] = ns[i].op /\ ns[i] \in NodeSet
  BY DEF TextOf

\* The activations lie in each other as the constructs do.
Leveled(ns, b, c, fs, n, m, open) ==
    /\ n \in Nat /\ m \in Nat \ {0} /\ m = Len(open) + 1
    /\ \A k \in 1 .. m : fs[k] \in FrameSet /\ SlotOK(ns, b, c, fs[k], Begins(c, n, k))
    /\ \A k \in 1 .. m : fs[k].node < Begins(c, n, k) /\ Begins(c, n, k) \in 1 .. n + 1
    /\ \A k \in 1 .. m : fs[k].last < Begins(c, n, k) /\ fs[k].last \in 0 .. n
    /\ fs[1].node = 0 /\ fs[1].list = "body"
    /\ \A k \in 2 .. m : /\ fs[k].node = open[k - 1] /\ fs[k].node \in 1 .. n
                         /\ c[fs[k].node] \in Openers /\ fs[k].list \in {"in1", "in2"}
    /\ \A k \in 1 .. m - 1 : Begins(c, n, k) = fs[k + 1].node
    /\ Begins(c, n, m) = n + 1

\* They do.
LEMMA Levels ==
    ASSUME NEW ns \in Seq(NodeSet), NEW b, NEW c, c = TextOf(ns), NEW fs \in Seq(FrameSet),
           FramesOK(ns, b, c, fs)
    PROVE  Leveled(ns, b, c, fs, Len(ns), Len(fs), OpenAfter(c, Len(ns)))
<1> DEFINE n == Len(ns)
           m == Len(fs)
           open == OpenAfter(c, n)
           B(k) == Begins(c, n, k)
<1>1. n \in Nat /\ m \in Nat
  OBVIOUS
<1>2. Nested(c, n, open)
  BY <1>1, OpenNested
<1>3. open = OpenAfter(c, n)
  OBVIOUS
<1>4. /\ m = Len(open) + 1 /\ fs[1].node = 0 /\ fs[1].list = "body"
      /\ \A k \in 1 .. Len(open) : fs[k + 1].node = open[k] /\ fs[k + 1].list \in {"in1", "in2"}
      /\ \A k \in 1 .. m : SlotOK(ns, b, c, fs[k], B(k))
  BY DEF FramesOK
<1>5. \A k \in 1 .. m : fs[k] \in FrameSet
  OBVIOUS
<1>6. Len(open) \in Nat /\ B(Len(open) + 1) = n + 1 /\ \A k \in 1 .. Len(open) : B(k) = open[k]
  <2>1. Len(open) \in Nat
    BY <1>2 DEF Nested
  <2>2. QED
    BY <2>1 DEF Begins
<1> HIDE DEF n, m, open, B
<1>7. /\ open \in Seq(Nat) /\ Len(open) \in Nat
      /\ \A k \in 1 .. Len(open) : open[k] \in 1 .. n /\ c[open[k]] \in Openers
      /\ \A i, j \in 1 .. Len(open) : i < j => open[i] < open[j]
  BY <1>2 DEF Nested
<1>8. \A k \in 2 .. m : /\ fs[k].node = open[k - 1] /\ fs[k].node \in 1 .. n
                        /\ c[fs[k].node] \in Openers /\ fs[k].list \in {"in1", "in2"}
  <2>1. SUFFICES ASSUME NEW k \in 2 .. m
                 PROVE  /\ fs[k].node = open[k - 1] /\ fs[k].node \in 1 .. n
                        /\ c[fs[k].node] \in Openers /\ fs[k].list \in {"in1", "in2"}
    OBVIOUS
  <2>2. k - 1 \in 1 .. Len(open) /\ (k - 1) + 1 = k
    BY <1>1, <1>4, <1>7
  <2>3. QED
    BY <1>4, <1>7, <2>2
<1>9. (\A k \in 1 .. m - 1 : B(k) = fs[k + 1].node) /\ B(m) = n + 1
  <2>1. B(m) = n + 1
    BY <1>4, <1>6, <1>7
  <2>2. ASSUME NEW k \in 1 .. m - 1
        PROVE  B(k) = fs[k + 1].node
    <3>1. k \in 1 .. Len(open)
      BY <1>4, <1>7
    <3>2. B(k) = open[k] /\ fs[k + 1].node = open[k]
      BY <1>4, <1>6, <3>1
    <3>3. QED
      BY <3>2
  <2>3. QED
    BY <2>1, <2>2
<1>10. ASSUME NEW k \in 1 .. m
       PROVE  fs[k].node < B(k) /\ B(k) \in 1 .. n + 1
  <2>1. B(k) \in 1 .. n + 1
    <3>1. k = Len(open) + 1 \/ k \in 1 .. Len(open)
      BY <1>4, <1>6
    <3>2. CASE k = Len(open) + 1
      BY <1>1, <1>6, <3>2
    <3>3. CASE k \in 1 .. Len(open)
      <4>1. B(k) = open[k] /\ open[k] \in 1 .. n
        BY <1>6, <1>7, <3>3
      <4>2. QED
        BY <1>1, <4>1
    <3>4. QED
      BY <3>1, <3>2, <3>3
  <2>2. CASE k = 1
    BY <1>4, <2>1, <2>2
  <2>3. CASE k \in 2 .. m
    <3>1. fs[k].node = open[k - 1] /\ k - 1 \in 1 .. Len(open) /\ open[k - 1] \in 1 .. n
      BY <1>4, <1>7, <1>8, <2>3
    <3>2. CASE k = m
      BY <1>1, <1>9, <3>1, <3>2
    <3>3. CASE k # m
      <4>1. k \in 1 .. Len(open) /\ k - 1 < k
        BY <1>1, <1>4, <3>3
      <4>2. B(k) = open[k]
        BY <1>6, <1>7, <4>1
      <4>3. open[k - 1] < open[k]
        BY <1>7, <3>1, <4>1
      <4>4. QED
        BY <2>1, <3>1, <4>2, <4>3
    <3>4. QED
      BY <3>2, <3>3
  <2>4. QED
    BY <1>1, <2>2, <2>3
<1>11. ASSUME NEW k \in 1 .. m
       PROVE  fs[k].last < B(k) /\ fs[k].last \in 0 .. n
  <2>1. fs[k].last \in Nat /\ SlotOK(ns, b, c, fs[k], B(k)) /\ B(k) \in 1 .. n + 1
    BY <1>4, <1>5, <1>10 DEF FrameSet
  <2>2. fs[k].last # 0 => fs[k].last < B(k)
    BY <2>1 DEF SlotOK, Exits
  <2>3. QED
    BY <1>1, <2>1, <2>2
<1>12. m \in Nat \ {0}
  BY <1>1, <1>4, <1>7
<1>13. QED
  BY <1>1, <1>4, <1>5, <1>8, <1>9, <1>10, <1>11, <1>12 DEF n, m, open, B, Leveled

\* The order is transitive.
LEMMA Between ==
    ASSUME NEW x \in Nat, NEW y \in Nat, NEW z \in Nat, x < y, y < z
    PROVE  x < z
OBVIOUS

\* So what an inner activation has reached lies behind what an outer one has.
LEMMA LevelsOrdered ==
    ASSUME NEW ns \in Seq(NodeSet), NEW b, NEW c, c = TextOf(ns), NEW fs \in Seq(FrameSet),
           FramesOK(ns, b, c, fs), NEW k \in 1 .. Len(fs), NEW j \in 1 .. Len(fs), k < j
    PROVE  /\ fs[k].node < fs[j].node /\ fs[k].last < fs[j].node
           /\ fs[j].last # 0 => fs[k].last < fs[j].last
           /\ fs[j].node \in 1 .. Len(ns)
<1> DEFINE m == Len(fs)
           n == Len(ns)
           B(i) == Begins(c, n, i)
           T == {i \in Nat : \A a \in 1 .. m : a + i + 1 <= m =>
                     fs[a].node < fs[a + i + 1].node /\ fs[a].last < fs[a + i + 1].node}
<1>1. /\ m \in Nat \ {0} /\ n \in Nat
      /\ \A i \in 1 .. m : fs[i] \in FrameSet
      /\ \A i \in 1 .. m : fs[i].last # 0 => fs[i].node < fs[i].last
      /\ \A i \in 1 .. m : fs[i].node < B(i) /\ fs[i].last < B(i)
      /\ \A i \in 1 .. m - 1 : B(i) = fs[i + 1].node
      /\ \A i \in 2 .. m : fs[i].node \in 1 .. n
  <2>1. Leveled(ns, b, c, fs, n, m, OpenAfter(c, n))
    BY Levels
  <2> DEFINE open == OpenAfter(c, n)
  <2> HIDE DEF m, n, open
  <2>2. Leveled(ns, b, c, fs, n, m, open)
    BY <2>1 DEF open
  <2>3. m \in Nat \ {0} /\ n \in Nat
    BY <2>2, Zenon DEF Leveled
  <2>4. \A i \in 1 .. m : fs[i] \in FrameSet /\ SlotOK(ns, b, c, fs[i], B(i))
    BY <2>2, Zenon DEF Leveled, B
  <2>5. \A i \in 1 .. m : fs[i].node < B(i) /\ fs[i].last < B(i)
    BY <2>2, Zenon DEF Leveled, B
  <2>6. \A i \in 2 .. m : fs[i].node \in 1 .. n
    BY <2>2, Zenon DEF Leveled
  <2>7. \A i \in 1 .. m - 1 : B(i) = fs[i + 1].node
    BY <2>2, Zenon DEF Leveled, B
  <2> HIDE DEF B
  <2>8. /\ m \in Nat \ {0} /\ n \in Nat
        /\ \A i \in 1 .. m : /\ fs[i] \in FrameSet /\ SlotOK(ns, b, c, fs[i], B(i))
                             /\ fs[i].node < B(i) /\ fs[i].last < B(i)
        /\ \A i \in 2 .. m : fs[i].node \in 1 .. n
        /\ \A i \in 1 .. m - 1 : B(i) = fs[i + 1].node
    BY <2>3, <2>4, <2>5, <2>6, <2>7, Zenon
  <2>9. \A i \in 1 .. m : fs[i].last # 0 => fs[i].node < fs[i].last
    BY <2>8, Zenon DEF SlotOK
  <2>10. QED
    BY <2>8, <2>9, Zenon
<1> HIDE DEF m, n, B
<1>2. \A i \in 1 .. m : fs[i].node \in Nat /\ fs[i].last \in Nat
  <2>1. \A i \in 1 .. m : fs[i] \in FrameSet
    BY <1>1
  <2>2. QED
    BY <2>1 DEF FrameSet
<1>3. \A i \in 1 .. m - 1 : fs[i].node < fs[i + 1].node /\ fs[i].last < fs[i + 1].node
  <2>1. SUFFICES ASSUME NEW i \in 1 .. m - 1
                 PROVE  fs[i].node < fs[i + 1].node /\ fs[i].last < fs[i + 1].node
    OBVIOUS
  <2>2. m \in Nat
    BY <1>1
  <2>3. i \in 1 .. m
    BY <2>2
  <2>4. B(i) = fs[i + 1].node
    BY <1>1, Zenon
  <2>5. fs[i].node < B(i) /\ fs[i].last < B(i)
    BY <1>1, <2>3, Zenon
  <2>6. QED
    BY <2>4, <2>5, Zenon
<1>4. 0 \in T
  <2>1. \A a \in 1 .. m : a + 0 + 1 = a + 1 /\ (a + 1 <= m => a \in 1 .. m - 1)
    BY <1>1
  <2>2. QED
    BY <1>3, <2>1
<1>5. ASSUME NEW i \in Nat, i \in T
      PROVE  i + 1 \in T
  <2>1. SUFFICES ASSUME NEW a \in 1 .. m, a + (i + 1) + 1 <= m
                 PROVE  /\ fs[a].node < fs[a + (i + 1) + 1].node
                        /\ fs[a].last < fs[a + (i + 1) + 1].node
    OBVIOUS
  <2> DEFINE x == a + i + 1
  <2>2. x \in 1 .. m - 1 /\ a + (i + 1) + 1 = x + 1 /\ x <= m /\ x \in 1 .. m /\ x + 1 \in 1 .. m
    BY <1>1, <2>1
  <2>3. fs[a].node < fs[x].node /\ fs[a].last < fs[x].node
    BY <1>5, <2>2
  <2>4. a + (i + 1) + 1 = x + 1
    BY <2>2
  <2> HIDE DEF x, T
  <2>5. fs[x].node < fs[x + 1].node
    BY <1>3, <2>2
  <2>6. /\ fs[x].node \in Nat /\ fs[x + 1].node \in Nat
        /\ fs[a].node \in Nat /\ fs[a].last \in Nat
    BY <1>2, <2>2
  <2>7. fs[a].node < fs[x + 1].node /\ fs[a].last < fs[x + 1].node
    BY <2>3, <2>5, <2>6, Between, Zenon
  <2>8. QED
    BY <2>4, <2>7, Zenon
<1> HIDE DEF T
<1>6. Nat \subseteq T
  BY <1>4, <1>5, Induct
<1>7. fs[k].node < fs[j].node /\ fs[k].last < fs[j].node
  <2>1. (j - k) - 1 \in Nat /\ k + ((j - k) - 1) + 1 = j /\ j <= m /\ k \in 1 .. m
    BY <1>1 DEF m
  <2>2. (j - k) - 1 \in T
    BY <1>6, <2>1
  <2>3. QED
    BY <2>1, <2>2 DEF T
<1>8. j \in 2 .. m /\ j \in 1 .. m /\ k \in 1 .. m
  BY <1>1 DEF m
<1>9. fs[j].last # 0 => fs[j].node < fs[j].last
  BY <1>1, <1>8
<1>10. fs[j].node \in 1 .. n
  BY <1>1, <1>8
<1>11. QED
  BY <1>2, <1>7, <1>8, <1>9, <1>10 DEF n

Fresh(t) == [op |-> t, next |-> 0, in1 |-> 0, in2 |-> 0]

\* u is ns with an opcode more, to which the slot of activation f points.
LinkedNew(ns, f, t, u) ==
    LET n == Len(ns)
    IN  /\ u \in Seq(NodeSet) /\ Len(u) = n + 1 /\ u[n + 1] = Fresh(t)
        /\ \A j \in 1 .. n :
              /\ u[j].op = ns[j].op
              /\ u[j].next = IF f.last = j THEN n + 1 ELSE ns[j].next
              /\ u[j].in1 = IF f.last = 0 /\ f.list = "in1" /\ f.node = j THEN n + 1 ELSE ns[j].in1
              /\ u[j].in2 = IF f.last = 0 /\ f.list = "in2" /\ f.node = j THEN n + 1 ELSE ns[j].in2

\* A new node.
LEMMA AppendFresh ==
    ASSUME NEW ns \in Seq(NodeSet), NEW t \in Opcodes
    PROVE  LET u == Append(ns, Fresh(t))
           IN  /\ u \in Seq(NodeSet) /\ Len(u) = Len(ns) + 1 /\ Len(ns) \in Nat
               /\ u[Len(ns) + 1] = Fresh(t) /\ \A j \in 1 .. Len(ns) : u[j] = ns[j]
<1>1. Fresh(t) \in NodeSet
  BY DEF Fresh, NodeSet
<1>2. QED
  BY <1>1

\* A new node that is linked at once.
LEMMA LinkNew ==
    ASSUME NEW ns \in Seq(NodeSet), NEW f \in FrameSet, f.last <= Len(ns), f.node <= Len(ns),
           f.list # "body" => f.node # 0, NEW t \in Opcodes
    PROVE  LinkedNew(ns, f, t, Linked(Append(ns, Fresh(t)), f, Len(ns) + 1))
<1> DEFINE n == Len(ns)
           a == Append(ns, Fresh(t))
           u == Linked(a, f, n + 1)
<1>1. /\ a \in Seq(NodeSet) /\ Len(a) = n + 1 /\ n \in Nat
      /\ a[n + 1] = Fresh(t) /\ \A j \in 1 .. n : a[j] = ns[j]
  BY AppendFresh
<1>2. f.last \in Nat /\ f.node \in Nat /\ f.last <= n /\ f.node <= n
  BY DEF FrameSet
<1>3. n = Len(ns)
  OBVIOUS
<1> HIDE DEF n, a
<1>4. f.last <= Len(a) /\ (f.list # "body" => f.node \in 1 .. Len(a)) /\ n + 1 \in Nat
  BY <1>1, <1>2
<1>5. /\ u \in Seq(NodeSet) /\ Len(u) = Len(a)
      /\ \A j \in 1 .. Len(a) :
            /\ u[j].op = a[j].op
            /\ u[j].next = IF f.last = j THEN n + 1 ELSE a[j].next
            /\ u[j].in1 = IF f.last = 0 /\ f.list = "in1" /\ f.node = j THEN n + 1 ELSE a[j].in1
            /\ u[j].in2 = IF f.last = 0 /\ f.list = "in2" /\ f.node = j THEN n + 1 ELSE a[j].in2
  BY <1>1, <1>4, LinkedFields
<1> HIDE DEF u
<1>6. u[n + 1] = Fresh(t)
  <2>1. n + 1 \in 1 .. Len(a) /\ f.last # n + 1 /\ f.node # n + 1
    BY <1>1, <1>2
  <2>2. u[n + 1].op = a[n + 1].op /\ u[n + 1].next = a[n + 1].next
        /\ u[n + 1].in1 = a[n + 1].in1 /\ u[n + 1].in2 = a[n + 1].in2
    BY <1>5, <2>1
  <2>3. u[n + 1] \in NodeSet /\ a[n + 1] \in NodeSet
    BY <1>1, <1>5, <2>1
  <2>4. u[n + 1] = a[n + 1]
    BY <2>2, <2>3 DEF NodeSet
  <2>5. QED
    BY <1>1, <2>4
<1>7. \A j \in 1 .. n :
        /\ u[j].op = ns[j].op
        /\ u[j].next = IF f.last = j THEN n + 1 ELSE ns[j].next
        /\ u[j].in1 = IF f.last = 0 /\ f.list = "in1" /\ f.node = j THEN n + 1 ELSE ns[j].in1
        /\ u[j].in2 = IF f.last = 0 /\ f.list = "in2" /\ f.node = j THEN n + 1 ELSE ns[j].in2
  BY <1>1, <1>5
<1>8. QED
  BY <1>1, <1>3, <1>5, <1>6, <1>7 DEF LinkedNew, u, a

\* The text with the new opcode.
LEMMA TextGoesOn ==
    ASSUME NEW ns \in Seq(NodeSet), NEW u \in Seq(NodeSet), Len(u) = Len(ns) + 1,
           \A j \in 1 .. Len(ns) : u[j].op = ns[j].op
    PROVE  /\ OneMore(TextOf(ns), TextOf(u), Len(ns))
           /\ TextOf(u)[Len(ns) + 1] = u[Len(ns) + 1].op
<1>1. /\ Len(ns) \in Nat /\ Len(TextOf(ns)) = Len(ns)
      /\ \A i \in 1 .. Len(ns) : TextOf(ns)[i] = ns[i].op
  BY TextIs
<1>2. /\ Len(TextOf(u)) = Len(u)
      /\ \A i \in 1 .. Len(u) : TextOf(u)[i] = u[i].op
  BY TextIs
<1>3. QED
  BY <1>1, <1>2 DEF OneMore, Agree

-----------------------------------------------------------------------------
(* What an opcode does to the tree.                                        *)

\* The nodes, the activations and the head of the body fit together.
Tree(ns, b, c, fs) ==
    /\ ns \in Seq(NodeSet) /\ fs \in Seq(FrameSet) /\ c = TextOf(ns)
    /\ FramesOK(ns, b, c, fs)
    /\ \A i \in 1 .. Len(ns) : NodeOK(ns, c, fs, i)

\* The slots of the activations in L are set to what they have been reading.
NextSet(ns, c, fs, L, u, j) ==
    \/ \E k \in L : fs[k].last = j /\ u[j].next = Begins(c, Len(ns), k)
    \/ (\A k \in L : fs[k].last # j) /\ u[j].next = ns[j].next
In1Set(ns, c, fs, L, u, j) ==
    \/ \E k \in L : /\ fs[k].last = 0 /\ fs[k].list = "in1" /\ fs[k].node = j
                    /\ u[j].in1 = Begins(c, Len(ns), k)
    \/ /\ \A k \in L : ~(fs[k].last = 0 /\ fs[k].list = "in1" /\ fs[k].node = j)
       /\ u[j].in1 = ns[j].in1
In2Set(ns, c, fs, L, u, j) ==
    \/ \E k \in L : /\ fs[k].last = 0 /\ fs[k].list = "in2" /\ fs[k].node = j
                    /\ u[j].in2 = Begins(c, Len(ns), k)
    \/ /\ \A k \in L : ~(fs[k].last = 0 /\ fs[k].list = "in2" /\ fs[k].node = j)
       /\ u[j].in2 = ns[j].in2

\* u is ns with an opcode t more and these slots set.
ReadInto(ns, c, fs, L, t, u) ==
    /\ u \in Seq(NodeSet) /\ Len(u) = Len(ns) + 1 /\ u[Len(ns) + 1] = Fresh(t)
    /\ \A j \in 1 .. Len(ns) : /\ u[j].op = ns[j].op /\ NextSet(ns, c, fs, L, u, j)
                               /\ In1Set(ns, c, fs, L, u, j) /\ In2Set(ns, c, fs, L, u, j)

\* gs has all that is pending: the activations that are not in L, the constructs
\* of those that are, and the second arm that an else begins.
Pending(fs, L, t, gs) ==
    /\ \A k \in (1 .. Len(fs)) \ L : \E j \in 1 .. Len(gs) : gs[j] = fs[k]
    /\ \A k \in L : fs[k].node # 0 =>
          \E j \in 1 .. Len(gs) : fs[k].node \in {gs[j].node, gs[j].last}
    /\ t = "else" /\ Last(fs).list = "in1" =>
          \E j \in 1 .. Len(gs) : gs[j] = Frame(Last(fs).node, "in2")
    /\ t = "else" => Len(fs) \in L

\* What the next opcode changes of a text.
LEMMA ReadText ==
    ASSUME NEW ns, NEW b, NEW c, NEW fs, Tree(ns, b, c, fs), NEW L, NEW t,
           NEW u, ReadInto(ns, c, fs, L, t, u), NEW d, d = TextOf(u)
    PROVE  OneMore(c, d, Len(ns)) /\ d[Len(ns) + 1] = t /\ Len(u) = Len(ns) + 1
<1>1. /\ ns \in Seq(NodeSet) /\ u \in Seq(NodeSet) /\ Len(u) = Len(ns) + 1
      /\ \A j \in 1 .. Len(ns) : u[j].op = ns[j].op
      /\ u[Len(ns) + 1] = Fresh(t) /\ c = TextOf(ns)
  BY DEF Tree, ReadInto
<1>2. OneMore(TextOf(ns), TextOf(u), Len(ns)) /\ TextOf(u)[Len(ns) + 1] = u[Len(ns) + 1].op
  BY <1>1, TextGoesOn
<1>3. u[Len(ns) + 1].op = t
  BY <1>1 DEF Fresh
<1>4. QED
  BY <1>1, <1>2, <1>3

\* The innermost construct is that of the last activation.
LEMMA LastOpen ==
    ASSUME NEW ns, NEW b, NEW c, NEW fs, Tree(ns, b, c, fs)
    PROVE  LET open == OpenAfter(c, Len(ns))
           IN  /\ Last(fs) = fs[Len(fs)] /\ Last(fs) \in FrameSet
               /\ open \in Seq(Nat)
               /\ open # <<>> => Len(fs) > 1 /\ Last(open) = Last(fs).node
               /\ open = <<>> <=> Len(fs) = 1
               /\ open = <<>> <=> Last(fs).list = "body"
               /\ Last(fs).list = "body" <=> Last(fs).node = 0
<1> DEFINE n == Len(ns)
           m == Len(fs)
           open == OpenAfter(c, n)
<1>1. Leveled(ns, b, c, fs, n, m, open)
  BY Levels DEF Tree
<1>2. Nested(c, n, open)
  BY OpenNested DEF Tree
<1>3. fs \in Seq(FrameSet)
  BY DEF Tree
<1>4. Last(fs) = fs[m]
  BY DEF Last
<1>5. Last(open) = open[Len(open)]
  BY DEF Last
<1>6. open \in Seq(Nat) /\ Len(open) \in Nat
  BY <1>2 DEF Nested
<1> HIDE DEF n, m, open
<1>7. /\ m \in Nat \ {0} /\ m = Len(open) + 1 /\ fs[1].node = 0 /\ fs[1].list = "body"
      /\ \A k \in 2 .. m : /\ fs[k].node = open[k - 1] /\ fs[k].node \in 1 .. n
                           /\ fs[k].list \in {"in1", "in2"}
      /\ fs[m] \in FrameSet
  <2>1. m \in 1 .. m
    BY <1>1 DEF Leveled
  <2>2. QED
    BY <1>1, <2>1 DEF Leveled
<1>8. open = <<>> <=> Len(open) = 0
  BY <1>6
<1>9. CASE m = 1
  <2>1. Last(fs) \in FrameSet /\ Last(fs).node = 0 /\ Last(fs).list = "body" /\ open = <<>> /\ ~(m > 1)
    BY <1>4, <1>6, <1>7, <1>8, <1>9
  <2>2. QED
    BY <1>4, <1>6, <1>9, <2>1, Zenon DEF m, open, n
<1>10. CASE m # 1
  <2>1. m \in 2 .. m /\ m - 1 = Len(open) /\ m > 1
    BY <1>7, <1>10
  <2>2. fs[m].node = open[Len(open)] /\ fs[m].node \in 1 .. n /\ fs[m].list \in {"in1", "in2"}
    BY <1>7, <2>1
  <2>3. open # <<>> /\ fs[m].node # 0 /\ fs[m].list # "body"
    BY <1>7, <1>8, <1>10, <2>2
  <2>4. Last(fs) \in FrameSet /\ Last(fs).node # 0 /\ Last(fs).list # "body" /\ Last(open) = Last(fs).node
    BY <1>4, <1>5, <1>7, <2>2, <2>3
  <2>5. QED
    BY <1>4, <1>6, <1>10, <2>1, <2>3, <2>4, Zenon DEF m, open, n
<1>11. QED
  BY <1>9, <1>10

\* A slot that is set leads to what begins where its activation has been reading.
LEMMA SlotLeads ==
    ASSUME NEW ns, NEW b, NEW c, NEW fs, Tree(ns, b, c, fs), NEW k \in 1 .. Len(fs)
    PROVE  LET f == fs[k]
               s == Begins(c, Len(ns), k)
           IN  /\ s \in 1 .. Len(ns) + 1 /\ s # 0 /\ f.last \in Nat /\ f.node \in Nat
               /\ f.last # 0 => Exits(c, f.last, s)
               /\ f.last = 0 /\ f.list = "in1" => s = f.node + 1 /\ c[f.node] \in Openers
               /\ f.last = 0 /\ f.list = "in2" => ElseAt(c, f.node, s)
               /\ f.last # 0 /\ f.list = "in2" => ns[f.node].in2 # 0
<1> DEFINE n == Len(ns)
           m == Len(fs)
           open == OpenAfter(c, n)
           s == Begins(c, n, k)
<1>1. Leveled(ns, b, c, fs, n, m, open)
  BY Levels DEF Tree
<1> HIDE DEF n, m, open, s
<1>2. /\ fs[k] \in FrameSet /\ SlotOK(ns, b, c, fs[k], s) /\ s \in 1 .. n + 1
      /\ n \in Nat /\ fs[1].list = "body" /\ m \in Nat
      /\ \A j \in 2 .. m : c[fs[j].node] \in Openers
  BY <1>1 DEF Leveled, m, s
<1>3. k = 1 \/ k \in 2 .. m
  BY <1>2 DEF m
<1>4. fs[k].list = "in1" => c[fs[k].node] \in Openers
  BY <1>2, <1>3
<1>5. fs[k].last \in Nat /\ fs[k].node \in Nat /\ s # 0
  BY <1>2 DEF FrameSet
<1>6. QED
  BY <1>2, <1>4, <1>5 DEF SlotOK, n, s

\* The pointers to what follows.
LEMMA NextKept ==
    ASSUME NEW ns, NEW b, NEW c, NEW fs, Tree(ns, b, c, fs),
           NEW L \in SUBSET (1 .. Len(fs)), NEW t, NEW u, ReadInto(ns, c, fs, L, t, u),
           NEW d, d = TextOf(u), NEW gs, Pending(fs, L, t, gs), NEW i \in 1 .. Len(ns)
    PROVE  NextOK(u, d, gs, i)
<1> DEFINE n == Len(ns)
<1>1. OneMore(c, d, n) /\ d[n + 1] = t /\ Len(u) = n + 1 /\ n \in Nat
  BY ReadText DEF OneMore
<1>2. c[i] = d[i]
  BY <1>1 DEF OneMore, Agree
<1>3. \A x \in 1 .. n + 1 : Exits(c, i, x) => Exits(d, i, x)
  BY <1>1, Prefix
<1>4. NextOK(ns, c, fs, i) /\ NextSet(ns, c, fs, L, u, i) /\ ns[i] \in NodeSet
  BY DEF Tree, NodeOK, ReadInto
<1>5. CASE \E k \in L : fs[k].last = i /\ u[i].next = Begins(c, n, k)
  <2>1. PICK k \in L : fs[k].last = i /\ u[i].next = Begins(c, n, k)
    BY <1>5
  <2>2. k \in 1 .. Len(fs) /\ fs[k].last # 0
    BY <1>1, <2>1
  <2>3. Exits(c, i, Begins(c, n, k)) /\ Begins(c, n, k) \in 1 .. n + 1
    BY <2>1, <2>2, SlotLeads
  <2>4. u[i].next \in 1 .. n + 1 /\ Exits(d, i, u[i].next)
    BY <1>3, <2>1, <2>3
  <2> HIDE DEF n
  <2>5. u[i].next # 0 /\ u[i].next <= Len(u)
    BY <1>1, <2>4
  <2>6. QED
    BY <2>4, <2>5 DEF NextOK
<1>6. CASE (\A k \in L : fs[k].last # i) /\ u[i].next = ns[i].next
  <2>1. CASE ns[i].next # 0
    <3>1. ns[i].next \in 1 .. n /\ Exits(c, i, ns[i].next)
      BY <1>1, <1>4, <2>1 DEF NextOK, NodeSet
    <3> HIDE DEF n
    <3>2. ns[i].next \in 1 .. n + 1 /\ ns[i].next <= n + 1
      BY <1>1, <3>1
    <3>3. QED
      BY <1>1, <1>3, <1>6, <2>1, <3>1, <3>2 DEF NextOK
  <2>2. CASE ns[i].next = 0
    <3>1. SUFFICES ASSUME d[i] \in Openers \cup {"op"}
                   PROVE  \E j \in 1 .. Len(gs) : i \in {gs[j].node, gs[j].last}
      BY <1>6, <2>2 DEF NextOK
    <3>2. PICK k \in 1 .. Len(fs) : i \in {fs[k].node, fs[k].last}
      BY <1>2, <1>4, <2>2, <3>1 DEF NextOK
    <3>3. CASE k \in L
      <4>1. fs[k].node = i /\ fs[k].node # 0
        BY <1>6, <3>2, <3>3
      <4>2. QED
        BY <3>3, <4>1 DEF Pending
    <3>4. CASE k \notin L
      <4>1. PICK j \in 1 .. Len(gs) : gs[j] = fs[k]
        BY <3>4 DEF Pending
      <4>2. QED
        BY <3>2, <4>1
    <3>5. QED
      BY <3>3, <3>4
  <2>3. QED
    BY <2>1, <2>2
<1>7. QED
  BY <1>4, <1>5, <1>6 DEF NextSet

\* The pointers to what a construct begins with.
LEMMA In1Kept ==
    ASSUME NEW ns, NEW b, NEW c, NEW fs, Tree(ns, b, c, fs),
           NEW L \in SUBSET (1 .. Len(fs)), NEW t, NEW u, ReadInto(ns, c, fs, L, t, u),
           NEW d, d = TextOf(u), NEW gs, Pending(fs, L, t, gs), NEW i \in 1 .. Len(ns)
    PROVE  In1OK(u, d, gs, i)
<1> DEFINE n == Len(ns)
<1>1. OneMore(c, d, n) /\ d[n + 1] = t /\ Len(u) = n + 1 /\ n \in Nat
  BY ReadText DEF OneMore
<1>2. c[i] = d[i]
  BY <1>1 DEF OneMore, Agree
<1>3. In1OK(ns, c, fs, i) /\ In1Set(ns, c, fs, L, u, i) /\ ns[i] \in NodeSet
  BY DEF Tree, NodeOK, ReadInto
<1>4. CASE \E k \in L : /\ fs[k].last = 0 /\ fs[k].list = "in1" /\ fs[k].node = i
                        /\ u[i].in1 = Begins(c, n, k)
  <2>1. PICK k \in L : /\ fs[k].last = 0 /\ fs[k].list = "in1" /\ fs[k].node = i
                       /\ u[i].in1 = Begins(c, n, k)
    BY <1>4
  <2>2. /\ Begins(c, n, k) = i + 1 /\ c[i] \in Openers
        /\ Begins(c, n, k) \in 1 .. n + 1
    BY <2>1, SlotLeads
  <2> HIDE DEF n
  <2>3. u[i].in1 # 0 /\ u[i].in1 <= Len(u)
    BY <1>1, <2>1, <2>2
  <2>4. QED
    BY <1>2, <2>1, <2>2, <2>3 DEF In1OK
<1>5. CASE /\ \A k \in L : ~(fs[k].last = 0 /\ fs[k].list = "in1" /\ fs[k].node = i)
           /\ u[i].in1 = ns[i].in1
  <2>1. CASE ns[i].in1 # 0
    <3>1. ns[i].in1 \in 1 .. n /\ ns[i].in1 = i + 1 /\ c[i] \in Openers
      BY <1>1, <1>3, <2>1 DEF In1OK, NodeSet
    <3> HIDE DEF n
    <3>2. ns[i].in1 <= Len(u)
      BY <1>1, <3>1
    <3>3. QED
      BY <1>2, <1>5, <2>1, <3>1, <3>2 DEF In1OK
  <2>2. CASE ns[i].in1 = 0
    <3>1. SUFFICES ASSUME d[i] \in Openers
                   PROVE  \E j \in 1 .. Len(gs) : gs[j] = Frame(i, "in1")
      BY <1>5, <2>2 DEF In1OK
    <3>2. PICK k \in 1 .. Len(fs) : fs[k] = Frame(i, "in1")
      BY <1>2, <1>3, <2>2, <3>1 DEF In1OK
    <3>3. k \notin L
      BY <1>5, <3>2 DEF Frame, NULL
    <3>4. QED
      BY <3>2, <3>3 DEF Pending
  <2>3. QED
    BY <2>1, <2>2
<1>6. QED
  BY <1>3, <1>4, <1>5 DEF In1Set

\* The pointers to second arms.
LEMMA In2Kept ==
    ASSUME NEW ns, NEW b, NEW c, NEW fs, Tree(ns, b, c, fs),
           NEW L \in SUBSET (1 .. Len(fs)), NEW t, NEW u, ReadInto(ns, c, fs, L, t, u),
           NEW d, d = TextOf(u), NEW gs, Pending(fs, L, t, gs), NEW i \in 1 .. Len(ns)
    PROVE  In2OK(u, d, gs, i)
<1> DEFINE n == Len(ns)
           m == Len(fs)
<1>1. OneMore(c, d, n) /\ d[n + 1] = t /\ Len(u) = n + 1 /\ n \in Nat
  BY ReadText DEF OneMore
<1>2. \A x \in 1 .. n + 1 : ElseAt(c, i, x) => ElseAt(d, i, x)
  BY <1>1, Prefix
<1>3. In2OK(ns, c, fs, i) /\ In2Set(ns, c, fs, L, u, i) /\ ns[i] \in NodeSet
  BY DEF Tree, NodeOK, ReadInto
<1>4. CASE \E k \in L : /\ fs[k].last = 0 /\ fs[k].list = "in2" /\ fs[k].node = i
                        /\ u[i].in2 = Begins(c, n, k)
  <2>1. PICK k \in L : /\ fs[k].last = 0 /\ fs[k].list = "in2" /\ fs[k].node = i
                       /\ u[i].in2 = Begins(c, n, k)
    BY <1>4
  <2>2. ElseAt(c, i, Begins(c, n, k)) /\ Begins(c, n, k) \in 1 .. n + 1
    BY <2>1, SlotLeads
  <2>3. u[i].in2 \in 1 .. n + 1 /\ ElseAt(d, i, u[i].in2)
    BY <1>2, <2>1, <2>2
  <2> HIDE DEF n
  <2>4. u[i].in2 # 0 /\ u[i].in2 <= Len(u)
    BY <1>1, <2>3
  <2>5. QED
    BY <2>3, <2>4 DEF In2OK
<1>5. CASE /\ \A k \in L : ~(fs[k].last = 0 /\ fs[k].list = "in2" /\ fs[k].node = i)
           /\ u[i].in2 = ns[i].in2
  <2>1. CASE ns[i].in2 # 0
    <3>1. ns[i].in2 \in 1 .. n /\ ElseAt(c, i, ns[i].in2)
      BY <1>1, <1>3, <2>1 DEF In2OK, NodeSet
    <3> HIDE DEF n
    <3>2. ns[i].in2 \in 1 .. n + 1 /\ ns[i].in2 <= n + 1
      BY <1>1, <3>1
    <3>3. QED
      BY <1>1, <1>2, <1>5, <2>1, <3>1, <3>2 DEF In2OK
  <2>2. CASE ns[i].in2 = 0
    <3>1. SUFFICES ASSUME ElseOf(d, i) # {}
                   PROVE  \E j \in 1 .. Len(gs) : gs[j] = Frame(i, "in2")
      BY <1>5, <2>2 DEF In2OK
    <3>2. CASE ElseOf(c, i) # {}
      <4>1. PICK k \in 1 .. Len(fs) : fs[k] = Frame(i, "in2")
        BY <1>3, <2>2, <3>2 DEF In2OK
      <4>2. k \notin L
        BY <1>5, <4>1 DEF Frame, NULL
      <4>3. QED
        BY <4>1, <4>2 DEF Pending
    <3>3. CASE ElseOf(c, i) = {}
      <4>1. d[n + 1] = "else" /\ Innermost(d, n + 1) = i
        BY <1>1, <3>1, <3>3, OneMoreElse
      <4>2. Innermost(d, n + 1) = (IF OpenAfter(c, n) = <<>> THEN 0 ELSE Last(OpenAfter(c, n)))
        BY <1>1, OneMoreOpcode
      <4>3. /\ Last(fs).node = i /\ Last(fs).list # "body" /\ Last(fs) = fs[m]
            /\ Last(fs).list \in {"body", "in1", "in2"} /\ Last(fs).last \in Nat /\ m > 1
        <5>1. OpenAfter(c, n) # <<>> /\ Last(OpenAfter(c, n)) = i
          BY <4>1, <4>2
        <5>2. QED
          BY <5>1, LastOpen DEF FrameSet
      <4>4. m \in L /\ m \in 1 .. Len(fs)
        BY <1>1, <4>1 DEF Pending
      <4>5. CASE Last(fs).list = "in1"
        BY <1>1, <4>1, <4>3, <4>5 DEF Pending
      <4>6. CASE Last(fs).list = "in2"
        <5>1. fs[m].last # 0
          BY <1>5, <4>3, <4>4, <4>6
        <5>2. ns[i].in2 # 0
          BY <4>3, <4>4, <4>6, <5>1, SlotLeads
        <5>3. QED
          BY <2>2, <5>2
      <4>7. QED
        BY <4>3, <4>5, <4>6
    <3>4. QED
      BY <3>2, <3>3
  <2>3. QED
    BY <2>1, <2>2
<1>6. QED
  BY <1>3, <1>4, <1>5 DEF In2Set

\* The slot of an activation that an opcode does not touch.
LEMMA SlotKept ==
    ASSUME NEW ns, NEW b, NEW c, NEW fs, Tree(ns, b, c, fs),
           NEW L \in SUBSET (1 .. Len(fs)), NEW t, NEW u, ReadInto(ns, c, fs, L, t, u),
           NEW d, d = TextOf(u), t = "else" => Len(fs) \in L,
           NEW bb, 1 \notin L => bb = b,
           NEW k \in 1 .. Len(fs), \A j \in L : k < j
    PROVE  SlotOK(u, bb, d, fs[k], Begins(c, Len(ns), k))
<1> DEFINE n == Len(ns)
           m == Len(fs)
           open == OpenAfter(c, n)
           f == fs[k]
           s == Begins(c, n, k)
<1>1. OneMore(c, d, n) /\ d[n + 1] = t /\ Len(u) = n + 1 /\ n \in Nat
  BY ReadText DEF OneMore
<1>2. Leveled(ns, b, c, fs, n, m, open)
  BY Levels DEF Tree
<1>3. /\ f \in FrameSet /\ SlotOK(ns, b, c, f, s) /\ s \in 1 .. n + 1
      /\ f.last \in 0 .. n /\ fs[1].list = "body" /\ m \in Nat \ {0}
      /\ \A j \in 2 .. m : fs[j].node \in 1 .. n /\ fs[j].list \in {"in1", "in2"}
  BY <1>2 DEF Leveled
<1>4. /\ f.list # "body" => k \in 2 .. m /\ f.node \in 1 .. n
      /\ f.list = "body" => k = 1
  BY <1>3
<1>5. ASSUME NEW j \in L
      PROVE  /\ fs[j].node # f.node /\ fs[j].node # f.last
             /\ fs[j].last # 0 => fs[j].last # f.node /\ fs[j].last # f.last
             /\ j \in 2 .. m
  <2>1. j \in 1 .. m /\ k < j /\ fs[j] \in FrameSet
    BY <1>2 DEF Leveled
  <2>2. /\ f.node < fs[j].node /\ f.last < fs[j].node
        /\ fs[j].last # 0 => f.last < fs[j].last
    BY <2>1, LevelsOrdered DEF Tree
  <2>3. fs[j].last # 0 => fs[j].node < fs[j].last
    BY <1>2, <2>1 DEF Leveled, SlotOK
  <2>4. fs[j].node \in Nat /\ fs[j].last \in Nat /\ f.node \in Nat /\ f.last \in Nat
    BY <1>3, <2>1 DEF FrameSet
  <2>5. j \in 2 .. m
    BY <1>3, <2>1
  <2> DEFINE x == f.node
             y == f.last
             v == fs[j].node
             w == fs[j].last
  <2>6. /\ x < v /\ y < v /\ (w # 0 => y < w) /\ (w # 0 => v < w)
        /\ x \in Nat /\ y \in Nat /\ v \in Nat /\ w \in Nat
    BY <2>2, <2>3, <2>4
  <2> HIDE DEF x, y, v, w
  <2>7. v # x /\ v # y /\ (w # 0 => w # x /\ w # y)
    BY <2>6
  <2>8. QED
    BY <2>5, <2>7 DEF x, y, v, w
<1>6. bb = b
  BY <1>5
<1>7. f.last # 0 => u[f.last].next = ns[f.last].next /\ f.last \in 1 .. n
  <2>1. SUFFICES ASSUME f.last # 0
                 PROVE  u[f.last].next = ns[f.last].next /\ f.last \in 1 .. n
    OBVIOUS
  <2>2. f.last \in 1 .. n
    BY <1>1, <1>3, <2>1
  <2>3. NextSet(ns, c, fs, L, u, f.last)
    BY <2>2 DEF ReadInto
  <2>4. \A j \in L : fs[j].last # f.last
    BY <1>5, <2>1
  <2>5. QED
    BY <2>2, <2>3, <2>4 DEF NextSet
<1>8. f.list # "body" => /\ u[f.node].next = ns[f.node].next
                         /\ u[f.node].in1 = ns[f.node].in1
                         /\ u[f.node].in2 = ns[f.node].in2
  <2>1. SUFFICES ASSUME f.list # "body"
                 PROVE  /\ u[f.node].next = ns[f.node].next
                        /\ u[f.node].in1 = ns[f.node].in1
                        /\ u[f.node].in2 = ns[f.node].in2
    OBVIOUS
  <2>2. f.node \in 1 .. n /\ f.node # 0
    BY <1>1, <1>4, <2>1
  <2>3. /\ NextSet(ns, c, fs, L, u, f.node) /\ In1Set(ns, c, fs, L, u, f.node)
        /\ In2Set(ns, c, fs, L, u, f.node)
    BY <2>2 DEF ReadInto
  <2>4. \A j \in L : fs[j].last # f.node /\ fs[j].node # f.node
    BY <1>5, <2>2
  <2>5. QED
    BY <2>3, <2>4, Zenon DEF NextSet, In1Set, In2Set
<1>9. f.list # "body" /\ ElseOf(c, f.node) = {} => ElseOf(d, f.node) = {}
  <2>1. SUFFICES ASSUME f.list # "body", ElseOf(c, f.node) = {}
                 PROVE  ElseOf(d, f.node) = {}
    OBVIOUS
  <2>2. f.node \in 1 .. n /\ f.node # 0
    BY <1>1, <1>4, <2>1
  <2>3. SUFFICES ASSUME d[n + 1] = "else", Innermost(d, n + 1) = f.node
                 PROVE  FALSE
    BY <1>1, <2>1, <2>2, OneMoreElse
  <2>4. Innermost(d, n + 1) = (IF open = <<>> THEN 0 ELSE Last(open))
    BY <1>1, OneMoreOpcode
  <2>5. open # <<>> /\ Last(open) = f.node
    BY <2>2, <2>3, <2>4
  <2>6. fs[m].node = f.node
    BY <2>5, LastOpen
  <2>7. m \in L
    BY <1>1, <2>3
  <2>8. QED
    BY <1>5, <2>6, <2>7
<1>10. f.last # 0 => Exits(d, f.last, s) /\ f.last <= Len(u)
  <2>1. SUFFICES ASSUME f.last # 0
                 PROVE  Exits(d, f.last, s) /\ f.last <= Len(u)
    OBVIOUS
  <2>2. Exits(c, f.last, s)
    BY <1>3, <2>1 DEF SlotOK
  <2>3. Exits(d, f.last, s)
    BY <1>1, <1>3, <1>7, <2>1, <2>2, Prefix
  <2>4. f.last <= n + 1
    BY <1>1, <1>7, <2>1
  <2>5. QED
    BY <1>1, <2>3, <2>4
<1>11. f.last = 0 /\ f.list = "in2" => ElseAt(d, f.node, s)
  BY <1>1, <1>3, <1>4, Prefix DEF SlotOK
<1>12. SlotOK(ns, b, c, f, s)
  BY <1>3
<1> HIDE DEF n, m, open, f, s
<1>13. SlotOK(u, bb, d, f, s)
  <2>1. CASE f.last # 0
    BY <1>6, <1>7, <1>8, <1>9, <1>10, <1>12, <2>1, Zenon DEF SlotOK
  <2>2. CASE f.last = 0
    BY <1>6, <1>8, <1>9, <1>11, <1>12, <2>2, Zenon DEF SlotOK
  <2>3. QED
    BY <2>1, <2>2
<1>14. QED
  BY <1>13 DEF f, s, n

\* The outer activations stay as they are, the last one is what the opcode made of it.
Kept(ns, c, fs, L, d, gs) ==
    LET open == OpenAfter(d, Len(ns) + 1)
    IN  \A k \in 1 .. Len(gs) - 1 :
           /\ k \in 1 .. Len(fs) /\ gs[k] = fs[k]
           /\ open[k] = Begins(c, Len(ns), k) /\ \A j \in L : k < j

\* The new node and the last activation, the g-th, are right.
GoesOn(ns, b, u, bb, d, gs, L, g, open) ==
    /\ gs \in Seq(FrameSet) /\ g \in Nat \ {0} /\ g = Len(gs)
    /\ open = OpenAfter(d, Len(ns) + 1) /\ g = Len(open) + 1
    /\ 1 \notin L => bb = b
    /\ g = 1 => gs[g].node = 0 /\ gs[g].list = "body"
    /\ g > 1 => gs[g].node = open[g - 1] /\ gs[g].list \in {"in1", "in2"}
    /\ SlotOK(u, bb, d, gs[g], Len(ns) + 2)
    /\ NodeOK(u, d, gs, Len(ns) + 1)

\* Then the tree goes on.
LEMMA TreeGoesOn ==
    ASSUME NEW ns, NEW b, NEW c, NEW fs, Tree(ns, b, c, fs),
           NEW L, L \subseteq 1 .. Len(fs), NEW t, NEW u, ReadInto(ns, c, fs, L, t, u),
           NEW d, d = TextOf(u), NEW gs, Pending(fs, L, t, gs), Kept(ns, c, fs, L, d, gs),
           NEW bb, NEW g, NEW open, GoesOn(ns, b, u, bb, d, gs, L, g, open)
    PROVE  Tree(u, bb, d, gs)
<1> DEFINE n == Len(ns)
           m == Len(fs)
<1> USE DEF GoesOn
<1> L \in SUBSET (1 .. Len(fs))
  OBVIOUS
<1>1. OneMore(c, d, n) /\ d[n + 1] = t /\ Len(u) = n + 1 /\ n \in Nat
  BY ReadText DEF OneMore
<1>2. Leveled(ns, b, c, fs, n, m, OpenAfter(c, n))
  BY Levels DEF Tree
<1>3. \A i \in 1 .. Len(u) : NodeOK(u, d, gs, i)
  <2>1. \A i \in 1 .. n : NodeOK(u, d, gs, i)
    BY NextKept, In1Kept, In2Kept DEF NodeOK
  <2>2. NodeOK(u, d, gs, n + 1)
    OBVIOUS
  <2> HIDE DEF n
  <2>3. \A i \in 1 .. Len(u) : i \in 1 .. n \/ i = n + 1
    BY <1>1
  <2>4. QED
    BY <2>1, <2>2, <2>3
<1>4. u \in Seq(NodeSet)
  BY DEF ReadInto
<1>5. open \in Seq(Nat) /\ Len(open) \in Nat
  <2>1. n + 1 \in Nat
    BY <1>1
  <2>2. QED
    BY <2>1, OpenNested DEF Nested
<1>6. ASSUME NEW k \in 1 .. g - 1
      PROVE  /\ k \in 1 .. m /\ gs[k] = fs[k] /\ k \in 1 .. Len(open)
             /\ open[k] = Begins(c, n, k) /\ \A j \in L : k < j
             /\ Begins(d, n + 1, k) = open[k]
  <2>1. /\ k \in 1 .. m /\ gs[k] = fs[k]
        /\ open[k] = Begins(c, n, k) /\ \A j \in L : k < j
    BY DEF Kept
  <2>2. k \in 1 .. Len(open) /\ k <= Len(open)
    BY <1>5
  <2>3. Begins(d, n + 1, k) = open[k]
    BY <2>2 DEF Begins
  <2>4. QED
    BY <2>1, <2>2, <2>3
<1>7. Begins(d, n + 1, g) = n + 2
  <2>1. ~(g <= Len(OpenAfter(d, n + 1))) /\ (n + 1) + 1 = n + 2
    BY <1>1, <1>5
  <2>2. QED
    BY <2>1 DEF Begins
<1>8. ASSUME NEW k \in 1 .. Len(gs)
      PROVE  SlotOK(u, bb, d, gs[k], Begins(d, n + 1, k))
  <2>1. CASE k = g
    BY <1>7, <2>1
  <2>2. CASE k \in 1 .. g - 1
    <3>1. t = "else" => Len(fs) \in L
      BY DEF Pending
    <3>2. SlotOK(u, bb, d, fs[k], Begins(c, n, k))
      BY <1>6, <2>2, <3>1, SlotKept
    <3>3. QED
      BY <1>6, <2>2, <3>2
  <2>3. QED
    BY <2>1, <2>2
<1>9. gs[1].node = 0 /\ gs[1].list = "body"
  <2>1. CASE g = 1
    BY <2>1
  <2>2. CASE g # 1
    <3>1. 1 \in 1 .. g - 1
      BY <2>2
    <3>2. gs[1] = fs[1]
      BY <1>6, <3>1
    <3>3. QED
      BY <1>2, <3>2 DEF Leveled
  <2>3. QED
    BY <2>1, <2>2
<1>10. ASSUME NEW k \in 1 .. Len(open)
       PROVE  gs[k + 1].node = open[k] /\ gs[k + 1].list \in {"in1", "in2"}
  <2>1. CASE k + 1 = g
    <3>1. g > 1 /\ g - 1 = k
      BY <1>5, <2>1
    <3>2. QED
      BY <2>1, <3>1
  <2>2. CASE k + 1 # g
    <3>1. k \in 1 .. g - 1 /\ k + 1 \in 1 .. g - 1
      BY <1>5, <2>2
    <3> DEFINE q == k + 1
    <3>2. q \in 1 .. m /\ gs[q] = fs[q] /\ k \in 1 .. m /\ open[k] = Begins(c, n, k)
      BY <1>6, <3>1
    <3>3. q \in 2 .. m /\ k \in 1 .. m - 1
      BY <1>2, <3>2 DEF Leveled
    <3>4. Begins(c, n, k) = fs[q].node /\ fs[q].list \in {"in1", "in2"}
      BY <1>2, <3>3 DEF Leveled
    <3> HIDE DEF q
    <3>5. gs[q].node = open[k] /\ gs[q].list \in {"in1", "in2"}
      BY <3>2, <3>4
    <3>6. QED
      BY <3>5 DEF q
  <2>3. QED
    BY <2>1, <2>2
<1>11. FramesOK(u, bb, d, gs)
  BY <1>1, <1>8, <1>9, <1>10 DEF FramesOK
<1>12. QED
  BY <1>3, <1>4, <1>11 DEF Tree

\* An opcode that is linked at once.
LEMMA ReadLinked ==
    ASSUME NEW ns, NEW b, NEW c, NEW fs, Tree(ns, b, c, fs), NEW t \in Opcodes,
           NEW u, u = Linked(Append(ns, Fresh(t)), Last(fs), Len(ns) + 1)
    PROVE  ReadInto(ns, c, fs, {Len(fs)}, t, u)
<1> DEFINE n == Len(ns)
           m == Len(fs)
           f == fs[m]
<1>1. Leveled(ns, b, c, fs, n, m, OpenAfter(c, n))
  BY Levels DEF Tree
<1>2. Last(fs) = f /\ ns \in Seq(NodeSet)
  BY LastOpen DEF Tree
<1>3. /\ f \in FrameSet /\ f.last <= n /\ f.node <= n /\ Begins(c, n, m) = n + 1
      /\ f.list # "body" => f.node # 0
  <2>1. /\ m \in Nat \ {0} /\ n \in Nat /\ m \in 1 .. m /\ Begins(c, n, m) = n + 1
        /\ fs[1].list = "body"
    BY <1>1 DEF Leveled
  <2>2. /\ f \in FrameSet /\ f.last \in 0 .. n /\ f.node < n + 1
        /\ \A k \in 2 .. m : fs[k].node \in 1 .. n
    BY <1>1, <2>1 DEF Leveled
  <2>3. f.node \in Nat
    BY <2>2 DEF FrameSet
  <2>4. f.list # "body" => m \in 2 .. m
    BY <2>1
  <2>5. f.list # "body" => f.node \in 1 .. n
    BY <2>2, <2>4
  <2>6. QED
    BY <2>1, <2>2, <2>3, <2>5
<1>4. LinkedNew(ns, f, t, u)
  BY <1>2, <1>3, LinkNew
<1> HIDE DEF n, m, f
<1>5. /\ u \in Seq(NodeSet) /\ Len(u) = n + 1 /\ u[n + 1] = Fresh(t)
      /\ \A j \in 1 .. n :
            /\ u[j].op = ns[j].op
            /\ u[j].next = IF f.last = j THEN n + 1 ELSE ns[j].next
            /\ u[j].in1 = IF f.last = 0 /\ f.list = "in1" /\ f.node = j THEN n + 1 ELSE ns[j].in1
            /\ u[j].in2 = IF f.last = 0 /\ f.list = "in2" /\ f.node = j THEN n + 1 ELSE ns[j].in2
  BY <1>4 DEF LinkedNew, n
<1>6. ASSUME NEW j \in 1 .. n
      PROVE  /\ u[j].op = ns[j].op /\ NextSet(ns, c, fs, {m}, u, j)
             /\ In1Set(ns, c, fs, {m}, u, j) /\ In2Set(ns, c, fs, {m}, u, j)
  <2>1. /\ u[j].op = ns[j].op
        /\ u[j].next = IF f.last = j THEN n + 1 ELSE ns[j].next
        /\ u[j].in1 = IF f.last = 0 /\ f.list = "in1" /\ f.node = j THEN n + 1 ELSE ns[j].in1
        /\ u[j].in2 = IF f.last = 0 /\ f.list = "in2" /\ f.node = j THEN n + 1 ELSE ns[j].in2
    BY <1>5
  <2>2. fs[m] = f /\ Begins(c, Len(ns), m) = n + 1
    BY <1>3 DEF f, n
  <2>3. NextSet(ns, c, fs, {m}, u, j)
    BY <2>1, <2>2 DEF NextSet
  <2>4. In1Set(ns, c, fs, {m}, u, j)
    BY <2>1, <2>2 DEF In1Set
  <2>5. In2Set(ns, c, fs, {m}, u, j)
    BY <2>1, <2>2 DEF In2Set
  <2>6. QED
    BY <2>1, <2>3, <2>4, <2>5
<1>7. QED
  BY <1>5, <1>6 DEF ReadInto, n, m

\* An opcode that is not linked yet.
LEMMA ReadLoose ==
    ASSUME NEW ns, NEW b, NEW c, NEW fs, Tree(ns, b, c, fs), NEW t \in Opcodes,
           NEW u, u = Append(ns, Fresh(t))
    PROVE  ReadInto(ns, c, fs, {}, t, u)
<1>1. /\ u \in Seq(NodeSet) /\ Len(u) = Len(ns) + 1 /\ Len(ns) \in Nat
      /\ u[Len(ns) + 1] = Fresh(t) /\ \A j \in 1 .. Len(ns) : u[j] = ns[j]
  BY AppendFresh DEF Tree
<1>2. QED
  BY <1>1 DEF ReadInto, NextSet, In1Set, In2Set

\* The last two activations as an end finds them.
LEMMA LastTwo ==
    ASSUME NEW ns, NEW b, NEW c, NEW fs, Tree(ns, b, c, fs), Last(fs).list # "body",
           NEW m, m = Len(fs)
    PROVE  LET f == fs[m]
               g == fs[m - 1]
               n == Len(ns)
           IN  /\ m \in Nat /\ m > 1 /\ m - 1 \in 1 .. m /\ n \in Nat
               /\ Last(fs) = f /\ Last(Front(fs)) = g /\ f \in FrameSet /\ g \in FrameSet
               /\ f.node \in 1 .. n /\ c[f.node] \in Openers /\ f.list \in {"in1", "in2"}
               /\ Begins(c, n, m - 1) = f.node /\ Begins(c, n, m) = n + 1
               /\ g.node < f.node /\ g.last < f.node /\ (f.last # 0 => g.last < f.last)
               /\ g.node \in Nat /\ g.last \in Nat /\ f.last \in Nat /\ f.last <= n
               /\ (f.last # 0 => f.node < f.last) /\ (g.list # "body" => g.node # 0)
               /\ SlotOK(ns, b, c, f, n + 1) /\ SlotOK(ns, b, c, g, f.node)
<1> DEFINE f == fs[m]
           g == fs[m - 1]
           n == Len(ns)
<1>1. Leveled(ns, b, c, fs, n, m, OpenAfter(c, n))
  BY Levels DEF Tree
<1>2. fs \in Seq(FrameSet)
  BY DEF Tree
<1>3. m > 1 /\ Last(fs) = f
  BY LastOpen
<1>4. m \in Nat /\ m - 1 \in 1 .. m - 1 /\ m - 1 \in 1 .. m /\ m \in 2 .. m /\ m \in 1 .. m /\ n \in Nat
  BY <1>1, <1>3 DEF Leveled
<1>5. Last(Front(fs)) = g
  <2>1. /\ Front(fs) \in Seq(FrameSet) /\ Len(Front(fs)) = m - 1
        /\ \A k \in 1 .. m - 1 : Front(fs)[k] = fs[k]
    BY <1>2, <1>4, FrontOf, SMTT(40)
  <2>2. Last(Front(fs)) = Front(fs)[m - 1]
    BY <2>1 DEF Last
  <2>3. QED
    BY <1>4, <2>1, <2>2
<1>6. /\ f \in FrameSet /\ SlotOK(ns, b, c, f, n + 1)
      /\ f.node \in 1 .. n /\ c[f.node] \in Openers /\ f.list \in {"in1", "in2"}
      /\ Begins(c, n, m) = n + 1 /\ f.last \in 0 .. n
  BY <1>1, <1>4 DEF Leveled
<1>7. /\ g \in FrameSet /\ Begins(c, n, m - 1) = f.node /\ SlotOK(ns, b, c, g, f.node)
      /\ fs[1].list = "body" /\ \A k \in 2 .. m : fs[k].node \in 1 .. n
  <2>1. Begins(c, n, m - 1) = fs[(m - 1) + 1].node /\ (m - 1) + 1 = m
    BY <1>1, <1>4 DEF Leveled
  <2>2. /\ g \in FrameSet /\ SlotOK(ns, b, c, g, Begins(c, n, m - 1))
        /\ fs[1].list = "body" /\ \A k \in 2 .. m : fs[k].node \in 1 .. n
    BY <1>1, <1>4 DEF Leveled
  <2>3. QED
    BY <2>1, <2>2
<1>8. g.node < f.node /\ g.last < f.node /\ (f.last # 0 => g.last < f.last)
  <2>1. m - 1 < m /\ m - 1 \in 1 .. Len(fs) /\ m \in 1 .. Len(fs)
    BY <1>4
  <2>2. QED
    BY <2>1, LevelsOrdered DEF Tree
<1>9. g.node \in Nat /\ g.last \in Nat /\ f.last \in Nat /\ f.last <= n
  <2>1. f.last \in Nat /\ g.last \in Nat /\ g.node \in Nat
    BY <1>6, <1>7 DEF FrameSet
  <2>2. f.last <= n
    BY <1>4, <1>6
  <2>3. QED
    BY <2>1, <2>2
<1>10. g.list # "body" => g.node # 0
  <2>1. m - 1 = 1 \/ m - 1 \in 2 .. m
    BY <1>4
  <2>2. QED
    BY <1>7, <2>1
<1>11. f.last # 0 => f.node < f.last
  BY <1>6 DEF SlotOK
<1>12. QED
  BY <1>3, <1>4, <1>5, <1>6, <1>7, <1>8, <1>9, <1>10, <1>11

\* An end, linked at once, and the construct that it ends.
LEMMA ReadClosing ==
    ASSUME NEW ns, NEW b, NEW c, NEW fs, Tree(ns, b, c, fs), Last(fs).list # "body",
           NEW t \in Opcodes, NEW m, m = Len(fs),
           NEW u, u = Linked(Linked(Append(ns, Fresh(t)), Last(fs), Len(ns) + 1),
                             Last(Front(fs)), Last(fs).node)
    PROVE  ReadInto(ns, c, fs, {m - 1, m}, t, u)
<1> DEFINE n == Len(ns)
           f == fs[m]
           g == fs[m - 1]
           v == Linked(Append(ns, Fresh(t)), f, n + 1)
           x == f.node
<1>1. /\ m \in Nat /\ m > 1 /\ n \in Nat
      /\ Last(fs) = f /\ Last(Front(fs)) = g /\ f \in FrameSet /\ g \in FrameSet
      /\ f.node \in 1 .. n /\ f.list \in {"in1", "in2"}
      /\ Begins(c, n, m - 1) = x /\ Begins(c, n, m) = n + 1
      /\ g.node < f.node /\ g.last < f.node /\ (f.last # 0 => g.last < f.last)
      /\ g.node \in Nat /\ g.last \in Nat /\ f.last \in Nat /\ f.last <= n
      /\ (f.last # 0 => f.node < f.last) /\ (g.list # "body" => g.node # 0)
  BY LastTwo, SMTT(40)
<1>2. ns \in Seq(NodeSet)
  BY DEF Tree
<1>3. f.node <= n /\ f.node # 0 /\ x \in Nat
  BY <1>1
<1>4. LinkedNew(ns, f, t, v)
  BY <1>1, <1>2, <1>3, LinkNew
<1>5. u = Linked(v, g, x)
  BY <1>1
<1> HIDE DEF v, x, n, f, g
<1>6. /\ v \in Seq(NodeSet) /\ Len(v) = n + 1 /\ v[n + 1] = Fresh(t)
      /\ \A j \in 1 .. n :
            /\ v[j].op = ns[j].op
            /\ v[j].next = IF f.last = j THEN n + 1 ELSE ns[j].next
            /\ v[j].in1 = IF f.last = 0 /\ f.list = "in1" /\ f.node = j THEN n + 1 ELSE ns[j].in1
            /\ v[j].in2 = IF f.last = 0 /\ f.list = "in2" /\ f.node = j THEN n + 1 ELSE ns[j].in2
  BY <1>4 DEF LinkedNew, n
<1>7. g.last <= n /\ g.node <= n /\ g.last <= Len(v) /\ (g.list # "body" => g.node \in 1 .. Len(v))
  BY <1>1, <1>6
<1>8. /\ u \in Seq(NodeSet) /\ Len(u) = Len(v)
      /\ \A j \in 1 .. Len(v) :
            /\ u[j].op = v[j].op
            /\ u[j].next = IF g.last = j THEN x ELSE v[j].next
            /\ u[j].in1 = IF g.last = 0 /\ g.list = "in1" /\ g.node = j THEN x ELSE v[j].in1
            /\ u[j].in2 = IF g.last = 0 /\ g.list = "in2" /\ g.node = j THEN x ELSE v[j].in2
  <2>1. v \in Seq(NodeSet) /\ g \in FrameSet /\ x \in Nat
    BY <1>1, <1>3, <1>6, Zenon
  <2>2. QED
    BY <1>5, <1>7, <2>1, LinkedFields, SMTT(40)
<1>9. u[n + 1] = Fresh(t)
  <2>1. n + 1 \in 1 .. Len(v) /\ g.last # n + 1 /\ g.node # n + 1
    BY <1>1, <1>6, <1>7
  <2>2. u[n + 1].op = v[n + 1].op /\ u[n + 1].next = v[n + 1].next
        /\ u[n + 1].in1 = v[n + 1].in1 /\ u[n + 1].in2 = v[n + 1].in2
    BY <1>8, <2>1
  <2>3. u[n + 1] \in NodeSet /\ v[n + 1] \in NodeSet
    BY <1>6, <1>8, <2>1
  <2>4. u[n + 1] = v[n + 1]
    BY <2>2, <2>3 DEF NodeSet
  <2>5. QED
    BY <1>6, <2>4
<1>10. ASSUME NEW j \in 1 .. n
       PROVE  /\ u[j].op = ns[j].op /\ NextSet(ns, c, fs, {m - 1, m}, u, j)
              /\ In1Set(ns, c, fs, {m - 1, m}, u, j) /\ In2Set(ns, c, fs, {m - 1, m}, u, j)
  <2>1. /\ v[j].op = ns[j].op
        /\ v[j].next = IF f.last = j THEN n + 1 ELSE ns[j].next
        /\ v[j].in1 = IF f.last = 0 /\ f.list = "in1" /\ f.node = j THEN n + 1 ELSE ns[j].in1
        /\ v[j].in2 = IF f.last = 0 /\ f.list = "in2" /\ f.node = j THEN n + 1 ELSE ns[j].in2
    BY <1>6
  <2>2. j \in 1 .. Len(v)
    BY <1>1, <1>6
  <2>3. /\ u[j].op = v[j].op
        /\ u[j].next = IF g.last = j THEN x ELSE v[j].next
        /\ u[j].in1 = IF g.last = 0 /\ g.list = "in1" /\ g.node = j THEN x ELSE v[j].in1
        /\ u[j].in2 = IF g.last = 0 /\ g.list = "in2" /\ g.node = j THEN x ELSE v[j].in2
    BY <1>8, <2>2
  <2>4. /\ fs[m] = f /\ Begins(c, Len(ns), m) = n + 1
        /\ fs[m - 1] = g /\ Begins(c, Len(ns), m - 1) = x
    BY <1>1 DEF f, g, n
  <2>5. ~(f.last = j /\ g.last = j) /\ ~(f.node = j /\ g.node = j)
    BY <1>1
  <2>6. NextSet(ns, c, fs, {m - 1, m}, u, j)
    BY <2>1, <2>3, <2>4, <2>5 DEF NextSet
  <2>7. In1Set(ns, c, fs, {m - 1, m}, u, j)
    BY <2>1, <2>3, <2>4, <2>5 DEF In1Set
  <2>8. In2Set(ns, c, fs, {m - 1, m}, u, j)
    BY <2>1, <2>3, <2>4, <2>5 DEF In2Set
  <2>9. QED
    BY <2>1, <2>3, <2>6, <2>7, <2>8
<1>11. Len(u) = Len(ns) + 1 /\ n = Len(ns)
  BY <1>6, <1>8 DEF n
<1>12. QED
  BY <1>8, <1>9, <1>10, <1>11 DEF ReadInto

\* A sequence that grows by an element.
LEMMA Appended ==
    ASSUME NEW X, NEW s \in Seq(X), NEW x \in X
    PROVE  LET r == Append(s, x)
           IN  /\ r \in Seq(X) /\ Len(r) = Len(s) + 1 /\ Len(s) \in Nat /\ r[Len(s) + 1] = x
               /\ \A k \in 1 .. Len(s) : r[k] = s[k]
  OBVIOUS

\* A sequence whose last element is replaced.
LEMMA LastReplaced ==
    ASSUME NEW X, NEW s \in Seq(X), s # <<>>, NEW x \in X
    PROVE  LET r == Append(Front(s), x)
           IN  /\ r \in Seq(X) /\ Len(r) = Len(s) /\ Len(s) \in Nat \ {0} /\ r[Len(s)] = x
               /\ \A k \in 1 .. Len(s) - 1 : r[k] = s[k]
<1>1. /\ Front(s) \in Seq(X) /\ Len(Front(s)) = Len(s) - 1 /\ Len(s) \in Nat \ {0}
      /\ \A k \in 1 .. Len(s) - 1 : Front(s)[k] = s[k]
  BY FrontOf
<1>2. QED
  BY <1>1

\* What is open behind an opcode that opens and ends nothing.
LEMMA OpenPlain ==
    ASSUME NEW ns, NEW b, NEW c, NEW fs, Tree(ns, b, c, fs), NEW L, NEW t \in {"op", "else"},
           NEW u, ReadInto(ns, c, fs, L, t, u), NEW d, d = TextOf(u)
    PROVE  OpenAfter(d, Len(ns) + 1) = OpenAfter(c, Len(ns))
<1>1. OneMore(c, d, Len(ns)) /\ d[Len(ns) + 1] = t
  BY ReadText
<1>2. QED
  BY <1>1, OneMoreOpcode DEF Opened, Openers

\* Where the outer activations have been reading, by what is open.
LEMMA OuterBegins ==
    ASSUME NEW ns, NEW b, NEW c, NEW fs, Tree(ns, b, c, fs), NEW k \in 1 .. Len(fs) - 1
    PROVE  /\ Begins(c, Len(ns), k) = OpenAfter(c, Len(ns))[k]
           /\ k \in 1 .. Len(fs) /\ k \in 1 .. Len(OpenAfter(c, Len(ns)))
<1> DEFINE open == OpenAfter(c, Len(ns))
<1>1. Leveled(ns, b, c, fs, Len(ns), Len(fs), open)
  BY Levels DEF Tree
<1>2. Len(fs) \in Nat /\ Len(fs) = Len(open) + 1
  BY <1>1 DEF Leveled
<1>3. Len(open) \in Nat
  BY OpenNested DEF Nested, Tree
<1>4. k \in 1 .. Len(fs) /\ k \in 1 .. Len(open) /\ k <= Len(open)
  BY <1>2, <1>3
<1>5. QED
  BY <1>4 DEF Begins

\* The new node needs nothing before the text goes on.
LEMMA NewNode ==
    ASSUME NEW ns, NEW b, NEW c, NEW fs, Tree(ns, b, c, fs), NEW L, NEW t,
           NEW u, ReadInto(ns, c, fs, L, t, u), NEW d, d = TextOf(u), NEW gs,
           t \in Openers \cup {"op"} =>
               \E k \in 1 .. Len(gs) : Len(ns) + 1 \in {gs[k].node, gs[k].last},
           t \in Openers => \E k \in 1 .. Len(gs) : gs[k] = Frame(Len(ns) + 1, "in1")
    PROVE  NodeOK(u, d, gs, Len(ns) + 1)
<1> DEFINE n == Len(ns)
<1>1. OneMore(c, d, n) /\ d[n + 1] = t /\ Len(u) = n + 1 /\ n \in Nat
  BY ReadText DEF OneMore
<1>2. u[n + 1].next = 0 /\ u[n + 1].in1 = 0 /\ u[n + 1].in2 = 0
  BY DEF ReadInto, Fresh
<1>3. ElseOf(d, n + 1) = {}
  <2>1. Len(d) = n + 1
    BY <1>1 DEF OneMore
  <2>2. \A p : p \notin (n + 1) + 1 .. Len(d)
    BY <1>1, <2>1
  <2>3. QED
    BY <2>2 DEF ElseOf
<1>4. QED
  BY <1>1, <1>2, <1>3 DEF NodeOK, NextOK, In1OK, In2OK

\* What DecodeLeaf does.
LeafRead(ns, b, fs, t, u, bb, d, gs) ==
    /\ t \in {"op", "else"} /\ (t = "else" => Last(fs).list # "in1")
    /\ u = Linked(Append(ns, Fresh(t)), Last(fs), Len(ns) + 1)
    /\ bb = (IF Last(fs).list = "body" /\ Last(fs).last = 0 THEN Len(ns) + 1 ELSE b)
    /\ d = TextOf(u)
    /\ gs = Append(Front(fs), [Last(fs) EXCEPT !.last = Len(ns) + 1])

\* An instruction that the list goes on behind.
LEMMA LeafKeeps ==
    ASSUME NEW ns, NEW b, NEW c, NEW fs, Tree(ns, b, c, fs), NEW t, NEW u, NEW bb, NEW d, NEW gs,
           LeafRead(ns, b, fs, t, u, bb, d, gs)
    PROVE  Tree(u, bb, d, gs) /\ bb \in {b, 1}
<1>0. /\ t \in {"op", "else"} /\ (t = "else" => Last(fs).list # "in1")
      /\ u = Linked(Append(ns, Fresh(t)), Last(fs), Len(ns) + 1)
      /\ bb = (IF Last(fs).list = "body" /\ Last(fs).last = 0 THEN Len(ns) + 1 ELSE b)
      /\ d = TextOf(u)
      /\ gs = Append(Front(fs), [Last(fs) EXCEPT !.last = Len(ns) + 1])
  BY DEF LeafRead
<1> USE <1>0
<1> DEFINE n == Len(ns)
           m == Len(fs)
           f == Last(fs)
           h == [f EXCEPT !.last = n + 1]
           L == {m}
           open == OpenAfter(d, n + 1)
<1>1. t \in Opcodes
  BY DEF Opcodes
<1>2. ReadInto(ns, c, fs, L, t, u)
  BY <1>1, ReadLinked
<1>3. OneMore(c, d, n) /\ d[n + 1] = t /\ Len(u) = n + 1 /\ n \in Nat
  BY <1>2, ReadText DEF OneMore
<1>4. Leveled(ns, b, c, fs, n, m, OpenAfter(c, n)) /\ fs \in Seq(FrameSet)
  BY Levels DEF Tree
<1>5. m \in Nat \ {0} /\ m \in 1 .. m /\ fs # <<>> /\ m = Len(OpenAfter(c, n)) + 1
  BY <1>4 DEF Leveled
<1>6. f = fs[m] /\ f \in FrameSet
  BY LastOpen
<1>7. h \in FrameSet /\ h.node = f.node /\ h.list = f.list /\ h.last = n + 1
  BY <1>3, <1>6 DEF FrameSet
<1>8. /\ gs \in Seq(FrameSet) /\ Len(gs) = m /\ gs[m] = h
      /\ \A k \in 1 .. m - 1 : gs[k] = fs[k]
  BY <1>4, <1>5, <1>7, LastReplaced
<1>9. open = OpenAfter(c, n)
  BY <1>2, OpenPlain
<1>10. /\ f.node < n + 1 /\ f.node \in Nat /\ f.last \in Nat /\ SlotOK(ns, b, c, f, n + 1)
       /\ f.list # "body" => f.node \in 1 .. n
       /\ f.list = "body" => m = 1
       /\ f.list # "body" => m # 1 /\ open # <<>> /\ Last(open) = f.node
  <2>1. f.node < n + 1 /\ SlotOK(ns, b, c, f, n + 1)
    BY <1>4, <1>5, <1>6 DEF Leveled
  <2>2. f.node \in Nat /\ f.last \in Nat
    BY <1>6 DEF FrameSet
  <2>3. f.list # "body" => f.node # 0
    BY LastOpen
  <2>4. f.list = "body" => m = 1
    BY LastOpen
  <2>5. f.list # "body" => m # 1 /\ open # <<>> /\ Last(open) = f.node
    BY <1>5, <1>9, LastOpen
  <2>6. QED
    BY <1>3, <2>1, <2>2, <2>3, <2>4, <2>5
<1>11. Pending(fs, L, t, gs)
  <2>1. \A k \in (1 .. m) \ L : k \in 1 .. m - 1
    BY <1>5
  <2>2. \A k \in (1 .. m) \ L : \E j \in 1 .. Len(gs) : gs[j] = fs[k]
    BY <1>8, <2>1
  <2>3. \A k \in L : fs[k].node = gs[m].node
    BY <1>6, <1>7, <1>8
  <2>4. QED
    BY <1>5, <1>8, <2>2, <2>3 DEF Pending
<1>12. bb \in {b, 1} /\ (1 \notin L => bb = b) /\ (f.list = "body" => bb = 1)
  <2>1. CASE f.list = "body"
    <3>1. f.last = 0 => n + 1 = 1
      BY <1>10, <2>1 DEF SlotOK
    <3>2. f.last # 0 => b = 1
      BY <1>10, <2>1 DEF SlotOK
    <3>3. m = 1
      BY <1>10, <2>1
    <3>4. QED
      BY <2>1, <3>1, <3>2, <3>3
  <2>2. CASE f.list # "body"
    BY <2>2
  <2>3. QED
    BY <2>1, <2>2
<1>13. Kept(ns, c, fs, L, d, gs)
  BY <1>5, <1>8, <1>9, OuterBegins DEF Kept
<1>14. NodeOK(u, d, gs, n + 1)
  <2>1. t \notin Openers
    BY DEF Openers
  <2>2. \E k \in 1 .. Len(gs) : n + 1 \in {gs[k].node, gs[k].last}
    BY <1>5, <1>7, <1>8
  <2>3. QED
    BY <1>2, <2>1, <2>2, NewNode
<1>15. SlotOK(u, bb, d, h, n + 2)
  <2>1. Exits(d, n + 1, n + 2)
    BY <1>3 DEF Exits, Openers
  <2>2. u[n + 1].next = 0
    BY <1>2 DEF ReadInto, Fresh
  <2>3. f.list # "body" => ns[f.node].next = 0 /\ u[f.node].next = 0
    <3>1. SUFFICES ASSUME f.list # "body"
                   PROVE  ns[f.node].next = 0 /\ u[f.node].next = 0
      OBVIOUS
    <3>2. ns[f.node].next = 0 /\ f.node \in 1 .. n /\ (f.last # 0 => f.node < f.last)
      BY <1>10, <3>1 DEF SlotOK
    <3>3. NextSet(ns, c, fs, L, u, f.node)
      BY <1>2, <3>2 DEF ReadInto
    <3>4. f.last # f.node
      BY <1>10, <3>2
    <3>5. QED
      BY <1>6, <3>2, <3>3, <3>4 DEF NextSet
  <2>4. f.list = "in1" => u[f.node].in2 = 0 /\ ElseOf(d, f.node) = {}
    <3>1. SUFFICES ASSUME f.list = "in1"
                   PROVE  u[f.node].in2 = 0 /\ ElseOf(d, f.node) = {}
      OBVIOUS
    <3>2. ns[f.node].in2 = 0 /\ ElseOf(c, f.node) = {} /\ f.node \in 1 .. n
      BY <1>10, <3>1 DEF SlotOK
    <3>3. In2Set(ns, c, fs, L, u, f.node)
      BY <1>2, <3>2 DEF ReadInto
    <3>4. u[f.node].in2 = 0
      BY <1>6, <3>1, <3>2, <3>3 DEF In2Set
    <3>5. ElseOf(d, f.node) = {}
      BY <1>3, <3>1, <3>2, OneMoreElse
    <3>6. QED
      BY <3>4, <3>5
  <2>5. f.list = "in2" => u[f.node].in2 # 0
    <3>1. SUFFICES ASSUME f.list = "in2"
                   PROVE  u[f.node].in2 # 0
      OBVIOUS
    <3>2. f.node \in 1 .. n
      BY <1>10, <3>1
    <3>3. In2Set(ns, c, fs, L, u, f.node)
      BY <1>2, <3>2 DEF ReadInto
    <3>4. Begins(c, n, m) # 0
      BY <1>5, SlotLeads
    <3>5. CASE f.last = 0
      BY <1>6, <3>1, <3>3, <3>4, <3>5 DEF In2Set
    <3>6. CASE f.last # 0
      <4>1. ns[f.node].in2 # 0
        BY <1>10, <3>1, <3>6 DEF SlotOK
      <4>2. QED
        BY <1>6, <3>3, <3>6, <4>1 DEF In2Set
    <3>7. QED
      BY <3>5, <3>6
  <2>6. h.last # 0 /\ h.node < h.last /\ h.last <= Len(u)
    BY <1>3, <1>7, <1>10
  <2> HIDE DEF h, f, n
  <2>7. QED
    BY <1>7, <1>12, <2>1, <2>2, <2>3, <2>4, <2>5, <2>6, Zenon DEF SlotOK
<1>16. /\ m = 1 => gs[m].node = 0 /\ gs[m].list = "body"
       /\ m > 1 => gs[m].node = open[m - 1] /\ gs[m].list \in {"in1", "in2"}
  <2>1. m = 1 => f.node = 0 /\ f.list = "body"
    BY LastOpen
  <2>2. m > 1 => f.list # "body" /\ f.list \in {"body", "in1", "in2"}
    BY <1>6, <1>10 DEF FrameSet
  <2>3. m > 1 => Last(open) = open[m - 1]
    BY <1>5, <1>9 DEF Last
  <2>4. QED
    BY <1>7, <1>8, <1>10, <2>1, <2>2, <2>3
<1>17. L \in SUBSET (1 .. Len(fs)) /\ m = Len(open) + 1
  BY <1>5, <1>9
<1>18. SlotOK(u, bb, d, gs[m], Len(ns) + 2) /\ m = Len(gs) /\ open = OpenAfter(d, Len(ns) + 1)
  BY <1>8, <1>15
<1> HIDE DEF h, f, L, open, m
<1>19. GoesOn(ns, b, u, bb, d, gs, L, m, open)
  BY <1>5, <1>8, <1>12, <1>14, <1>16, <1>17, <1>18 DEF GoesOn
<1>20. L \subseteq 1 .. Len(fs)
  BY <1>17
<1>21. Tree(u, bb, d, gs)
  BY <1>2, <1>11, <1>13, <1>19, <1>20, TreeGoesOn
<1>22. QED
  BY <1>12, <1>21

\* What DecodeElse does.
ElseRead(ns, fs, u, d, gs) ==
    /\ Last(fs).list = "in1"
    /\ u = Linked(Append(ns, Fresh("else")), Last(fs), Len(ns) + 1)
    /\ d = TextOf(u)
    /\ gs = Append(Front(fs), Frame(Last(fs).node, "in2"))

\* An else that ends a first list and begins the second one.
LEMMA ElseKeeps ==
    ASSUME NEW ns, NEW b, NEW c, NEW fs, Tree(ns, b, c, fs), NEW u, NEW d, NEW gs,
           ElseRead(ns, fs, u, d, gs)
    PROVE  Tree(u, b, d, gs)
<1>0. /\ Last(fs).list = "in1"
      /\ u = Linked(Append(ns, Fresh("else")), Last(fs), Len(ns) + 1)
      /\ d = TextOf(u)
      /\ gs = Append(Front(fs), Frame(Last(fs).node, "in2"))
  BY DEF ElseRead
<1> USE <1>0
<1> DEFINE n == Len(ns)
           m == Len(fs)
           f == Last(fs)
           h == Frame(f.node, "in2")
           L == {m}
           t == "else"
           open == OpenAfter(d, n + 1)
<1>1. t \in Opcodes /\ t \in {"op", "else"}
  BY DEF Opcodes
<1>2. ReadInto(ns, c, fs, L, t, u)
  BY <1>1, ReadLinked
<1>3. OneMore(c, d, n) /\ d[n + 1] = t /\ Len(u) = n + 1 /\ n \in Nat
  BY <1>2, ReadText DEF OneMore
<1>4. /\ m \in Nat /\ m > 1 /\ f = fs[m] /\ f \in FrameSet /\ f.node \in 1 .. n
      /\ f.last \in Nat /\ (f.last # 0 => f.node < f.last) /\ SlotOK(ns, b, c, f, n + 1)
  BY LastTwo
<1>5. fs \in Seq(FrameSet) /\ fs # <<>> /\ m \in Nat \ {0} /\ m \in 1 .. m /\ f.node \in Nat
  BY <1>4 DEF Tree, FrameSet
<1>6. h \in FrameSet /\ h.node = f.node /\ h.list = "in2" /\ h.last = 0
  BY <1>5 DEF FrameSet, Frame, NULL
<1>7. /\ gs \in Seq(FrameSet) /\ Len(gs) = m /\ gs[m] = h
      /\ \A k \in 1 .. m - 1 : gs[k] = fs[k]
  BY <1>5, <1>6, LastReplaced
<1>8. open = OpenAfter(c, n) /\ open # <<>> /\ Last(open) = f.node /\ m = Len(open) + 1
  <2>1. Leveled(ns, b, c, fs, n, m, OpenAfter(c, n))
    BY Levels DEF Tree
  <2>2. m = Len(OpenAfter(c, n)) + 1
    BY <2>1 DEF Leveled
  <2>3. open = OpenAfter(c, n)
    BY <1>1, <1>2, OpenPlain
  <2>4. OpenAfter(c, n) # <<>> /\ Last(OpenAfter(c, n)) = f.node
    BY LastOpen
  <2>5. QED
    BY <2>2, <2>3, <2>4
<1>9. Pending(fs, L, t, gs)
  <2>1. \A k \in (1 .. m) \ L : k \in 1 .. m - 1
    BY <1>5
  <2>2. \A k \in (1 .. m) \ L : \E j \in 1 .. Len(gs) : gs[j] = fs[k]
    BY <1>7, <2>1
  <2>3. \A k \in L : fs[k].node = gs[m].node
    BY <1>4, <1>6, <1>7
  <2>4. QED
    BY <1>5, <1>7, <2>2, <2>3 DEF Pending
<1>10. Kept(ns, c, fs, L, d, gs)
  BY <1>5, <1>7, <1>8, OuterBegins DEF Kept
<1>11. NodeOK(u, d, gs, n + 1)
  <2>1. t \notin Openers \cup {"op"}
    BY DEF Openers
  <2>2. QED
    BY <1>2, <2>1, NewNode
<1>12. SlotOK(u, b, d, h, n + 2)
  <2>1. ns[f.node].next = 0 /\ ns[f.node].in2 = 0
    BY <1>4 DEF SlotOK
  <2>2. u[f.node].next = 0
    <3>1. NextSet(ns, c, fs, L, u, f.node)
      BY <1>2, <1>4 DEF ReadInto
    <3>2. f.last # f.node
      BY <1>4, <1>5
    <3>3. QED
      BY <1>4, <2>1, <3>1, <3>2 DEF NextSet
  <2>3. u[f.node].in2 = 0
    <3>1. In2Set(ns, c, fs, L, u, f.node)
      BY <1>2, <1>4 DEF ReadInto
    <3>2. QED
      BY <1>4, <2>1, <3>1 DEF In2Set
  <2>4. ElseAt(d, f.node, n + 2)
    <3>1. Innermost(d, n + 1) = (IF OpenAfter(c, n) = <<>> THEN 0 ELSE Last(OpenAfter(c, n)))
      BY <1>3, OneMoreOpcode
    <3>2. Innermost(d, n + 1) = f.node /\ (n + 2) - 1 = n + 1 /\ f.node + 1 < n + 2
      BY <1>3, <1>4, <1>8, <3>1
    <3>3. QED
      BY <1>3, <3>2 DEF ElseAt
  <2> HIDE DEF h, f, n
  <2>5. QED
    BY <1>6, <2>2, <2>3, <2>4, Zenon DEF SlotOK
<1>13. m > 1 => gs[m].node = open[m - 1] /\ gs[m].list \in {"in1", "in2"}
  <2>1. Last(open) = open[m - 1]
    BY <1>5, <1>8 DEF Last
  <2>2. QED
    BY <1>6, <1>7, <1>8, <2>1
<1>14. SlotOK(u, b, d, gs[m], Len(ns) + 2) /\ open = OpenAfter(d, Len(ns) + 1)
  BY <1>7, <1>12
<1>15. m # 1
  BY <1>4
<1>16. L \subseteq 1 .. Len(fs)
  BY <1>5
<1>17. m = Len(gs) /\ gs \in Seq(FrameSet) /\ m > 1
  BY <1>4, <1>7
<1> HIDE DEF h, f, open, m, L, n, t
<1>18. GoesOn(ns, b, u, b, d, gs, L, m, open)
  BY <1>5, <1>8, <1>11, <1>13, <1>14, <1>15, <1>17, Zenon DEF GoesOn, n
<1>19. QED
  BY <1>2, <1>9, <1>10, <1>16, <1>18, TreeGoesOn

\* What DecodeOpener does.
OpenerRead(ns, fs, t, u, d, gs) ==
    /\ t \in Openers
    /\ u = Append(ns, Fresh(t))
    /\ d = TextOf(u)
    /\ gs = Append(fs, Frame(Len(ns) + 1, "in1"))

\* The beginning of a construct.
LEMMA OpenerKeeps ==
    ASSUME NEW ns, NEW b, NEW c, NEW fs, Tree(ns, b, c, fs), NEW t, NEW u, NEW d, NEW gs,
           OpenerRead(ns, fs, t, u, d, gs)
    PROVE  Tree(u, b, d, gs)
<1>0. /\ t \in Openers
      /\ u = Append(ns, Fresh(t))
      /\ d = TextOf(u)
      /\ gs = Append(fs, Frame(Len(ns) + 1, "in1"))
  BY DEF OpenerRead
<1> USE <1>0
<1> DEFINE n == Len(ns)
           m == Len(fs)
           h == Frame(n + 1, "in1")
           L == {}
           g == m + 1
           open == OpenAfter(d, n + 1)
           old == OpenAfter(c, n)
<1>1. t \in Opcodes /\ t # "else"
  BY DEF Opcodes, Openers, Structured
<1>2. ReadInto(ns, c, fs, L, t, u)
  BY <1>1, ReadLoose
<1>3. OneMore(c, d, n) /\ d[n + 1] = t /\ Len(u) = n + 1 /\ n \in Nat
  BY <1>2, ReadText DEF OneMore
<1>4. Leveled(ns, b, c, fs, n, m, old) /\ fs \in Seq(FrameSet)
  BY Levels DEF Tree
<1>5. m \in Nat \ {0} /\ m = Len(old) + 1 /\ Begins(c, n, m) = n + 1 /\ g \in Nat \ {0} /\ g > 1
  BY <1>4 DEF Leveled
<1>6. h \in FrameSet /\ h.node = n + 1 /\ h.list = "in1" /\ h.last = 0
  BY <1>3 DEF FrameSet, Frame, NULL
<1>7. /\ gs \in Seq(FrameSet) /\ Len(gs) = g /\ gs[g] = h
      /\ \A k \in 1 .. m : gs[k] = fs[k]
  BY <1>4, <1>5, <1>6
<1>8. open = Append(old, n + 1)
  <2> HIDE DEF n
  <2>1. open = Opened(d, n + 1, old)
    BY <1>3, OneMoreOpcode
  <2>2. d[n + 1] \in Openers
    BY <1>3
  <2>3. QED
    BY <2>1, <2>2, Zenon DEF Opened
<1>9. old \in Seq(Nat) /\ Len(old) \in Nat
  <2> HIDE DEF n
  <2>1. Nested(c, n, old)
    BY <1>3, OpenNested
  <2>2. QED
    BY <2>1 DEF Nested
<1>10. /\ Len(open) = m /\ open[m] = n + 1 /\ \A k \in 1 .. m - 1 : open[k] = old[k]
  <2> HIDE DEF n, old
  <2>1. n + 1 \in Nat
    BY <1>3
  <2>2. /\ Len(open) = Len(old) + 1 /\ open[Len(old) + 1] = n + 1
        /\ \A k \in 1 .. Len(old) : open[k] = old[k]
    BY <1>8, <1>9, <2>1, Appended
  <2>3. m - 1 = Len(old)
    BY <1>5, <1>9
  <2>4. QED
    BY <1>5, <2>2, <2>3
<1>11. Pending(fs, L, t, gs)
  <2>1. \A k \in (1 .. m) \ L : k \in 1 .. Len(gs) /\ gs[k] = fs[k]
    BY <1>5, <1>7
  <2>2. QED
    BY <1>1, <2>1 DEF Pending
<1>12. Kept(ns, c, fs, L, d, gs)
  <2>1. ASSUME NEW k \in 1 .. Len(gs) - 1
        PROVE  k \in 1 .. m /\ gs[k] = fs[k] /\ open[k] = Begins(c, n, k)
    <3>1. k \in 1 .. m
      BY <1>5, <1>7
    <3>2. CASE k = m
      BY <1>5, <1>7, <1>10, <3>1, <3>2
    <3>3. CASE k \in 1 .. m - 1
      <4>1. Begins(c, n, k) = old[k]
        BY <3>3, OuterBegins
      <4>2. QED
        BY <1>7, <1>10, <3>1, <3>3, <4>1
    <3>4. QED
      BY <1>5, <3>1, <3>2, <3>3
  <2>2. QED
    BY <2>1 DEF Kept
<1>13. NodeOK(u, d, gs, n + 1)
  <2>1. g \in 1 .. Len(gs) /\ gs[g] = Frame(n + 1, "in1") /\ gs[g].node = n + 1
    BY <1>5, <1>6, <1>7
  <2>2. QED
    BY <1>2, <2>1, NewNode
<1>14. SlotOK(u, b, d, h, n + 2)
  <2>1. u[n + 1].next = 0 /\ u[n + 1].in1 = 0 /\ u[n + 1].in2 = 0
    BY <1>2 DEF ReadInto, Fresh
  <2>2. ElseOf(d, n + 1) = {}
    <3>1. Len(d) = n + 1
      BY <1>3 DEF OneMore
    <3>2. \A p : p \notin (n + 1) + 1 .. Len(d)
      BY <1>3, <3>1
    <3>3. QED
      BY <3>2 DEF ElseOf
  <2>3. n + 2 = (n + 1) + 1
    BY <1>3
  <2> HIDE DEF h, n
  <2>4. QED
    BY <1>6, <2>1, <2>2, <2>3 DEF SlotOK
<1>15. gs[g].node = open[g - 1] /\ gs[g].list \in {"in1", "in2"}
  <2>1. g - 1 = m
    BY <1>5
  <2>2. QED
    BY <1>6, <1>7, <1>10, <2>1
<1>16. SlotOK(u, b, d, gs[g], Len(ns) + 2) /\ open = OpenAfter(d, Len(ns) + 1)
  BY <1>7, <1>14
<1>17. g = Len(open) + 1 /\ g # 1
  BY <1>5, <1>10
<1> HIDE DEF h, open, old, g
<1>18. GoesOn(ns, b, u, b, d, gs, L, g, open)
  BY <1>5, <1>7, <1>13, <1>15, <1>16, <1>17 DEF GoesOn
<1>19. L \subseteq 1 .. Len(fs)
  OBVIOUS
<1>20. QED
  BY <1>2, <1>11, <1>12, <1>18, <1>19, TreeGoesOn

\* The list of activation g goes on behind node x.
LEMMA SlotBehind ==
    ASSUME NEW g \in FrameSet, NEW x \in Nat \ {0}, NEW h, h = [g EXCEPT !.last = x],
           NEW u, NEW bb, NEW d, NEW s,
           g.node < x, x <= Len(u), u[x].next = 0, Exits(d, x, s),
           g.list = "body" => bb = 1,
           g.list # "body" => u[g.node].next = 0,
           g.list = "in1" => u[g.node].in2 = 0 /\ ElseOf(d, g.node) = {},
           g.list = "in2" => u[g.node].in2 # 0
    PROVE  h \in FrameSet /\ SlotOK(u, bb, d, h, s)
<1>1. h \in FrameSet /\ h.node = g.node /\ h.list = g.list /\ h.last = x /\ x # 0
  BY DEF FrameSet
<1>2. u[h.last].next = 0 /\ Exits(d, h.last, s) /\ h.node < h.last /\ h.last <= Len(u) /\ h.last # 0
  BY <1>1, Zenon
<1>3. /\ h.list = "body" => bb = 1
      /\ h.list # "body" => u[h.node].next = 0
      /\ h.list = "in1" => u[h.node].in2 = 0 /\ ElseOf(d, h.node) = {}
      /\ h.list = "in2" => u[h.node].in2 # 0
  BY <1>1, Zenon
<1>4. QED
  BY <1>1, <1>2, <1>3, Zenon DEF SlotOK

\* Once it is set, a head of a second arm is not NULL.
LEMMA In2Begun ==
    ASSUME NEW ns, NEW c, NEW fs, NEW L, NEW u, NEW q \in L,
           In2Set(ns, c, fs, L, u, fs[q].node), fs[q].list = "in2",
           \A k \in L : Begins(c, Len(ns), k) # 0,
           fs[q].last # 0 => ns[fs[q].node].in2 # 0
    PROVE  u[fs[q].node].in2 # 0
<1> DEFINE j == fs[q].node
<1>1. CASE \E k \in L : u[j].in2 = Begins(c, Len(ns), k)
  BY <1>1
<1>2. CASE /\ \A k \in L : ~(fs[k].last = 0 /\ fs[k].list = "in2" /\ fs[k].node = j)
           /\ u[j].in2 = ns[j].in2
  BY <1>2
<1>3. QED
  BY <1>1, <1>2 DEF In2Set

\* Behind an end, the list of the activation below goes on behind the construct.
LEMMA EndSlot ==
    ASSUME NEW ns, NEW b, NEW c, NEW fs, Tree(ns, b, c, fs), Last(fs).list # "body",
           NEW u, ReadInto(ns, c, fs, {Len(fs) - 1, Len(fs)}, "end", u),
           NEW d, d = TextOf(u), NEW bb, fs[Len(fs) - 1].list = "body" => bb = 1
    PROVE  SlotOK(u, bb, d, [fs[Len(fs) - 1] EXCEPT !.last = fs[Len(fs)].node], Len(ns) + 2)
<1> DEFINE n == Len(ns)
           m == Len(fs)
           q == m - 1
           f == fs[m]
           g == fs[q]
           x == f.node
           L == {q, m}
           old == OpenAfter(c, n)
<1>1. /\ m \in Nat /\ m > 1 /\ n \in Nat /\ g \in FrameSet
      /\ x \in 1 .. n /\ c[x] \in Openers /\ f.list \in {"in1", "in2"}
      /\ g.node < x /\ g.last < x
      /\ g.node \in Nat /\ g.last \in Nat /\ f.last \in Nat
      /\ (f.last # 0 => x < f.last) /\ (g.list # "body" => g.node # 0)
      /\ SlotOK(ns, b, c, f, n + 1) /\ SlotOK(ns, b, c, g, x)
  BY LastTwo
<1>2. OneMore(c, d, n) /\ d[n + 1] = "end" /\ Len(u) = n + 1
  BY ReadText
<1>3. Last(old) = x /\ old # <<>> /\ L \subseteq 1 .. m
  <2>1. Last(fs) = f
    BY LastOpen
  <2>2. L \subseteq 1 .. m
    BY <1>1
  <2>3. QED
    BY <1>1, <2>1, <2>2, LastOpen
<1>4. /\ x \in Nat \ {0} /\ x <= n + 1 /\ x < n + 2 /\ (n + 2) - 1 = n + 1
      /\ g.node # x /\ f.last # x /\ g.last # x
      /\ g.list # "body" => g.node \in 1 .. n /\ f.last # g.node
  <2> DEFINE v == g.node
             w == f.last
             y == g.last
  <2>1. /\ n \in Nat /\ x \in 1 .. n /\ v < x /\ y < x /\ (w # 0 => x < w)
        /\ v \in Nat /\ w \in Nat /\ y \in Nat /\ (g.list # "body" => v # 0)
    BY <1>1
  <2> HIDE DEF n, x, v, w, y
  <2>2. /\ x \in Nat \ {0} /\ x <= n + 1 /\ x < n + 2 /\ (n + 2) - 1 = n + 1
        /\ v # x /\ w # x /\ y # x /\ (v # 0 => v \in 1 .. n /\ w # v)
    BY <2>1
  <2>3. g.list # "body" => v \in 1 .. n /\ w # v
    BY <2>1, <2>2
  <2>4. QED
    BY <2>2, <2>3 DEF v, w, y
<1>5. \A j \in 1 .. n : /\ NextSet(ns, c, fs, L, u, j) /\ In1Set(ns, c, fs, L, u, j)
                        /\ In2Set(ns, c, fs, L, u, j)
  BY DEF ReadInto
<1>6. u[x].next = 0
  <2>1. ns[x].next = 0
    BY <1>1 DEF SlotOK
  <2>2. NextSet(ns, c, fs, L, u, x) /\ \A k \in L : fs[k].last # x
    BY <1>1, <1>4, <1>5
  <2>3. QED
    BY <2>1, <2>2 DEF NextSet
<1>7. Exits(d, x, n + 2)
  <2>1. d[x] = c[x]
    BY <1>1, <1>2 DEF OneMore, Agree
  <2>2. Innermost(d, n + 1) = x
    <3> HIDE DEF n, x, old
    <3>1. Innermost(d, n + 1) = (IF old = <<>> THEN 0 ELSE Last(old))
      BY <1>2, OneMoreOpcode DEF old
    <3>2. QED
      BY <1>3, <3>1
  <2>3. c[x] # "end"
    BY <1>1 DEF Openers
  <2> HIDE DEF n, x
  <2>4. QED
    BY <1>1, <1>2, <1>4, <2>1, <2>2, <2>3 DEF Exits
<1>8. ASSUME g.list # "body"
      PROVE  u[g.node].next = 0
  <2>1. ns[g.node].next = 0 /\ (g.last # 0 => g.node < g.last)
    BY <1>1, <1>8 DEF SlotOK
  <2>2. g.last # g.node
    BY <1>1, <1>8, <2>1
  <2>3. NextSet(ns, c, fs, L, u, g.node) /\ \A k \in L : fs[k].last # g.node
    BY <1>4, <1>5, <1>8, <2>2
  <2>4. QED
    BY <2>1, <2>3 DEF NextSet
<1>9. ASSUME g.list = "in1"
      PROVE  u[g.node].in2 = 0 /\ ElseOf(d, g.node) = {}
  <2>1. ns[g.node].in2 = 0 /\ ElseOf(c, g.node) = {} /\ g.node \in 1 .. n
    BY <1>1, <1>4, <1>9 DEF SlotOK
  <2>2. /\ In2Set(ns, c, fs, L, u, g.node)
        /\ \A k \in L : ~(fs[k].last = 0 /\ fs[k].list = "in2" /\ fs[k].node = g.node)
    BY <1>4, <1>5, <1>9, <2>1
  <2>3. u[g.node].in2 = 0
    BY <2>1, <2>2 DEF In2Set
  <2>4. ElseOf(d, g.node) = {}
    BY <1>2, <2>1, OneMoreElse
  <2>5. QED
    BY <2>3, <2>4
<1>10. ASSUME g.list = "in2"
       PROVE  u[g.node].in2 # 0
  <2>1. In2Set(ns, c, fs, L, u, g.node)
    BY <1>4, <1>5, <1>10
  <2>2. \A k \in L : Begins(c, n, k) # 0
    BY <1>3, SlotLeads
  <2>3. g.last # 0 => ns[g.node].in2 # 0
    BY <1>1, <1>10 DEF SlotOK
  <2>4. q \in L /\ g = fs[q] /\ n = Len(ns)
    OBVIOUS
  <2> HIDE DEF q, g, L
  <2>5. QED
    BY <1>10, <2>1, <2>2, <2>3, <2>4, In2Begun
<1>11. x <= Len(u) /\ g.node < x /\ (g.list = "body" => bb = 1)
  BY <1>1, <1>2, <1>4
<1> HIDE DEF g, x, n
<1>12. SlotOK(u, bb, d, [g EXCEPT !.last = x], n + 2)
  BY <1>1, <1>4, <1>6, <1>7, <1>8, <1>9, <1>10, <1>11, SlotBehind
<1>13. QED
  BY <1>12 DEF g, x, n, f, q, m

\* What DecodeEnd does.
EndRead(ns, b, fs, f, g, u, bb, d, gs) ==
    /\ f = Last(fs) /\ g = Last(Front(fs)) /\ Last(fs).list # "body"
    /\ u = Linked(Linked(Append(ns, Fresh("end")), f, Len(ns) + 1), g, f.node)
    /\ bb = (IF g.list = "body" /\ g.last = 0 THEN f.node ELSE b)
    /\ d = TextOf(u)
    /\ gs = Append(Front(Front(fs)), [g EXCEPT !.last = f.node])

\* The end of a construct, which the activation below links.
LEMMA EndKeeps ==
    ASSUME NEW ns, NEW b, NEW c, NEW fs, Tree(ns, b, c, fs), NEW f, NEW g, NEW u, NEW bb, NEW d, NEW gs,
           EndRead(ns, b, fs, f, g, u, bb, d, gs)
    PROVE  Tree(u, bb, d, gs) /\ bb \in {b, 1}
<1>0. /\ f = Last(fs) /\ g = Last(Front(fs)) /\ Last(fs).list # "body"
      /\ u = Linked(Linked(Append(ns, Fresh("end")), f, Len(ns) + 1), g, f.node)
      /\ bb = (IF g.list = "body" /\ g.last = 0 THEN f.node ELSE b)
      /\ d = TextOf(u)
      /\ gs = Append(Front(Front(fs)), [g EXCEPT !.last = f.node])
  BY DEF EndRead
<1> DEFINE n == Len(ns)
           m == Len(fs)
           q == m - 1
           x == f.node
           h == [g EXCEPT !.last = x]
           L == {q, m}
           open == OpenAfter(d, n + 1)
           old == OpenAfter(c, n)
<1>1. /\ m \in Nat /\ m > 1 /\ q \in 1 .. m /\ n \in Nat
      /\ f = fs[m] /\ g = fs[q] /\ g \in FrameSet
      /\ x \in 1 .. n /\ c[x] \in Openers /\ f.list \in {"in1", "in2"}
      /\ Begins(c, n, q) = x /\ g.node < x /\ g.last < x
      /\ g.node \in Nat /\ g.last \in Nat /\ f.last \in Nat
      /\ (f.last # 0 => x < f.last) /\ (g.list # "body" => g.node # 0)
      /\ SlotOK(ns, b, c, f, n + 1) /\ SlotOK(ns, b, c, g, x)
  <2>1. f = fs[m] /\ g = fs[q]
    BY <1>0, LastTwo, SMTT(40)
  <2>2. /\ m \in Nat /\ m > 1 /\ q \in 1 .. m /\ n \in Nat
        /\ fs[q] \in FrameSet
        /\ fs[m].node \in 1 .. n /\ c[fs[m].node] \in Openers /\ fs[m].list \in {"in1", "in2"}
        /\ Begins(c, n, q) = fs[m].node /\ fs[q].node < fs[m].node /\ fs[q].last < fs[m].node
        /\ fs[q].node \in Nat /\ fs[q].last \in Nat /\ fs[m].last \in Nat
        /\ (fs[m].last # 0 => fs[m].node < fs[m].last)
        /\ (fs[q].list # "body" => fs[q].node # 0)
        /\ SlotOK(ns, b, c, fs[m], n + 1) /\ SlotOK(ns, b, c, fs[q], fs[m].node)
    BY <1>0, LastTwo, SMTT(40)
  <2> HIDE DEF m, q, n
  <2>3. QED
    BY <2>1, <2>2, Zenon
<1>two. f = fs[m] /\ g = fs[q]
  BY <1>1
<1>2. "end" \in Opcodes /\ "end" \notin Openers
  BY DEF Opcodes, Openers
<1>3. ReadInto(ns, c, fs, L, "end", u)
  BY <1>0, <1>2, ReadClosing
<1>4. OneMore(c, d, n) /\ d[n + 1] = "end" /\ Len(u) = n + 1
  BY <1>0, <1>3, ReadText
<1>5. Leveled(ns, b, c, fs, n, m, old) /\ fs \in Seq(FrameSet) /\ fs # <<>>
  BY <1>1, Levels DEF Tree
<1>6. /\ q \in Nat \ {0} /\ q \in 1 .. q /\ q + 1 = m /\ x \in Nat /\ x # 0
      /\ q = 1 \/ q \in 2 .. m
      /\ \A k \in 1 .. q - 1 : k \in 1 .. q /\ k \in 1 .. m /\ k \in 1 .. m - 1 /\ k < q /\ k < m
      /\ \A k \in (1 .. m) \ {q, m} : k \in 1 .. q - 1
  <2>1. m \in Nat /\ m > 1 /\ q = m - 1 /\ n \in Nat /\ x \in 1 .. n
    BY <1>1
  <2> HIDE DEF m, q, n, x
  <2>2. QED
    BY <2>1
<1>7. h \in FrameSet /\ h.node = g.node /\ h.list = g.list /\ h.last = x
  BY <1>1, <1>6 DEF FrameSet
<1>8. /\ gs \in Seq(FrameSet) /\ Len(gs) = q /\ gs[q] = h
      /\ \A k \in 1 .. q - 1 : gs[k] = fs[k]
  <2> DEFINE s == Front(fs)
  <2>1. s \in Seq(FrameSet) /\ Len(s) = q /\ \A k \in 1 .. q : s[k] = fs[k]
    BY <1>5, FrontOf
  <2>2. gs = Append(Front(s), h)
    BY <1>0
  <2> DEFINE r == Append(Front(s), h)
  <2> HIDE DEF s, h, q
  <2>3. s # <<>>
    BY <1>6, <2>1
  <2>4. /\ r \in Seq(FrameSet) /\ Len(r) = Len(s) /\ r[Len(s)] = h
        /\ \A k \in 1 .. Len(s) - 1 : r[k] = s[k]
    BY <1>7, <2>1, <2>3, LastReplaced
  <2> HIDE DEF r
  <2>5. \A k \in 1 .. q - 1 : r[k] = fs[k]
    BY <1>6, <2>1, <2>4
  <2>6. gs = r
    BY <2>2 DEF r
  <2>7. QED
    BY <2>1, <2>4, <2>5, <2>6
<1>9. old # <<>> /\ Last(old) = x /\ open = Front(old) /\ m = Len(old) + 1
  <2>1. old # <<>> /\ Last(old) = x
    BY <1>0, <1>1, LastOpen
  <2>2. m = Len(old) + 1
    BY <1>5 DEF Leveled
  <2> HIDE DEF n, old
  <2>3. open = Opened(d, n + 1, old)
    BY <1>4, OneMoreOpcode DEF old
  <2>4. open = Front(old)
    BY <1>2, <1>4, <2>1, <2>3, Zenon DEF Opened
  <2>5. QED
    BY <2>1, <2>2, <2>4
<1>10. q = Len(open) + 1 /\ \A k \in 1 .. q - 1 : open[k] = old[k]
  <2> HIDE DEF n, old, open
  <2>1. old \in Seq(Nat)
    BY <1>1, OpenNested DEF Nested, old
  <2>2. /\ Len(open) = Len(old) - 1 /\ Len(old) \in Nat
        /\ \A k \in 1 .. Len(old) - 1 : open[k] = old[k]
    BY <1>9, <2>1, FrontOf
  <2>3. \A k \in 1 .. q - 1 : k \in 1 .. Len(old) - 1
    BY <1>9, <2>2
  <2>4. QED
    BY <1>9, <2>2, <2>3
<1>11. Pending(fs, L, "end", gs)
  <2>1. ASSUME NEW k \in (1 .. m) \ L
        PROVE  \E j \in 1 .. Len(gs) : gs[j] = fs[k]
    <3>1. k \in 1 .. q - 1 /\ k \in 1 .. q
      BY <1>6, Zenon
    <3>2. QED
      BY <1>8, <3>1
  <2>2. ASSUME NEW k \in L
        PROVE  \E j \in 1 .. Len(gs) : fs[k].node \in {gs[j].node, gs[j].last}
    <3>1. q \in 1 .. Len(gs) /\ gs[q].node = g.node /\ gs[q].last = x
      BY <1>6, <1>7, <1>8, Zenon
    <3>2. fs[k].node = g.node \/ fs[k].node = x
      BY <1>1
    <3>3. QED
      BY <3>1, <3>2
  <2>3. QED
    BY <2>1, <2>2 DEF Pending
<1>12. Kept(ns, c, fs, L, d, gs)
  <2>1. ASSUME NEW k \in 1 .. Len(gs) - 1
        PROVE  /\ k \in 1 .. m /\ gs[k] = fs[k] /\ open[k] = Begins(c, n, k)
               /\ \A j \in L : k < j
    <3>1. k \in 1 .. q - 1 /\ k \in 1 .. m - 1 /\ k < q /\ k < m
      BY <1>6, <1>8, Zenon
    <3>2. Begins(c, n, k) = old[k] /\ k \in 1 .. m
      BY <3>1, OuterBegins
    <3>3. \A j \in L : k < j
      BY <3>1, Zenon
    <3>4. QED
      BY <1>8, <1>10, <3>1, <3>2, <3>3
  <2>2. QED
    BY <2>1 DEF Kept
<1>13. NodeOK(u, d, gs, n + 1)
  BY <1>0, <1>2, <1>3, NewNode
<1>14. /\ g.list = "body" => q = 1 /\ g.node = 0
       /\ g.list # "body" => q # 1 /\ g.list \in {"in1", "in2"} /\ g.node \in 1 .. n /\ g.node = old[q - 1]
  <2> HIDE DEF m, n, old, q
  <2>1. /\ fs[1].list = "body" /\ fs[1].node = 0
        /\ \A k \in 2 .. m : /\ fs[k].list \in {"in1", "in2"} /\ fs[k].node \in 1 .. n
                             /\ fs[k].node = old[k - 1]
    BY <1>5 DEF Leveled
  <2>2. q = 1 \/ q \in 2 .. m
    BY <1>6
  <2>3. CASE q = 1
    BY <1>two, <2>1, <2>3
  <2>4. CASE q \in 2 .. m
    <3>1. fs[q].list \in {"in1", "in2"} /\ fs[q].node \in 1 .. n /\ fs[q].node = old[q - 1] /\ q # 1
      BY <2>1, <2>4
    <3>2. QED
      BY <1>two, <3>1
  <2>5. QED
    BY <2>2, <2>3, <2>4
<1>15. bb \in {b, 1} /\ (1 \notin L => bb = b) /\ (g.list = "body" => bb = 1)
  <2>1. CASE g.list = "body"
    <3>1. (g.last = 0 => x = 1) /\ (g.last # 0 => b = 1) /\ q = 1
      BY <1>1, <1>14, <2>1 DEF SlotOK
    <3>2. QED
      BY <1>0, <2>1, <3>1
  <2>2. CASE g.list # "body"
    BY <1>0, <2>2
  <2>3. QED
    BY <2>1, <2>2
<1>16. SlotOK(u, bb, d, h, n + 2)
  <2>1. g.list = "body" => bb = 1
    BY <1>15
  <2>2. g = fs[q] /\ x = fs[m].node
    BY <1>1
  <2>3. SlotOK(u, bb, d, [fs[q] EXCEPT !.last = fs[m].node], n + 2)
    BY <1>0, <1>3, <2>1, <2>2, EndSlot
  <2>4. QED
    BY <2>2, <2>3
<1>17. /\ q = 1 => gs[q].node = 0 /\ gs[q].list = "body"
       /\ q > 1 => gs[q].node = open[q - 1] /\ gs[q].list \in {"in1", "in2"}
  <2>1. q > 1 => q # 1 /\ q - 1 \in 1 .. q - 1
    <3>1. q \in Nat
      BY <1>6, ZenonT(40)
    <3> HIDE DEF q
    <3>2. QED
      BY <3>1, SMTT(40)
  <2> HIDE DEF q, h, open, old
  <2>2. q > 1 => open[q - 1] = old[q - 1]
    BY <1>10, <2>1, Zenon
  <2>3. q = 1 => gs[q].node = 0 /\ gs[q].list = "body"
    BY <1>7, <1>8, <1>14, Zenon
  <2>4. q > 1 => gs[q].node = open[q - 1] /\ gs[q].list \in {"in1", "in2"}
    BY <1>7, <1>8, <1>14, <2>1, <2>2, Zenon
  <2>5. QED
    BY <2>3, <2>4
<1>18. SlotOK(u, bb, d, gs[q], Len(ns) + 2) /\ open = OpenAfter(d, Len(ns) + 1) /\ q = Len(gs)
  BY <1>8, <1>16
<1>19. L \subseteq 1 .. Len(fs)
  BY <1>1
<1> HIDE DEF h, open, old, m, q, L, n
<1>20. GoesOn(ns, b, u, bb, d, gs, L, q, open)
  BY <1>6, <1>8, <1>10, <1>13, <1>15, <1>17, <1>18, Zenon DEF GoesOn, n
<1>21. Tree(u, bb, d, gs)
  BY <1>0, <1>3, <1>11, <1>12, <1>19, <1>20, TreeGoesOn
<1>22. QED
  BY <1>15, <1>21

\* The end of the function.
LEMMA BodyEndKeeps ==
    ASSUME NEW ns, NEW b, NEW c, NEW fs, Tree(ns, b, c, fs), Last(fs).list = "body",
           NEW u, u = Linked(Append(ns, Fresh("end")), Last(fs), Len(ns) + 1),
           NEW bb, bb = (IF Last(fs).list = "body" /\ Last(fs).last = 0 THEN Len(ns) + 1 ELSE b),
           NEW d, d = TextOf(u)
    PROVE  /\ u \in Seq(NodeSet) /\ Len(u) = Len(ns) + 1 /\ u # <<>> /\ bb = 1
           /\ \A i \in 1 .. Len(u) : NodeOK(u, d, <<>>, i)
<1> DEFINE n == Len(ns)
           m == Len(fs)
           L == {m}
<1>1. "end" \in Opcodes /\ "end" \notin Openers
  BY DEF Opcodes, Openers
<1>2. ReadInto(ns, c, fs, L, "end", u)
  BY <1>1, ReadLinked
<1>3. Len(u) = n + 1 /\ u \in Seq(NodeSet) /\ n \in Nat
  BY <1>2 DEF ReadInto, Tree
<1>4. Leveled(ns, b, c, fs, n, m, OpenAfter(c, n))
  BY Levels DEF Tree
<1>5. m = 1 /\ Last(fs) = fs[1] /\ fs[1].node = 0
  BY LastOpen
<1>6. SlotOK(ns, b, c, fs[1], n + 1) /\ fs[1].last \in Nat
  <2>1. Begins(c, n, m) = n + 1 /\ 1 \in 1 .. m
    BY <1>4, <1>5 DEF Leveled
  <2>2. SlotOK(ns, b, c, fs[1], Begins(c, n, 1)) /\ fs[1] \in FrameSet
    BY <1>4, <2>1 DEF Leveled
  <2>3. QED
    BY <1>5, <2>1, <2>2 DEF FrameSet
<1>7. bb = 1
  <2>1. fs[1].last # 0 => b = 1
    BY <1>5, <1>6 DEF SlotOK
  <2>2. fs[1].last = 0 => n + 1 = 1
    BY <1>5, <1>6 DEF SlotOK
  <2>3. QED
    BY <1>5, <2>1, <2>2
<1>8. Pending(fs, L, "end", <<>>)
  <2>1. (1 .. Len(fs)) \ L = {} /\ \A k \in L : fs[k].node = 0
    BY <1>5
  <2>2. QED
    BY <2>1 DEF Pending
<1>9. L \in SUBSET (1 .. Len(fs))
  BY <1>5
<1>10. \A i \in 1 .. n : NodeOK(u, d, <<>>, i)
  BY <1>2, <1>8, <1>9, NextKept, In1Kept, In2Kept DEF NodeOK
<1>11. NodeOK(u, d, <<>>, n + 1)
  BY <1>1, <1>2, NewNode
<1> HIDE DEF n
<1>12. \A i \in 1 .. Len(u) : i \in 1 .. n \/ i = n + 1
  BY <1>3
<1>13. u # <<>>
  BY <1>3
<1>14. QED
  BY <1>3, <1>7, <1>10, <1>11, <1>12, <1>13 DEF n

-----------------------------------------------------------------------------
(* The decoder keeps the tree.                                             *)

\* A new node, as the code writes it.
LEMMA AllocIs ==
    ASSUME NEW t
    PROVE  Alloc(t) = Append(nodes, Fresh(t)) /\ New = Len(nodes) + 1
  BY DEF Alloc, Fresh, New, NULL

\* What TreeInv says while opcodes are read.
LEMMA TreeWhileDecoding ==
    ASSUME TreeInv, mode = "decode"
    PROVE  Tree(nodes, body, Text, frames) /\ Len(nodes) \in Nat /\ Text = TextOf(nodes)
  BY DEF TreeInv, TypeOK, Tree, Text, TextOf

\* Nothing has been read.
LEMMA InitTree ==
    ASSUME Init
    PROVE  TreeInv
<1>1. nodes = <<>> /\ body = 0 /\ frames = <<Frame(0, "body")>> /\ mode = "decode"
  BY DEF Init, NULL
<1>2. Frame(0, "body") \in FrameSet
  BY DEF Frame, FrameSet, NULL
<1>3. MaxInstrs \in Nat
  BY BodyAssumption
<1>4. TypeOK
  BY <1>1, <1>2, <1>3 DEF TypeOK
<1>5. Len(nodes) = 0 /\ \A i \in 1 .. Len(nodes) : NodeOK(nodes, Text, frames, i)
  BY <1>1
<1>6. OpenAfter(Text, 0) = <<>>
  BY OpenSteps
<1>7. FramesOK(nodes, body, Text, frames)
  <2>1. Len(frames) = 1 /\ frames[1] = Frame(0, "body")
    BY <1>1
  <2>2. Begins(Text, 0, 1) = 1
    BY <1>6 DEF Begins
  <2>3. SlotOK(nodes, body, Text, frames[1], 1)
    BY <1>1, <2>1 DEF SlotOK, Frame, NULL
  <2>4. frames[1].node = 0 /\ frames[1].list = "body"
    BY <2>1 DEF Frame
  <2>5. QED
    BY <1>5, <1>6, <2>1, <2>2, <2>3, <2>4 DEF FramesOK
<1>8. QED
  BY <1>1, <1>4, <1>5, <1>7 DEF TreeInv

\* A step that leaves the tree alone.
LEMMA TreeSame ==
    ASSUME TreeInv, nodes' = nodes, body' = body, frames' = frames,
           mode' \in {"decode", "refused", "ready", "run"},
           mode' \in {"decode", "refused"} => mode \in {"decode", "refused"},
           mode' \in {"ready", "run"} => mode \in {"ready", "run"}
    PROVE  TreeInv'
<1>1. Text' = Text
  BY DEF Text
<1>2. TypeOK'
  BY DEF TreeInv, TypeOK
<1>3. \A i \in 1 .. Len(nodes') : NodeOK(nodes', Text', frames', i)
  BY <1>1 DEF TreeInv
<1>4. mode' \in {"decode", "refused"} => FramesOK(nodes', body', Text', frames')
  BY <1>1 DEF TreeInv
<1>5. mode' \in {"ready", "run"} => frames' = <<>> /\ body' = 1 /\ nodes' # <<>>
  BY DEF TreeInv
<1>6. QED
  BY <1>2, <1>3, <1>4, <1>5 DEF TreeInv

\* A step that goes on decoding.
LEMMA TreeDecoded ==
    ASSUME TreeInv, Tree(nodes', body', Text', frames'), body' \in {0, 1},
           Len(nodes') <= MaxInstrs, mode' = "decode"
    PROVE  TreeInv'
<1>1. /\ nodes' \in Seq(NodeSet) /\ frames' \in Seq(FrameSet)
      /\ \A i \in 1 .. Len(nodes') : NodeOK(nodes', Text', frames', i)
      /\ FramesOK(nodes', body', Text', frames')
  BY DEF Tree
<1>2. TypeOK'
  BY <1>1 DEF TypeOK
<1>3. QED
  BY <1>1, <1>2 DEF TreeInv

\* How long the body is after an opcode.
LEMMA OneLonger ==
    ASSUME NEW ns, NEW c, NEW fs, NEW L, NEW t, NEW u, ReadInto(ns, c, fs, L, t, u),
           Len(ns) \in Nat, Len(ns) < MaxInstrs
    PROVE  Len(u) <= MaxInstrs
<1>1. Len(u) = Len(ns) + 1 /\ MaxInstrs \in Nat
  BY BodyAssumption DEF ReadInto
<1>2. QED
  BY <1>1

\* An opcode that a step reads.
LEMMA Reads ==
    ASSUME TreeInv, NEW t, Decoding(t)
    PROVE  /\ Tree(nodes, body, Text, frames) /\ Len(nodes) \in Nat /\ Len(nodes) < MaxInstrs
           /\ Alloc(t) = Append(nodes, Fresh(t)) /\ New = Len(nodes) + 1 /\ Top = Last(frames)
           /\ Text' = TextOf(nodes') /\ body \in {0, 1} /\ mode = "decode"
<1>1. mode = "decode" /\ Len(nodes) < MaxInstrs
  BY DEF Decoding
<1>2. Text' = TextOf(nodes')
  BY DEF Text, TextOf
<1>3. body \in {0, 1}
  BY DEF TreeInv, TypeOK
<1>4. QED
  BY <1>1, <1>2, <1>3, TreeWhileDecoding, AllocIs DEF Top

\* DecodeLeaf keeps the tree.
LEMMA LeafStep ==
    ASSUME TreeInv, NEW t, DecodeLeaf(t)
    PROVE  TreeInv'
<1>1. /\ Tree(nodes, body, Text, frames) /\ Len(nodes) \in Nat /\ Len(nodes) < MaxInstrs
      /\ Alloc(t) = Append(nodes, Fresh(t)) /\ New = Len(nodes) + 1 /\ Top = Last(frames)
      /\ Text' = TextOf(nodes') /\ body \in {0, 1} /\ mode = "decode"
  BY Reads DEF DecodeLeaf
<1>2. /\ t \in {"op", "else"} /\ (t = "else" => Last(frames).list # "in1")
      /\ nodes' = Linked(Append(nodes, Fresh(t)), Last(frames), Len(nodes) + 1)
      /\ body' = (IF Last(frames).list = "body" /\ Last(frames).last = 0 THEN Len(nodes) + 1 ELSE body)
      /\ frames' = Append(Front(frames), [Last(frames) EXCEPT !.last = Len(nodes) + 1])
      /\ mode' = "decode"
  BY <1>1 DEF DecodeLeaf, BodyHead, Behind, NULL
<1>3. Tree(nodes', body', Text', frames') /\ body' \in {body, 1}
  <2>1. LeafRead(nodes, body, frames, t, nodes', body', Text', frames')
    BY <1>1, <1>2 DEF LeafRead
  <2>2. QED
    BY <1>1, <2>1, LeafKeeps
<1>4. Len(nodes') <= MaxInstrs
  <2>1. t \in Opcodes
    BY <1>2 DEF Opcodes
  <2>2. ReadInto(nodes, Text, frames, {Len(frames)}, t, nodes')
    BY <1>1, <1>2, <2>1, ReadLinked
  <2>3. QED
    BY <1>1, <2>2, OneLonger
<1>5. QED
  BY <1>1, <1>2, <1>3, <1>4, TreeDecoded

\* DecodeElse keeps the tree.
LEMMA ElseStep ==
    ASSUME TreeInv, DecodeElse
    PROVE  TreeInv'
<1>1. /\ Tree(nodes, body, Text, frames) /\ Len(nodes) \in Nat /\ Len(nodes) < MaxInstrs
      /\ Alloc("else") = Append(nodes, Fresh("else")) /\ New = Len(nodes) + 1 /\ Top = Last(frames)
      /\ Text' = TextOf(nodes') /\ body \in {0, 1} /\ mode = "decode"
  BY Reads DEF DecodeElse
<1>2. /\ Last(frames).list = "in1" /\ "else" \in Opcodes
      /\ nodes' = Linked(Append(nodes, Fresh("else")), Last(frames), Len(nodes) + 1)
      /\ body' = body /\ mode' = "decode"
      /\ frames' = Append(Front(frames), Frame(Last(frames).node, "in2"))
  BY <1>1 DEF DecodeElse, Opcodes
<1>3. Tree(nodes', body', Text', frames')
  <2>1. ElseRead(nodes, frames, nodes', Text', frames')
    BY <1>1, <1>2 DEF ElseRead
  <2>2. QED
    BY <1>1, <1>2, <2>1, ElseKeeps
<1>4. Len(nodes') <= MaxInstrs
  <2>1. ReadInto(nodes, Text, frames, {Len(frames)}, "else", nodes')
    BY <1>1, <1>2, ReadLinked
  <2>2. QED
    BY <1>1, <2>1, OneLonger
<1>5. QED
  BY <1>1, <1>2, <1>3, <1>4, TreeDecoded

\* DecodeOpener keeps the tree.
LEMMA OpenerStep ==
    ASSUME TreeInv, NEW t, DecodeOpener(t)
    PROVE  TreeInv'
<1>1. /\ Tree(nodes, body, Text, frames) /\ Len(nodes) \in Nat /\ Len(nodes) < MaxInstrs
      /\ Alloc(t) = Append(nodes, Fresh(t)) /\ New = Len(nodes) + 1 /\ Top = Last(frames)
      /\ Text' = TextOf(nodes') /\ body \in {0, 1} /\ mode = "decode"
  BY Reads DEF DecodeOpener
<1>2. /\ t \in Openers /\ t \in Opcodes
      /\ nodes' = Append(nodes, Fresh(t)) /\ body' = body /\ mode' = "decode"
      /\ frames' = Append(frames, Frame(Len(nodes) + 1, "in1"))
  BY <1>1 DEF DecodeOpener, Openers, Structured, Opcodes
<1>3. Tree(nodes', body', Text', frames')
  <2>1. OpenerRead(nodes, frames, t, nodes', Text', frames')
    BY <1>1, <1>2 DEF OpenerRead
  <2>2. QED
    BY <1>1, <1>2, <2>1, OpenerKeeps
<1>4. Len(nodes') <= MaxInstrs
  <2>1. ReadInto(nodes, Text, frames, {}, t, nodes')
    BY <1>1, <1>2, ReadLoose
  <2>2. QED
    BY <1>1, <2>1, OneLonger
<1>5. QED
  BY <1>1, <1>2, <1>3, <1>4, TreeDecoded

\* DecodeEnd keeps the tree.
LEMMA EndStep ==
    ASSUME TreeInv, DecodeEnd
    PROVE  TreeInv'
<1>1. /\ Tree(nodes, body, Text, frames) /\ Len(nodes) \in Nat /\ Len(nodes) < MaxInstrs
      /\ Alloc("end") = Append(nodes, Fresh("end")) /\ New = Len(nodes) + 1 /\ Top = Last(frames)
      /\ Text' = TextOf(nodes') /\ body \in {0, 1} /\ mode = "decode"
  BY Reads DEF DecodeEnd
<1> DEFINE f == Last(frames)
           g == Last(Front(frames))
<1>2. /\ f.list # "body" /\ "end" \in Opcodes
      /\ nodes' = Linked(Linked(Append(nodes, Fresh("end")), f, Len(nodes) + 1), g, f.node)
      /\ body' = (IF g.list = "body" /\ g.last = 0 THEN f.node ELSE body)
      /\ frames' = Append(Front(Front(frames)), [g EXCEPT !.last = f.node])
      /\ mode' = "decode"
  BY <1>1 DEF DecodeEnd, BodyHead, Behind, NULL, Opcodes
<1>3. Tree(nodes', body', Text', frames') /\ body' \in {body, 1}
  <2>1. EndRead(nodes, body, frames, f, g, nodes', body', Text', frames')
    BY <1>1, <1>2 DEF EndRead
  <2>2. QED
    BY <1>1, <2>1, EndKeeps
<1>4. Len(nodes') <= MaxInstrs
  <2>1. ReadInto(nodes, Text, frames, {Len(frames) - 1, Len(frames)}, "end", nodes')
    BY <1>1, <1>2, ReadClosing
  <2>2. QED
    BY <1>1, <2>1, OneLonger
<1>5. QED
  BY <1>1, <1>2, <1>3, <1>4, TreeDecoded

\* DecodeBodyEnd leaves a tree to which nothing is missing.
LEMMA BodyEndStep ==
    ASSUME TreeInv, DecodeBodyEnd
    PROVE  TreeInv'
<1>1. /\ Tree(nodes, body, Text, frames) /\ Len(nodes) \in Nat /\ Len(nodes) < MaxInstrs
      /\ Alloc("end") = Append(nodes, Fresh("end")) /\ New = Len(nodes) + 1 /\ Top = Last(frames)
      /\ Text' = TextOf(nodes') /\ body \in {0, 1} /\ mode = "decode"
  BY Reads DEF DecodeBodyEnd
<1>2. /\ Last(frames).list = "body" /\ "end" \in Opcodes
      /\ nodes' = Linked(Append(nodes, Fresh("end")), Last(frames), Len(nodes) + 1)
      /\ body' = (IF Last(frames).list = "body" /\ Last(frames).last = 0 THEN Len(nodes) + 1 ELSE body)
      /\ frames' = <<>> /\ mode' = "ready"
  BY <1>1 DEF DecodeBodyEnd, BodyHead, NULL, Opcodes
<1>3. /\ nodes' \in Seq(NodeSet) /\ nodes' # <<>> /\ body' = 1
      /\ \A i \in 1 .. Len(nodes') : NodeOK(nodes', Text', <<>>, i)
  BY <1>1, <1>2, BodyEndKeeps
<1>4. Len(nodes') <= MaxInstrs
  <2>1. ReadInto(nodes, Text, frames, {Len(frames)}, "end", nodes')
    BY <1>1, <1>2, ReadLinked
  <2>2. QED
    BY <1>1, <2>1, OneLonger
<1>5. TypeOK' /\ <<>> \in Seq(FrameSet)
  BY <1>2, <1>3, <1>4 DEF TypeOK
<1>6. QED
  BY <1>2, <1>3, <1>5 DEF TreeInv

\* Running leaves the tree alone.
LEMMA Walks ==
    ASSUME TreeInv, Invoke \/ Execute
    PROVE  /\ nodes' = nodes /\ body' = body /\ frames' = frames
           /\ mode \in {"ready", "run"} /\ mode' \in {"ready", "run"}
<1>1. CASE Invoke
  BY <1>1 DEF Invoke
<1>2. CASE Execute
  <2>1. mode = "run"
    BY <1>2 DEF Execute
  <2>2. PICK i, ls : Continue(i, ls)
    BY <1>2, Zenon DEF Execute, Plain, Return, Enter, Skip, Leave, Branch
  <2>3. QED
    BY <2>1, <2>2 DEF Continue
<1>3. QED
  BY <1>1, <1>2

\* Every step keeps the tree.
LEMMA TreeStep ==
    ASSUME TreeInv, [Next]_vars
    PROVE  TreeInv'
<1>1. CASE \E t \in Opcodes : DecodeLeaf(t) \/ DecodeOpener(t)
  BY <1>1, LeafStep, OpenerStep
<1>2. CASE DecodeElse
  BY <1>2, ElseStep
<1>3. CASE DecodeEnd
  BY <1>3, EndStep
<1>4. CASE DecodeBodyEnd
  BY <1>4, BodyEndStep
<1>5. CASE DecodeError
  BY <1>5, TreeSame DEF DecodeError
<1>6. CASE Invoke \/ Execute
  BY <1>6, Walks, TreeSame
<1>7. CASE UNCHANGED vars
  <2>1. nodes' = nodes /\ body' = body /\ frames' = frames /\ mode' = mode
    BY <1>7 DEF vars
  <2>2. mode \in {"decode", "refused", "ready", "run"}
    BY DEF TreeInv, TypeOK
  <2>3. QED
    BY <2>1, <2>2, TreeSame
<1>8. QED
  BY <1>1, <1>2, <1>3, <1>4, <1>5, <1>6, <1>7 DEF Next

\* Each pointer of a body, however long and deep, leads where its text goes on.
THEOREM SpecTree == Spec => []TreeInv
  BY InitTree, TreeStep, PTL DEF Spec

-----------------------------------------------------------------------------
(* Every node is linked, once.                                             *)

\* Where a pointer is kept, and where an activation will put the next one.
Slots(n) == (1 .. n) \X {"next", "in1", "in2"} \cup {<<0, "body">>}
Field(ns, b, l) == IF l[2] = "body" THEN b ELSE ns[l[1]][l[2]]
Slot(f) ==
    IF f.last # 0 THEN <<f.last, "next">>
    ELSE IF f.list = "body" THEN <<0, "body">>
    ELSE <<f.node, f.list>>

\* The pointers that lead to i.
LinksOf(ns, b, i) == {l \in Slots(Len(ns)) : Field(ns, b, l) = i}

\* One pointer leads to a node that was read, none to a construct that is open.
LinkedOK(ns, b, c) ==
    \A i \in 1 .. Len(ns) :
        /\ Among(i, OpenAfter(c, Len(ns))) => LinksOf(ns, b, i) = {}
        /\ ~Among(i, OpenAfter(c, Len(ns))) => \E l : LinksOf(ns, b, i) = {l}

\* The head of the body, set by the activations in L.
BodySet(ns, b, c, fs, L, bb) ==
    \/ \E k \in L : fs[k].last = 0 /\ fs[k].list = "body" /\ bb = Begins(c, Len(ns), k)
    \/ (\A k \in L : ~(fs[k].last = 0 /\ fs[k].list = "body")) /\ bb = b

\* The slots are there, and empty.
LEMMA SlotsEmpty ==
    ASSUME NEW ns, NEW b, NEW c, NEW fs, Tree(ns, b, c, fs), NEW k \in 1 .. Len(fs)
    PROVE  Slot(fs[k]) \in Slots(Len(ns)) /\ Field(ns, b, Slot(fs[k])) = 0
<1> DEFINE n == Len(ns)
           m == Len(fs)
           f == fs[k]
<1>1. Leveled(ns, b, c, fs, n, m, OpenAfter(c, n))
  BY Levels DEF Tree
<1>2. k = 1 \/ k \in 2 .. m
  BY <1>1 DEF Leveled
<1>3. /\ f \in FrameSet /\ SlotOK(ns, b, c, f, Begins(c, n, k)) /\ f.last \in 0 .. n
      /\ f.list = "body" \/ (f.list \in {"in1", "in2"} /\ f.node \in 1 .. n)
  BY <1>1, <1>2 DEF Leveled
<1> HIDE DEF n, m, f
<1>4. CASE f.last # 0
  <2>1. f.last \in 1 .. n /\ ns[f.last].next = 0 /\ Slot(f) = <<f.last, "next">>
    BY <1>3, <1>4 DEF SlotOK, Slot
  <2>2. QED
    BY <2>1 DEF Slots, Field, n, f
<1>5. CASE f.last = 0 /\ f.list = "body"
  <2>1. b = 0 /\ Slot(f) = <<0, "body">>
    BY <1>3, <1>5 DEF SlotOK, Slot
  <2>2. QED
    BY <2>1 DEF Slots, Field, n, f
<1>6. CASE f.last = 0 /\ f.list = "in1"
  <2>1. f.node \in 1 .. n /\ ns[f.node].in1 = 0 /\ Slot(f) = <<f.node, "in1">>
    BY <1>3, <1>6 DEF SlotOK, Slot
  <2>2. QED
    BY <2>1 DEF Slots, Field, n, f
<1>7. CASE f.last = 0 /\ f.list = "in2"
  <2>1. f.node \in 1 .. n /\ ns[f.node].in2 = 0 /\ Slot(f) = <<f.node, "in2">>
    BY <1>3, <1>7 DEF SlotOK, Slot
  <2>2. QED
    BY <2>1 DEF Slots, Field, n, f
<1>8. QED
  BY <1>3, <1>4, <1>5, <1>6, <1>7

\* Two activations have different slots, and different constructs go there.
LEMMA SlotsDistinct ==
    ASSUME NEW ns, NEW b, NEW c, NEW fs, Tree(ns, b, c, fs),
           NEW k \in 1 .. Len(fs), NEW j \in 1 .. Len(fs), k < j
    PROVE  /\ Slot(fs[k]) # Slot(fs[j])
           /\ Begins(c, Len(ns), k) # Begins(c, Len(ns), j)
<1> DEFINE n == Len(ns)
           m == Len(fs)
           f == fs[k]
           g == fs[j]
<1>1. Leveled(ns, b, c, fs, n, m, OpenAfter(c, n))
  BY Levels DEF Tree
<1>2. /\ f.node < g.node /\ f.last < g.node /\ g.node \in 1 .. n
      /\ g.last # 0 => f.last < g.last
  BY LevelsOrdered DEF Tree
<1>3. j \in 2 .. m /\ k \in 1 .. m - 1 /\ k + 1 \in 2 .. m /\ m \in Nat /\ n \in Nat
  BY <1>1 DEF Leveled
<1>4. f \in FrameSet /\ g \in FrameSet /\ g.list \in {"in1", "in2"}
  BY <1>1, <1>3 DEF Leveled
<1>5. Begins(c, n, k) = fs[k + 1].node /\ Begins(c, n, m) = n + 1 /\ fs[k + 1].node \in 1 .. n
  BY <1>1, <1>3 DEF Leveled
<1>6. Begins(c, n, k) # Begins(c, n, j)
  <2>1. CASE j = m
    BY <1>3, <1>5, <2>1
  <2>2. CASE j # m
    <3>1. j \in 1 .. m - 1 /\ j + 1 \in 1 .. m /\ k + 1 \in 1 .. m /\ k + 1 < j + 1
      BY <1>3, <2>2
    <3>2. Begins(c, n, j) = fs[j + 1].node
      BY <1>1, <3>1 DEF Leveled
    <3>3. fs[k + 1].node < fs[j + 1].node
      BY <3>1, LevelsOrdered DEF Tree
    <3>4. fs[j + 1].node \in 1 .. n
      BY <1>1, <3>1, <1>3 DEF Leveled
    <3>5. QED
      BY <1>5, <3>2, <3>3, <3>4
  <2>3. QED
    BY <2>1, <2>2
<1>7. Slot(f) # Slot(g)
  <2> DEFINE x == f.last
             y == g.last
             p == f.node
             q == g.node
  <2>1. x \in Nat /\ y \in Nat /\ p \in Nat /\ q \in Nat /\ p < q /\ x < q /\ (y # 0 => x < y)
    BY <1>2, <1>4 DEF FrameSet
  <2>2. Slot(f) \in {<<x, "next">>, <<0, "body">>, <<p, f.list>>}
    BY DEF Slot
  <2>3. Slot(g) = (IF y # 0 THEN <<y, "next">> ELSE <<q, g.list>>)
    BY <1>4 DEF Slot
  <2>4. (x # 0 /\ Slot(f) = <<x, "next">>) \/ Slot(f) = <<0, "body">> \/ Slot(f) = <<p, f.list>>
    BY DEF Slot
  <2>5. f.list \in {"body", "in1", "in2"}
    BY <1>4 DEF FrameSet
  <2> HIDE DEF x, y, p, q
  <2>6. CASE y # 0
    BY <2>1, <2>3, <2>4, <2>5, <2>6
  <2>7. CASE y = 0
    BY <1>4, <2>1, <2>3, <2>4, <2>7
  <2>8. QED
    BY <2>6, <2>7
<1>8. QED
  BY <1>6, <1>7

\* What an opcode sets is the slots of the activations in L.
LEMMA FieldSet ==
    ASSUME NEW ns, NEW b, NEW c, NEW fs, Tree(ns, b, c, fs), NEW L \in SUBSET (1 .. Len(fs)), NEW t,
           NEW u, ReadInto(ns, c, fs, L, t, u), NEW bb, BodySet(ns, b, c, fs, L, bb),
           NEW l \in Slots(Len(ns))
    PROVE  \/ \E k \in L : Slot(fs[k]) = l /\ Field(u, bb, l) = Begins(c, Len(ns), k)
           \/ (\A k \in L : Slot(fs[k]) # l) /\ Field(u, bb, l) = Field(ns, b, l)
<1> DEFINE n == Len(ns)
<1>1. /\ \A k \in L : fs[k] \in FrameSet
      /\ \A j \in 1 .. n : /\ NextSet(ns, c, fs, L, u, j)
                            /\ In1Set(ns, c, fs, L, u, j) /\ In2Set(ns, c, fs, L, u, j)
  BY DEF Tree, ReadInto
<1>2. \A k \in L : fs[k].list \in {"body", "in1", "in2"}
  BY <1>1 DEF FrameSet
<1>3. CASE l = <<0, "body">>
  <2>1. Field(u, bb, l) = bb /\ Field(ns, b, l) = b
    BY <1>3 DEF Field
  <2>2. \A k \in L : fs[k].last = 0 /\ fs[k].list = "body" <=> Slot(fs[k]) = l
    BY <1>2, <1>3 DEF Slot
  <2>3. QED
    BY <2>1, <2>2, Zenon DEF BodySet
<1>4. ASSUME NEW j \in 1 .. n, l = <<j, "next">>
      PROVE  \/ \E k \in L : Slot(fs[k]) = l /\ Field(u, bb, l) = Begins(c, n, k)
             \/ (\A k \in L : Slot(fs[k]) # l) /\ Field(u, bb, l) = Field(ns, b, l)
  <2>1. Field(u, bb, l) = u[j].next /\ Field(ns, b, l) = ns[j].next /\ j # 0
    BY <1>4 DEF Field
  <2>2. \A k \in L : fs[k].last = j <=> Slot(fs[k]) = l
    BY <1>2, <1>4, <2>1 DEF Slot
  <2>3. NextSet(ns, c, fs, L, u, j)
    BY <1>1
  <2>4. QED
    BY <2>1, <2>2, <2>3, Zenon DEF NextSet, n
<1>5. ASSUME NEW j \in 1 .. n, l = <<j, "in1">>
      PROVE  \/ \E k \in L : Slot(fs[k]) = l /\ Field(u, bb, l) = Begins(c, n, k)
             \/ (\A k \in L : Slot(fs[k]) # l) /\ Field(u, bb, l) = Field(ns, b, l)
  <2>1. Field(u, bb, l) = u[j].in1 /\ Field(ns, b, l) = ns[j].in1
    BY <1>5 DEF Field
  <2>2. \A k \in L : fs[k].last = 0 /\ fs[k].list = "in1" /\ fs[k].node = j <=> Slot(fs[k]) = l
    BY <1>2, <1>5 DEF Slot
  <2>3. In1Set(ns, c, fs, L, u, j)
    BY <1>1
  <2>4. QED
    BY <2>1, <2>2, <2>3, Zenon DEF In1Set, n
<1>6. ASSUME NEW j \in 1 .. n, l = <<j, "in2">>
      PROVE  \/ \E k \in L : Slot(fs[k]) = l /\ Field(u, bb, l) = Begins(c, n, k)
             \/ (\A k \in L : Slot(fs[k]) # l) /\ Field(u, bb, l) = Field(ns, b, l)
  <2>1. Field(u, bb, l) = u[j].in2 /\ Field(ns, b, l) = ns[j].in2
    BY <1>6 DEF Field
  <2>2. \A k \in L : fs[k].last = 0 /\ fs[k].list = "in2" /\ fs[k].node = j <=> Slot(fs[k]) = l
    BY <1>2, <1>6 DEF Slot
  <2>3. In2Set(ns, c, fs, L, u, j)
    BY <1>1
  <2>4. QED
    BY <2>1, <2>2, <2>3, Zenon DEF In2Set, n
<1>7. \/ l = <<0, "body">>
      \/ \E j \in 1 .. n : l \in {<<j, "next">>, <<j, "in1">>, <<j, "in2">>}
  BY DEF Slots
<1>8. QED
  BY <1>3, <1>4, <1>5, <1>6, <1>7, Zenon DEF n

\* Pointers lead to what has been read.
LEMMA FieldBound ==
    ASSUME NEW ns, NEW b, NEW c, NEW fs, Tree(ns, b, c, fs), NEW l \in Slots(Len(ns))
    PROVE  Field(ns, b, l) # Len(ns) + 1
<1> DEFINE n == Len(ns)
<1>1. ns \in Seq(NodeSet) /\ n \in Nat
  BY DEF Tree
<1>2. CASE l = <<0, "body">>
  <2>1. Leveled(ns, b, c, fs, n, Len(fs), OpenAfter(c, n))
    BY Levels DEF Tree
  <2>2. /\ SlotOK(ns, b, c, fs[1], Begins(c, n, 1)) /\ fs[1].list = "body"
        /\ fs[1].last \in 0 .. n
    BY <2>1 DEF Leveled
  <2>3. b = 0 \/ (b = 1 /\ n # 0)
    BY <1>1, <2>2 DEF SlotOK
  <2>4. Field(ns, b, l) = b
    BY <1>2 DEF Field
  <2>5. QED
    BY <1>1, <2>3, <2>4
<1>3. ASSUME NEW j \in 1 .. n, l \in {<<j, "next">>, <<j, "in1">>, <<j, "in2">>}
      PROVE  Field(ns, b, l) # n + 1
  <2>1. ns[j] \in NodeSet
    BY <1>1
  <2>2. ns[j].next \in Nat /\ ns[j].in1 \in Nat /\ ns[j].in2 \in Nat
    BY <2>1 DEF NodeSet
  <2>3. NodeOK(ns, c, fs, j)
    BY DEF Tree
  <2>4. /\ ns[j].next # 0 => ns[j].next <= n
        /\ ns[j].in1 # 0 => ns[j].in1 <= n
        /\ ns[j].in2 # 0 => ns[j].in2 <= n
    BY <2>3, Zenon DEF NodeOK, NextOK, In1OK, In2OK
  <2>5. Field(ns, b, l) \in {ns[j].next, ns[j].in1, ns[j].in2}
    BY <1>3 DEF Field
  <2> HIDE DEF n
  <2>6. ns[j].next # n + 1 /\ ns[j].in1 # n + 1 /\ ns[j].in2 # n + 1
    BY <1>1, <2>2, <2>4
  <2>7. QED
    BY <2>5, <2>6
<1>4. l = <<0, "body">> \/ \E j \in 1 .. n : l \in {<<j, "next">>, <<j, "in1">>, <<j, "in2">>}
  BY DEF Slots
<1>5. QED
  BY <1>2, <1>3, <1>4, Zenon DEF n

\* What L has been reading ends in a construct that is closed or in an instruction.
Closes(c, n, L, d) ==
    \A i \in 1 .. n + 1 :
        Among(i, OpenAfter(d, n + 1)) <=>
            /\ i <= n => Among(i, OpenAfter(c, n))
            /\ \A k \in L : Begins(c, n, k) # i

\* No pointer leads yet to what is about to be linked.
LEMMA NotYetLinked ==
    ASSUME NEW ns, NEW b, NEW c, NEW fs, Tree(ns, b, c, fs), LinkedOK(ns, b, c),
           NEW k \in 1 .. Len(fs), NEW l \in Slots(Len(ns))
    PROVE  Field(ns, b, l) # Begins(c, Len(ns), k)
<1> DEFINE n == Len(ns)
           m == Len(fs)
           open == OpenAfter(c, n)
<1>1. Leveled(ns, b, c, fs, n, m, open)
  BY Levels DEF Tree
<1>2. m \in Nat \ {0} /\ n \in Nat /\ Begins(c, n, m) = n + 1
  BY <1>1 DEF Leveled
<1>3. CASE k = m
  BY <1>2, <1>3, FieldBound
<1>4. CASE k # m
  <2>1. k \in 1 .. m - 1
    BY <1>2, <1>4
  <2>2. Begins(c, n, k) = open[k] /\ k \in 1 .. Len(open)
    BY <2>1, OuterBegins
  <2>3. open[k] \in 1 .. n
    <3>1. Nested(c, n, open)
      BY <1>2, OpenNested
    <3> HIDE DEF open
    <3>2. QED
      BY <2>2, <3>1 DEF Nested
  <2>4. Among(open[k], open)
    BY <2>2 DEF Among
  <2>5. LinksOf(ns, b, open[k]) = {}
    BY <2>3, <2>4 DEF LinkedOK
  <2>6. QED
    BY <2>2, <2>5 DEF LinksOf
<1>5. QED
  BY <1>3, <1>4

\* An opcode links what it closes, and leaves the other pointers alone.
LEMMA LinksGoOn ==
    ASSUME NEW ns, NEW b, NEW c, NEW fs, Tree(ns, b, c, fs), LinkedOK(ns, b, c),
           NEW L \in SUBSET (1 .. Len(fs)), NEW t, NEW u, ReadInto(ns, c, fs, L, t, u),
           NEW bb, BodySet(ns, b, c, fs, L, bb), NEW d, Closes(c, Len(ns), L, d)
    PROVE  LinkedOK(u, bb, d)
<1> DEFINE n == Len(ns)
           old == OpenAfter(c, n)
           open == OpenAfter(d, n + 1)
           B(k) == Begins(c, n, k)
<1>1. n \in Nat /\ Len(u) = n + 1
  BY DEF Tree, ReadInto
<1>2. \A l \in Slots(n) : \/ \E k \in L : Slot(fs[k]) = l /\ Field(u, bb, l) = B(k)
                          \/ (\A k \in L : Slot(fs[k]) # l) /\ Field(u, bb, l) = Field(ns, b, l)
  BY FieldSet
<1>3. \A k \in L : Slot(fs[k]) \in Slots(n) /\ Field(ns, b, Slot(fs[k])) = 0
  BY SlotsEmpty
<1>4. \A k, j \in L : k # j => Slot(fs[k]) # Slot(fs[j]) /\ B(k) # B(j)
  <2>1. \A k, j \in L : k \in 1 .. Len(fs) /\ j \in 1 .. Len(fs) /\ (k # j => k < j \/ j < k)
    OBVIOUS
  <2>2. QED
    BY <2>1, SlotsDistinct
<1>5. \A k \in L : \A l \in Slots(n) : Field(ns, b, l) # B(k)
  BY NotYetLinked
<1>6. \A l \in Slots(n + 1) :
          l \in Slots(n) \/ (l \in {n + 1} \X {"next", "in1", "in2"} /\ Field(u, bb, l) = 0)
  <2>1. SUFFICES ASSUME NEW l \in Slots(n + 1), l \notin Slots(n)
                 PROVE  l \in {n + 1} \X {"next", "in1", "in2"} /\ Field(u, bb, l) = 0
    OBVIOUS
  <2>2. l \in {n + 1} \X {"next", "in1", "in2"}
    <3> HIDE DEF n
    <3>1. PICK j \in 1 .. n + 1, a \in {"next", "in1", "in2"} : l = <<j, a>>
      BY <2>1 DEF Slots
    <3>2. j \notin 1 .. n
      BY <2>1, <3>1 DEF Slots
    <3>3. j = n + 1
      BY <1>1, <3>1, <3>2
    <3>4. QED
      BY <3>1, <3>3
  <2>3. u[n + 1] = Fresh(t)
    BY DEF ReadInto
  <2>4. Field(u, bb, l) = 0
    BY <2>2, <2>3 DEF Field, Fresh
  <2>5. QED
    BY <2>2, <2>4
<1>7. Slots(n) \subseteq Slots(n + 1)
  <2>1. 1 .. n \subseteq 1 .. n + 1
    BY <1>1
  <2>2. QED
    BY <2>1 DEF Slots
<1>8. \A i \in 1 .. n + 1 : \/ i \in 1 .. n /\ i <= n
                            \/ i = n + 1 /\ ~(i <= n) /\ LinksOf(ns, b, i) = {}
  <2>1. \A l \in Slots(n) : Field(ns, b, l) # n + 1
    BY FieldBound
  <2>2. LinksOf(ns, b, n + 1) = {}
    BY <2>1 DEF LinksOf
  <2>3. QED
    BY <1>1, <2>2
<1>9. /\ \A i \in 1 .. n : (Among(i, old) => LinksOf(ns, b, i) = {})
                           /\ (~Among(i, old) => \E l : LinksOf(ns, b, i) = {l})
      /\ \A i \in 1 .. n + 1 : Among(i, open) <=> (i <= n => Among(i, old)) /\ \A k \in L : B(k) # i
  BY Zenon DEF LinkedOK, Closes
<1>10. /\ \A i : LinksOf(ns, b, i) = {l \in Slots(n) : Field(ns, b, l) = i}
       /\ \A i : LinksOf(u, bb, i) = {l \in Slots(n + 1) : Field(u, bb, l) = i}
  BY <1>1 DEF LinksOf
<1> HIDE DEF n, old, open, B
<1>11. ASSUME NEW i \in 1 .. n + 1
       PROVE  /\ Among(i, open) => LinksOf(u, bb, i) = {}
              /\ ~Among(i, open) => \E l : LinksOf(u, bb, i) = {l}
  <2>1. i # 0
    BY <1>1
  <2>2. CASE \E k \in L : B(k) = i
    <3>1. PICK k \in L : B(k) = i
      BY <2>2
    <3>2. \A l \in LinksOf(u, bb, i) : l = Slot(fs[k])
      <4>1. SUFFICES ASSUME NEW l \in Slots(n + 1), Field(u, bb, l) = i
                     PROVE  l = Slot(fs[k])
        BY <1>10
      <4>2. l \in Slots(n)
        BY <1>6, <2>1, <4>1
      <4>3. QED
        BY <1>2, <1>4, <1>5, <3>1, <4>1, <4>2
    <3>3. Slot(fs[k]) \in LinksOf(u, bb, i)
      <4>1. Slot(fs[k]) \in Slots(n) /\ Slot(fs[k]) \in Slots(n + 1)
        BY <1>3, <1>7
      <4>2. Field(u, bb, Slot(fs[k])) = i
        BY <1>2, <1>4, <3>1, <4>1
      <4>3. QED
        BY <1>10, <4>1, <4>2
    <3>4. LinksOf(u, bb, i) = {Slot(fs[k])}
      BY <3>2, <3>3
    <3>5. ~Among(i, open)
      BY <1>9, <3>1
    <3>6. QED
      BY <3>4, <3>5
  <2>3. CASE \A k \in L : B(k) # i
    <3>1. LinksOf(u, bb, i) = LinksOf(ns, b, i)
      <4>1. \A l \in Slots(n) : Field(u, bb, l) = i <=> Field(ns, b, l) = i
        BY <1>2, <1>3, <2>1, <2>3
      <4>2. \A l \in Slots(n + 1) : Field(u, bb, l) = i => l \in Slots(n)
        BY <1>6, <2>1
      <4>3. QED
        BY <1>7, <1>10, <4>1, <4>2
    <3>2. CASE i \in 1 .. n /\ i <= n
      BY <1>9, <2>3, <3>1, <3>2
    <3>3. CASE i = n + 1 /\ ~(i <= n) /\ LinksOf(ns, b, i) = {}
      BY <1>9, <2>3, <3>1, <3>3
    <3>4. QED
      BY <1>8, <3>2, <3>3
  <2>4. QED
    BY <2>2, <2>3
<1>12. QED
  BY <1>1, <1>11 DEF LinkedOK, open

\* What the last activation links at once.
PlainRead(ns, b, fs, t, u, bb, d) ==
    /\ t \in Opcodes \ Openers /\ (t = "end" => Last(fs).list = "body")
    /\ u = Linked(Append(ns, Fresh(t)), Last(fs), Len(ns) + 1)
    /\ bb = (IF Last(fs).list = "body" /\ Last(fs).last = 0 THEN Len(ns) + 1 ELSE b)
    /\ d = TextOf(u)

\* It is linked.
LEMMA PlainLinks ==
    ASSUME NEW ns, NEW b, NEW c, NEW fs, Tree(ns, b, c, fs), LinkedOK(ns, b, c),
           NEW t, NEW u, NEW bb, NEW d, PlainRead(ns, b, fs, t, u, bb, d)
    PROVE  /\ LinkedOK(u, bb, d)
           /\ Len(u) = Len(ns) + 1 /\ OpenAfter(d, Len(ns) + 1) = OpenAfter(c, Len(ns))
<1> DEFINE n == Len(ns)
           m == Len(fs)
           L == {m}
           old == OpenAfter(c, n)
<1>1. /\ t \in Opcodes /\ t \notin Openers /\ (t = "end" => Last(fs).list = "body")
      /\ u = Linked(Append(ns, Fresh(t)), Last(fs), n + 1) /\ d = TextOf(u)
      /\ bb = (IF Last(fs).list = "body" /\ Last(fs).last = 0 THEN n + 1 ELSE b)
  BY DEF PlainRead
<1>2. ReadInto(ns, c, fs, L, t, u)
  BY <1>1, ReadLinked
<1>3. Leveled(ns, b, c, fs, n, m, old)
  BY Levels DEF Tree
<1>4. m \in Nat \ {0} /\ n \in Nat /\ m \in 1 .. m /\ Begins(c, n, m) = n + 1
  BY <1>3 DEF Leveled
<1>5. Last(fs) = fs[m]
  BY LastOpen
<1>6. BodySet(ns, b, c, fs, L, bb)
  <2>1. BodySet(ns, b, c, fs, L, bb) <=>
          \/ fs[m].last = 0 /\ fs[m].list = "body" /\ bb = Begins(c, n, m)
          \/ ~(fs[m].last = 0 /\ fs[m].list = "body") /\ bb = b
    BY DEF BodySet
  <2>2. QED
    BY <1>1, <1>4, <1>5, <2>1
<1>7. OpenAfter(d, n + 1) = old
  <2>1. OneMore(c, d, n) /\ d[n + 1] = t
    BY <1>1, <1>2, ReadText
  <2>2. OpenAfter(d, n + 1) = Opened(d, n + 1, old)
    BY <2>1, OneMoreOpcode
  <2>3. t = "end" => old = <<>>
    BY <1>1, LastOpen
  <2>4. QED
    BY <1>1, <2>1, <2>2, <2>3, Zenon DEF Opened
<1>8. \A i \in 1 .. n + 1 : Among(i, old) => i <= n
  <2>1. Nested(c, n, old)
    BY <1>4, OpenNested
  <2> HIDE DEF old, n
  <2>2. QED
    BY <1>4, <2>1 DEF Nested, Among
<1>9. Closes(c, n, L, d)
  <2>1. \A i \in 1 .. n + 1 : (\A k \in L : Begins(c, n, k) # i) <=> i # n + 1
    BY <1>4
  <2>2. \A i \in 1 .. n + 1 : i <= n <=> i # n + 1
    BY <1>4
  <2> HIDE DEF n, m, L, old
  <2>3. QED
    BY <1>7, <1>8, <2>1, <2>2 DEF Closes, old
<1>10. L \in SUBSET (1 .. Len(fs))
  BY <1>4
<1>11. LinkedOK(u, bb, d)
  BY <1>2, <1>6, <1>9, <1>10, LinksGoOn
<1>12. Len(u) = n + 1
  BY <1>2 DEF ReadInto
<1>13. QED
  BY <1>7, <1>11, <1>12

\* A construct is not linked when it opens.
LEMMA OpenerLinks ==
    ASSUME NEW ns, NEW b, NEW c, NEW fs, Tree(ns, b, c, fs), LinkedOK(ns, b, c),
           NEW t, NEW u, NEW d, NEW gs, OpenerRead(ns, fs, t, u, d, gs)
    PROVE  LinkedOK(u, b, d)
<1> DEFINE n == Len(ns)
           old == OpenAfter(c, n)
           L == {}
<1>1. /\ t \in Openers /\ t \in Opcodes /\ u = Append(ns, Fresh(t)) /\ d = TextOf(u)
  BY DEF OpenerRead, Openers, Opcodes, Structured
<1>2. ReadInto(ns, c, fs, L, t, u)
  BY <1>1, ReadLoose
<1>3. BodySet(ns, b, c, fs, L, b)
  BY DEF BodySet
<1>4. OneMore(c, d, n) /\ d[n + 1] = t /\ n \in Nat
  BY <1>1, <1>2, ReadText DEF OneMore
<1>5. OpenAfter(d, n + 1) = Append(old, n + 1)
  <2>1. OpenAfter(d, n + 1) = Opened(d, n + 1, old)
    BY <1>4, OneMoreOpcode
  <2>2. QED
    BY <1>1, <1>4, <2>1, Zenon DEF Opened
<1>6. Nested(c, n, old)
  BY <1>4, OpenNested
<1>7. Closes(c, n, L, d)
  <2> DEFINE open == Append(old, n + 1)
  <2> HIDE DEF n, old
  <2>1. /\ Len(old) \in Nat /\ Len(open) = Len(old) + 1 /\ open[Len(old) + 1] = n + 1
        /\ \A k \in 1 .. Len(old) : open[k] = old[k] /\ old[k] \in 1 .. n
    BY <1>6 DEF Nested
  <2> HIDE DEF open
  <2>2. \A i : Among(i, open) <=> Among(i, old) \/ i = n + 1
    BY <2>1 DEF Among
  <2>3. \A i \in 1 .. n + 1 : i <= n <=> i # n + 1
    BY <1>4
  <2>4. \A i : Among(i, old) => i # n + 1
    BY <1>4, <2>1 DEF Among
  <2>5. \A i : Among(i, OpenAfter(d, n + 1)) <=> Among(i, old) \/ i = n + 1
    BY <1>5, <2>2 DEF open
  <2>6. QED
    BY <2>3, <2>4, <2>5 DEF Closes, old
<1>8. L \in SUBSET (1 .. Len(fs))
  OBVIOUS
<1>9. QED
  BY <1>2, <1>3, <1>7, <1>8, LinksGoOn

\* With its end a construct is linked.
LEMMA EndLinks ==
    ASSUME NEW ns, NEW b, NEW c, NEW fs, Tree(ns, b, c, fs), LinkedOK(ns, b, c),
           NEW f, NEW g, NEW u, NEW bb, NEW d, NEW gs, EndRead(ns, b, fs, f, g, u, bb, d, gs)
    PROVE  LinkedOK(u, bb, d)
<1> DEFINE n == Len(ns)
           m == Len(fs)
           q == m - 1
           L == {q, m}
           old == OpenAfter(c, n)
<1>1. /\ Last(fs).list # "body" /\ d = TextOf(u) /\ f = Last(fs) /\ g = Last(Front(fs))
      /\ u = Linked(Linked(Append(ns, Fresh("end")), Last(fs), n + 1), Last(Front(fs)), Last(fs).node)
      /\ bb = (IF g.list = "body" /\ g.last = 0 THEN f.node ELSE b)
      /\ "end" \in Opcodes /\ "end" \notin Openers
  BY DEF EndRead, Opcodes, Openers
<1>2. ReadInto(ns, c, fs, L, "end", u)
  BY <1>1, ReadClosing
<1>3. /\ m \in Nat /\ m > 1 /\ q \in 1 .. m /\ n \in Nat
      /\ Last(fs) = fs[m] /\ Last(Front(fs)) = fs[q] /\ fs[m].list # "body"
      /\ Begins(c, n, q) = fs[m].node /\ Begins(c, n, m) = n + 1
  BY <1>1, LastTwo, SMTT(40)
<1>4. BodySet(ns, b, c, fs, L, bb)
  <2> HIDE DEF q, m, n
  <2>1. CASE fs[q].last = 0 /\ fs[q].list = "body"
    <3>1. bb = Begins(c, n, q) /\ q \in L
      BY <1>1, <1>3, <2>1
    <3>2. QED
      BY <2>1, <3>1 DEF BodySet, n
  <2>2. CASE ~(fs[q].last = 0 /\ fs[q].list = "body")
    <3>1. bb = b
      BY <1>1, <1>3, <2>2
    <3>2. \A k \in L : ~(fs[k].last = 0 /\ fs[k].list = "body")
      BY <1>3, <2>2
    <3>3. QED
      BY <3>1, <3>2 DEF BodySet
  <2>3. QED
    BY <2>1, <2>2
<1>5. OneMore(c, d, n) /\ d[n + 1] = "end"
  BY <1>1, <1>2, ReadText
<1>6. old # <<>> /\ Last(old) = fs[m].node
  BY <1>1, <1>3, LastOpen
<1>7. OpenAfter(d, n + 1) = Front(old)
  <2>1. OpenAfter(d, n + 1) = Opened(d, n + 1, old)
    BY <1>5, OneMoreOpcode
  <2>2. QED
    BY <1>1, <1>5, <1>6, <2>1, Zenon DEF Opened
<1>8. Nested(c, n, old)
  BY <1>3, OpenNested
<1>9. Closes(c, n, L, d)
  <2> DEFINE open == Front(old)
             x == fs[m].node
  <2> HIDE DEF n, old, m, q, x
  <2>1. /\ old \in Seq(Nat) /\ \A k \in 1 .. Len(old) : old[k] \in 1 .. n
        /\ \A k, j \in 1 .. Len(old) : k < j => old[k] < old[j]
    BY <1>8 DEF Nested
  <2>2. /\ Len(open) = Len(old) - 1 /\ Len(old) \in Nat \ {0}
        /\ \A k \in 1 .. Len(old) - 1 : open[k] = old[k]
        /\ old[Len(old)] = x
    BY <1>6, <2>1, FrontOf DEF x
  <2> HIDE DEF open
  <2>3. \A i : Among(i, open) <=> Among(i, old) /\ i # x
    <3>1. \A k \in 1 .. Len(old) : k \in 1 .. Len(old) - 1 \/ k = Len(old)
      BY <2>2
    <3>2. \A k \in 1 .. Len(old) - 1 : k \in 1 .. Len(old) /\ k < Len(old) /\ Len(old) \in 1 .. Len(old)
      BY <2>2
    <3>3. \A k \in 1 .. Len(old) - 1 : old[k] # x
      BY <2>1, <2>2, <3>2
    <3>4. QED
      BY <2>2, <3>1, <3>2, <3>3 DEF Among
  <2>4. \A i \in 1 .. n + 1 : i <= n <=> i # n + 1
    BY <1>3
  <2>5. \A i : Among(i, old) => i # n + 1
    BY <1>3, <2>1 DEF Among
  <2>6. \A i : (\A k \in L : Begins(c, n, k) # i) <=> i # x /\ i # n + 1
    BY <1>3 DEF x
  <2>7. \A i : Among(i, OpenAfter(d, n + 1)) <=> Among(i, old) /\ i # x
    BY <1>7, <2>3 DEF open
  <2> HIDE DEF L
  <2>8. QED
    BY <2>4, <2>5, <2>6, <2>7 DEF Closes, old
<1>10. L \in SUBSET (1 .. Len(fs))
  BY <1>3
<1>11. QED
  BY <1>2, <1>4, <1>9, <1>10, LinksGoOn

LinksInv ==
    /\ LinkedOK(nodes, body, Text)
    /\ mode \in {"ready", "run"} => OpenAfter(Text, Len(nodes)) = <<>>

\* A step that leaves the nodes alone.
LEMMA LinksSame ==
    ASSUME LinksInv, nodes' = nodes, body' = body,
           mode' \in {"ready", "run"} => mode \in {"ready", "run"}
    PROVE  LinksInv'
<1>1. Text' = Text
  BY DEF Text
<1>2. QED
  BY <1>1 DEF LinksInv

\* DecodeLeaf, DecodeElse and DecodeBodyEnd link what they read.
LEMMA PlainLinksStep ==
    ASSUME TreeInv, LinksInv, NEW t, Decoding(t), t \in Opcodes \ Openers,
           t = "end" => Top.list = "body",
           nodes' = Linked(Alloc(t), Top, New), body' = BodyHead(Top, New),
           mode' \in {"ready", "run"} => Top.list = "body"
    PROVE  LinksInv'
<1>1. /\ Tree(nodes, body, Text, frames) /\ Alloc(t) = Append(nodes, Fresh(t))
      /\ New = Len(nodes) + 1 /\ Top = Last(frames) /\ Text' = TextOf(nodes')
  BY Reads
<1>2. body' = (IF Top.list = "body" /\ Top.last = 0 THEN New ELSE body)
  BY DEF BodyHead, NULL
<1>3. PlainRead(nodes, body, frames, t, nodes', body', Text')
  BY <1>1, <1>2 DEF PlainRead
<1>4. LinkedOK(nodes, body, Text)
  BY DEF LinksInv
<1>5. /\ LinkedOK(nodes', body', Text')
      /\ Len(nodes') = Len(nodes) + 1 /\ OpenAfter(Text', Len(nodes) + 1) = OpenAfter(Text, Len(nodes))
  BY <1>1, <1>3, <1>4, PlainLinks
<1>6. Top.list = "body" => OpenAfter(Text, Len(nodes)) = <<>>
  BY <1>1, LastOpen
<1>7. QED
  BY <1>5, <1>6 DEF LinksInv

\* Every step keeps the links.
LEMMA LinksStep ==
    ASSUME TreeInv, LinksInv, [Next]_vars
    PROVE  LinksInv'
<1>1. ASSUME NEW t, DecodeLeaf(t)
      PROVE  LinksInv'
  <2>1. /\ Decoding(t) /\ t \in Opcodes \ Openers /\ t # "end"
        /\ nodes' = Linked(Alloc(t), Top, New) /\ body' = BodyHead(Top, New)
        /\ mode' = "decode"
    BY <1>1 DEF DecodeLeaf, Opcodes, Openers, Structured, Decoding
  <2>2. QED
    BY <2>1, PlainLinksStep
<1>2. ASSUME NEW t, DecodeOpener(t)
      PROVE  LinksInv'
  <2>1. /\ Tree(nodes, body, Text, frames) /\ Alloc(t) = Append(nodes, Fresh(t))
        /\ New = Len(nodes) + 1 /\ Text' = TextOf(nodes') /\ mode = "decode"
    BY <1>2, Reads DEF DecodeOpener
  <2>2. /\ OpenerRead(nodes, frames, t, nodes', Text', frames') /\ body' = body /\ mode' = "decode"
    BY <1>2, <2>1 DEF DecodeOpener, OpenerRead, Openers, Structured
  <2>3. LinkedOK(nodes, body, Text)
    BY DEF LinksInv
  <2>4. LinkedOK(nodes', body, Text')
    BY <2>1, <2>2, <2>3, OpenerLinks
  <2>5. QED
    BY <2>2, <2>4 DEF LinksInv
<1>3. CASE DecodeElse
  <2>1. /\ Decoding("else") /\ Top.list = "in1" /\ "else" \in Opcodes \ Openers /\ mode' = "decode"
        /\ nodes' = Linked(Alloc("else"), Top, New) /\ body' = body
    BY <1>3 DEF DecodeElse, Opcodes, Openers, Structured, Decoding
  <2>2. BodyHead(Top, New) = body
    BY <2>1 DEF BodyHead
  <2>3. QED
    BY <2>1, <2>2, PlainLinksStep
<1>4. CASE DecodeEnd
  <2>1. /\ Tree(nodes, body, Text, frames) /\ Alloc("end") = Append(nodes, Fresh("end"))
        /\ New = Len(nodes) + 1 /\ Top = Last(frames) /\ Text' = TextOf(nodes') /\ mode = "decode"
    BY <1>4, Reads DEF DecodeEnd
  <2> DEFINE f == Last(frames)
             g == Last(Front(frames))
  <2>2. /\ f.list # "body" /\ mode' = "decode"
        /\ nodes' = Linked(Linked(Append(nodes, Fresh("end")), f, Len(nodes) + 1), g, f.node)
        /\ body' = (IF g.list = "body" /\ g.last = 0 THEN f.node ELSE body)
        /\ frames' = Append(Front(Front(frames)), [g EXCEPT !.last = f.node])
    BY <1>4, <2>1 DEF DecodeEnd, BodyHead, Behind, NULL
  <2>3. EndRead(nodes, body, frames, f, g, nodes', body', Text', frames')
    BY <2>1, <2>2 DEF EndRead
  <2>4. LinkedOK(nodes, body, Text)
    BY DEF LinksInv
  <2>5. LinkedOK(nodes', body', Text')
    BY <2>1, <2>3, <2>4, EndLinks
  <2>6. QED
    BY <2>2, <2>5 DEF LinksInv
<1>5. CASE DecodeBodyEnd
  <2>1. /\ Decoding("end") /\ Top.list = "body" /\ "end" \in Opcodes \ Openers
        /\ nodes' = Linked(Alloc("end"), Top, New) /\ body' = BodyHead(Top, New)
    BY <1>5 DEF DecodeBodyEnd, Opcodes, Openers, Structured
  <2>2. QED
    BY <2>1, PlainLinksStep
<1>6. CASE DecodeError
  BY <1>6, LinksSame DEF DecodeError
<1>7. CASE Invoke \/ Execute
  BY <1>7, Walks, LinksSame
<1>8. CASE UNCHANGED vars
  BY <1>8, LinksSame DEF vars
<1>9. QED
  BY <1>1, <1>2, <1>3, <1>4, <1>5, <1>6, <1>7, <1>8 DEF Next

\* At first there is nothing to link.
LEMMA InitLinks ==
    ASSUME Init
    PROVE  LinksInv
<1>1. Len(nodes) = 0 /\ mode = "decode"
  BY DEF Init
<1>2. QED
  BY <1>1 DEF LinksInv, LinkedOK

\* What both invariants say of the nodes.
LEMMA LinkedOnce ==
    ASSUME TreeInv, LinksInv
    PROVE  EveryNodeLinked
<1>1. ASSUME NEW i \in 1 .. Len(nodes)
      PROVE  {nodes[i].next, nodes[i].in1, nodes[i].in2} \subseteq {NULL} \cup i + 1 .. Len(nodes)
  <2> DEFINE n == Len(nodes)
  <2>1. nodes[i] \in NodeSet /\ NodeOK(nodes, Text, frames, i) /\ n \in Nat
    BY DEF TreeInv, TypeOK
  <2>2. nodes[i].next \in Nat /\ nodes[i].in1 \in Nat /\ nodes[i].in2 \in Nat
    BY <2>1 DEF NodeSet
  <2>3. /\ nodes[i].next # 0 => nodes[i].next <= n /\ i < nodes[i].next
        /\ nodes[i].in1 # 0 => nodes[i].in1 <= n /\ nodes[i].in1 = i + 1
        /\ nodes[i].in2 # 0 => nodes[i].in2 <= n /\ i + 1 < nodes[i].in2
    BY <2>1, Zenon DEF NodeOK, NextOK, In1OK, In2OK, Exits, ElseAt
  <2> DEFINE x == nodes[i].next
             y == nodes[i].in1
             z == nodes[i].in2
  <2> HIDE DEF n, x, y, z
  <2>4. {x, y, z} \subseteq {0} \cup i + 1 .. n
    BY <2>1, <2>2, <2>3 DEF x, y, z
  <2>5. QED
    BY <2>4 DEF x, y, z, n, NULL
<1>2. ASSUME mode \in {"ready", "run"}, NEW i \in 1 .. Len(nodes)
      PROVE  Cardinality(Links(i)) = 1
  <2>1. OpenAfter(Text, Len(nodes)) = <<>>
    BY <1>2 DEF LinksInv
  <2>2. ~Among(i, OpenAfter(Text, Len(nodes)))
    BY <2>1 DEF Among
  <2>3. PICK l : LinksOf(nodes, body, i) = {l}
    BY <2>2 DEF LinksInv, LinkedOK
  <2>4. Links(i) = LinksOf(nodes, body, i)
    <3>1. \A r \in (1 .. Len(nodes)) \X {"next", "in1", "in2"} : Field(nodes, body, r) = nodes[r[1]][r[2]]
      BY DEF Field
    <3>2. Field(nodes, body, <<0, "body">>) = body
      BY DEF Field
    <3>3. QED
      BY <3>1, <3>2 DEF Links, LinksOf, Slots, NULL
  <2>5. QED
    BY <2>3, <2>4, FS_Singleton
<1>3. QED
  BY <1>1, <1>2 DEF EveryNodeLinked

\* However long and deep a body is, its pointers lead on in its text, and each
\* node of a body that was accepted has one pointer to it.
THEOREM SpecLinked == Spec => []EveryNodeLinked
<1>1. Init => TreeInv /\ LinksInv
  BY InitTree, InitLinks
<1>2. TreeInv /\ LinksInv /\ [Next]_vars => TreeInv' /\ LinksInv'
  BY TreeStep, LinksStep
<1>3. TreeInv /\ LinksInv => EveryNodeLinked
  BY LinkedOnce
<1>4. QED
  BY <1>1, <1>2, <1>3, PTL DEF Spec

-----------------------------------------------------------------------------
(* The labels of the interpreter.                                          *)

\* A frame's own label below the constructs in s.
LEMMA LabelsOf ==
    ASSUME NEW s \in Seq(Nat), NEW ls, ls = << 0 >> \o s
    PROVE  /\ ls \in Seq(Nat) /\ Len(s) \in Nat /\ Len(ls) = Len(s) + 1
           /\ ls[1] = 0 /\ \A k \in 1 .. Len(s) : ls[k + 1] = s[k]
  OBVIOUS

\* The innermost label is that of the innermost construct.
LEMMA LabelsLast ==
    ASSUME NEW s \in Seq(Nat), NEW ls, ls = << 0 >> \o s
    PROVE  /\ s = <<>> => Last(ls) = 0
           /\ s # <<>> => Last(ls) = Last(s) /\ Front(ls) = << 0 >> \o Front(s)
<1>1. /\ ls \in Seq(Nat) /\ Len(s) \in Nat /\ Len(ls) = Len(s) + 1
      /\ ls[1] = 0 /\ \A k \in 1 .. Len(s) : ls[k + 1] = s[k]
  BY LabelsOf
<1>2. ls # <<>>
  BY <1>1
<1>3. /\ Front(ls) \in Seq(Nat) /\ Len(Front(ls)) = Len(ls) - 1
      /\ \A k \in 1 .. Len(ls) - 1 : Front(ls)[k] = ls[k]
      /\ Last(ls) = ls[Len(ls)]
  BY <1>1, <1>2, FrontOf
<1>4. CASE s = <<>>
  BY <1>1, <1>3, <1>4
<1>5. CASE s # <<>>
  <2> DEFINE f == Front(s)
             g == Front(ls)
  <2>1. /\ f \in Seq(Nat) /\ Len(f) = Len(s) - 1 /\ Len(s) \in Nat \ {0}
        /\ \A k \in 1 .. Len(s) - 1 : f[k] = s[k]
        /\ Last(s) = s[Len(s)]
    BY <1>5, FrontOf
  <2>2. Len(s) \in 1 .. Len(s) /\ Last(ls) = ls[Len(s) + 1]
    BY <1>1, <1>3, <2>1
  <2>3. Last(ls) = Last(s)
    BY <1>1, <2>1, <2>2
  <2> HIDE DEF f, g
  <2> DEFINE h == << 0 >> \o f
  <2>4. /\ h \in Seq(Nat) /\ Len(h) = Len(s) /\ h[1] = 0
        /\ \A k \in 1 .. Len(f) : h[k + 1] = f[k]
    BY <2>1, LabelsOf
  <2> HIDE DEF h
  <2>5. g \in Seq(Nat) /\ Len(g) = Len(s) /\ \A k \in 1 .. Len(s) : g[k] = ls[k]
    BY <1>1, <1>3 DEF g
  <2>6. ASSUME NEW k \in 1 .. Len(s)
        PROVE  g[k] = h[k]
    <3>1. CASE k = 1
      BY <1>1, <2>4, <2>5, <3>1
    <3>2. CASE k # 1
      <4>1. k - 1 \in 1 .. Len(f) /\ k - 1 \in 1 .. Len(s) /\ k - 1 \in 1 .. Len(s) - 1 /\ (k - 1) + 1 = k
        BY <2>1, <3>2, SMTT(40)
      <4>2. g[k] = ls[k] /\ ls[(k - 1) + 1] = s[k - 1] /\ h[(k - 1) + 1] = f[k - 1] /\ f[k - 1] = s[k - 1]
        BY <1>1, <2>1, <2>4, <2>5, <4>1
      <4>3. QED
        BY <4>1, <4>2
    <3>3. QED
      BY <3>1, <3>2
  <2>7. g = h
    BY <2>4, <2>5, <2>6, SameSequence
  <2>8. QED
    BY <1>5, <2>3, <2>7 DEF f, g, h
<1>6. QED
  BY <1>4, <1>5

\* A construct that is entered puts its label on top.
LEMMA LabelsAppend ==
    ASSUME NEW s \in Seq(Nat), NEW p \in Nat
    PROVE  Append(<< 0 >> \o s, p) = << 0 >> \o Append(s, p)
  OBVIOUS

\* The labels below the one a branch names.
LEMMA LabelsBelow ==
    ASSUME NEW s \in Seq(Nat), NEW k \in 1 .. Len(s)
    PROVE  SubSeq(<< 0 >> \o s, 1, k) = << 0 >> \o SubSeq(s, 1, k - 1)
<1> DEFINE ls == << 0 >> \o s
           f == SubSeq(s, 1, k - 1)
           g == SubSeq(ls, 1, k)
           h == << 0 >> \o f
<1>1. /\ ls \in Seq(Nat) /\ Len(s) \in Nat /\ Len(ls) = Len(s) + 1
      /\ ls[1] = 0 /\ \A i \in 1 .. Len(s) : ls[i + 1] = s[i]
  BY LabelsOf
<1>2. k - 1 \in 0 .. Len(s) /\ k \in 0 .. Len(ls) /\ k \in Nat
  BY <1>1
<1>3. f \in Seq(Nat) /\ Len(f) = k - 1 /\ \A i \in 1 .. k - 1 : f[i] = s[i]
  BY <1>2, PrefixOf
<1> HIDE DEF ls, f
<1>4. g \in Seq(Nat) /\ Len(g) = k /\ \A i \in 1 .. k : g[i] = ls[i]
  BY <1>1, <1>2, PrefixOf
<1>5. h \in Seq(Nat) /\ Len(h) = Len(f) + 1 /\ h[1] = 0 /\ \A i \in 1 .. Len(f) : h[i + 1] = f[i]
  BY <1>3, LabelsOf
<1> HIDE DEF g, h
<1>6. ASSUME NEW i \in 1 .. k
      PROVE  g[i] = h[i]
  <2>1. CASE i = 1
    BY <1>1, <1>4, <1>5, <2>1
  <2>2. CASE i # 1
    <3>1. i - 1 \in 1 .. Len(f) /\ i - 1 \in 1 .. Len(s) /\ i - 1 \in 1 .. k - 1 /\ (i - 1) + 1 = i
      BY <1>2, <1>3, <2>2
    <3>2. g[i] = ls[i] /\ ls[(i - 1) + 1] = s[i - 1] /\ h[(i - 1) + 1] = f[i - 1] /\ f[i - 1] = s[i - 1]
      BY <1>1, <1>3, <1>4, <1>5, <3>1
    <3>3. QED
      BY <3>1, <3>2
  <2>3. QED
    BY <2>1, <2>2
<1>7. Len(h) = k
  BY <1>2, <1>3, <1>5
<1>8. g = h
  BY <1>4, <1>5, <1>6, <1>7, SameSequence
<1>9. QED
  BY <1>8 DEF g, h, ls, f

-----------------------------------------------------------------------------
(* The interpreter walks the text.                                         *)

\* No pointer of a body that was accepted is missing.
Walkable(ns, c, n) ==
    /\ n \in Nat /\ n <= MaxInstrs /\ Len(c) = n
    /\ \A j \in 1 .. n :
          /\ c[j] \in Openers \cup {"op"} => ns[j].next \in 1 .. n /\ Exits(c, j, ns[j].next)
          /\ c[j] \in Openers => ns[j].in1 = j + 1 /\ j + 1 \in 1 .. n
          /\ ns[j].in2 # 0 => ns[j].in2 \in 1 .. n /\ ElseAt(c, j, ns[j].in2)
          /\ ns[j].in2 = 0 => ElseOf(c, j) = {}

\* The tree of an accepted body.
LEMMA TreeWalkable ==
    ASSUME TreeInv, mode \in {"ready", "run"}
    PROVE  /\ Walkable(nodes, Text, Len(nodes)) /\ body = 1 /\ Len(nodes) \in Nat \ {0}
           /\ \A j \in 1 .. Len(nodes) : Text[j] = nodes[j].op /\ Text[j] \in Opcodes
<1>1. /\ nodes \in Seq(NodeSet) /\ Len(nodes) <= MaxInstrs /\ frames = <<>> /\ body = 1 /\ nodes # <<>>
      /\ \A i \in 1 .. Len(nodes) : NodeOK(nodes, Text, frames, i)
  BY DEF TreeInv, TypeOK
<1>2. /\ Len(nodes) \in Nat \ {0} /\ Len(Text) = Len(nodes)
      /\ \A j \in 1 .. Len(nodes) : Text[j] = nodes[j].op /\ nodes[j] \in NodeSet
  BY <1>1 DEF Text
<1> DEFINE n == Len(nodes)
<1>3. ASSUME NEW j \in 1 .. n
      PROVE  /\ Text[j] \in Openers \cup {"op"} => nodes[j].next \in 1 .. n /\ Exits(Text, j, nodes[j].next)
             /\ Text[j] \in Openers => nodes[j].in1 = j + 1 /\ j + 1 \in 1 .. n
             /\ nodes[j].in2 # 0 => nodes[j].in2 \in 1 .. n /\ ElseAt(Text, j, nodes[j].in2)
             /\ nodes[j].in2 = 0 => ElseOf(Text, j) = {}
  <2> DEFINE x == nodes[j].next
             y == nodes[j].in1
             z == nodes[j].in2
  <2>1. x \in Nat /\ y \in Nat /\ z \in Nat /\ n \in Nat
    BY <1>2 DEF NodeSet
  <2>2. Len(frames) = 0
    BY <1>1
  <2>3. ~\E k \in 1 .. Len(frames) : TRUE
    BY <2>2
  <2>4. /\ x # 0 => x <= n /\ Exits(Text, j, x)
        /\ Text[j] \in Openers \cup {"op"} => x # 0
        /\ y # 0 => y <= n /\ y = j + 1
        /\ Text[j] \in Openers => y # 0
        /\ z # 0 => z <= n /\ ElseAt(Text, j, z)
        /\ z = 0 => ElseOf(Text, j) = {}
    BY <1>1, <2>3, Zenon DEF NodeOK, NextOK, In1OK, In2OK
  <2> HIDE DEF x, y, z, n
  <2>5. /\ x # 0 /\ x <= n => x \in 1 .. n
        /\ z # 0 /\ z <= n => z \in 1 .. n
        /\ y = j + 1 /\ y <= n => j + 1 \in 1 .. n
    BY <2>1
  <2>6. QED
    BY <2>4, <2>5, Zenon DEF x, y, z
<1>4. QED
  BY <1>1, <1>2, <1>3 DEF Walkable, NodeSet

\* Behind a construct.
LEMMA BehindConstruct ==
    ASSUME NEW c, NEW n \in Nat, Len(c) = n, NEW j \in 1 .. n, c[j] \in Openers,
           NEW t \in 1 .. n, Exits(c, j, t)
    PROVE  /\ t - 1 \in 1 .. n /\ c[t - 1] = "end" /\ Innermost(c, t - 1) = j
           /\ EndOf(c, j) = t - 1 /\ EndOf(c, j) + 1 = t
           /\ Enclosing(c, t) = Enclosing(c, j)
           /\ Enclosing(c, t - 1) = Append(Enclosing(c, j), j)
<1> DEFINE q == t - 1
<1>1. j < t /\ c[q] = "end" /\ Innermost(c, q) = j
  BY DEF Exits
<1>2. q \in 1 .. n /\ q \in Nat \ {0} /\ q + 1 = t /\ j # 0
  BY <1>1
<1> HIDE DEF q
<1>3. EndOf(c, j) = q
  BY <1>1, <1>2, EndIs
<1>4. Enclosing(c, q + 1) = Enclosing(c, j)
  BY <1>1, <1>2, BehindEnd
<1>5. Enclosing(c, q) = Append(Enclosing(c, j), j)
  BY <1>1, <1>2, Inside
<1>6. QED
  BY <1>1, <1>2, <1>3, <1>4, <1>5 DEF q

\* The instruction i with the labels ls stands for position q of the text; the
\* static end stands for the end of a construct.
Stands(c, n, i, ls, q) ==
    /\ q \in 1 .. n
    /\ ls = << 0 >> \o Enclosing(c, q)
    /\ i = q \/ (i = StaticEnd /\ c[q] = "end" /\ Innermost(c, q) # 0)

\* Which position the instruction i with the labels ls stands for.
PositionOf(c, i, ls) == IF i # StaticEnd THEN i ELSE EndOf(c, Last(ls))

\* There is only one.
LEMMA StandsFor ==
    ASSUME NEW c, NEW n \in Nat, n <= MaxInstrs, Len(c) = n, NEW i, NEW ls, NEW q,
           Stands(c, n, i, ls, q)
    PROVE  PositionOf(c, i, ls) = q /\ q # StaticEnd
<1>1. q \in 1 .. n /\ q \in Nat \ {0} /\ MaxInstrs \in Nat
  BY BodyAssumption DEF Stands
<1>2. q # StaticEnd
  BY <1>1 DEF StaticEnd
<1>3. CASE i = q
  BY <1>2, <1>3 DEF PositionOf
<1>4. CASE i = StaticEnd /\ c[q] = "end" /\ Innermost(c, q) # 0
  <2>1. PositionOf(c, i, ls) = EndOf(c, Last(ls))
    BY <1>4 DEF PositionOf
  <2>2. Enclosing(c, q) \in Seq(Nat)
    BY <1>1, EnclosingNested DEF Nested
  <2>3. Enclosing(c, q) # <<>> /\ Last(Enclosing(c, q)) = Innermost(c, q)
    BY <1>1, <1>4, Inside
  <2>4. Last(ls) = Innermost(c, q)
    BY <2>2, <2>3, LabelsLast DEF Stands
  <2>5. EndOf(c, Innermost(c, q)) = q
    BY <1>1, <1>4, EndIs
  <2>6. QED
    BY <1>2, <2>1, <2>4, <2>5
<1>5. QED
  BY <1>3, <1>4 DEF Stands

\* It has the opcode that is executed.
LEMMA StandsAt ==
    ASSUME NEW q, Stands(Text, Len(nodes), ip, labels, q), Walkable(nodes, Text, Len(nodes)),
           \A j \in 1 .. Len(nodes) : Text[j] = nodes[j].op
    PROVE  Position = q /\ Op = Text[q] /\ (Op # "end" => ip = q)
<1>1. q \in 1 .. Len(nodes) /\ Len(nodes) \in Nat /\ Len(nodes) <= MaxInstrs /\ Len(Text) = Len(nodes)
  BY DEF Stands, Walkable
<1>2. PositionOf(Text, ip, labels) = q /\ q # StaticEnd
  BY <1>1, StandsFor
<1>3. Position = PositionOf(Text, ip, labels)
  BY DEF Position, PositionOf
<1>4. CASE ip = q
  BY <1>1, <1>2, <1>3, <1>4 DEF Op
<1>5. CASE ip = StaticEnd /\ Text[q] = "end"
  BY <1>2, <1>3, <1>5 DEF Op
<1>6. QED
  BY <1>4, <1>5 DEF Stands

\* Where a step leads, or that it ends the function.
Arrives(q) == Stands(Text', Len(nodes'), ip', labels', q) /\ mode' = "run"
Stops == mode' = "ready" /\ ip' = 0

\* The step goes to what stands for q.
LEMMA ContinueTo ==
    ASSUME NEW i, NEW ls, Continue(i, ls), NEW q, Stands(Text, Len(nodes), i, ls, q), Len(nodes) \in Nat
    PROVE  Arrives(q)
<1>1. i # 0
  <2>1. StaticEnd # 0
    BY BodyAssumption DEF StaticEnd
  <2>2. q # 0
    BY DEF Stands
  <2>3. QED
    BY <2>1, <2>2 DEF Stands
<1>2. ip' = i /\ labels' = ls /\ mode' = "run" /\ nodes' = nodes
  BY <1>1 DEF Continue, NULL
<1>3. Text' = Text
  BY <1>2 DEF Text
<1>4. QED
  BY <1>2, <1>3 DEF Arrives

\* The step goes nowhere.
LEMMA ContinueNowhere ==
    ASSUME NEW ls, Continue(0, ls)
    PROVE  Stops
  BY DEF Continue, Stops, NULL

\* What is known of an instruction that is executed.
Walking(p) ==
    /\ Walkable(nodes, Text, Len(nodes))
    /\ \A j \in 1 .. Len(nodes) : Text[j] = nodes[j].op
    /\ Stands(Text, Len(nodes), ip, labels, p)

\* Its labels are the constructs around it, the innermost on top.
LEMMA WalkingAt ==
    ASSUME NEW p, Walking(p)
    PROVE  /\ p \in 1 .. Len(nodes) /\ p \in Nat \ {0} /\ Len(nodes) \in Nat /\ Len(Text) = Len(nodes)
           /\ Op = Text[p] /\ Position = p /\ (Op # "end" => ip = p)
           /\ Enclosing(Text, p) \in Seq(Nat) /\ labels = << 0 >> \o Enclosing(Text, p)
           /\ Innermost(Text, p) = Last(labels)
           /\ Last(labels) = 0 <=> Enclosing(Text, p) = <<>>
<1>1. p \in 1 .. Len(nodes) /\ p \in Nat \ {0} /\ Len(nodes) \in Nat /\ Len(Text) = Len(nodes)
  BY DEF Walking, Stands, Walkable
<1>2. Op = Text[p] /\ Position = p /\ (Op # "end" => ip = p)
  BY StandsAt DEF Walking
<1>3. Nested(Text, p - 1, Enclosing(Text, p))
  BY <1>1, EnclosingNested
<1> DEFINE s == Enclosing(Text, p)
<1>4. labels = << 0 >> \o s
  BY DEF Walking, Stands
<1>5. Innermost(Text, p) = IF s = <<>> THEN 0 ELSE Last(s)
  BY DEF Innermost
<1> HIDE DEF s
<1>6. s \in Seq(Nat) /\ \A k \in 1 .. Len(s) : s[k] \in 1 .. p - 1
  BY <1>3 DEF Nested, s
<1>7. s # <<>> => Last(s) # 0
  <2>1. SUFFICES ASSUME s # <<>> PROVE Last(s) # 0
    OBVIOUS
  <2>0. s \in Seq(Nat)
    BY <1>6
  <2>2. Last(s) = s[Len(s)] /\ Len(s) \in Nat \ {0}
    BY <2>0, <2>1, FrontOf
  <2>3. s[Len(s)] \in 1 .. p - 1
    BY <1>6, <2>2
  <2>4. QED
    BY <1>1, <2>2, <2>3
<1>8. Last(labels) = IF s = <<>> THEN 0 ELSE Last(s)
  BY <1>4, <1>6, LabelsLast
<1>9. QED
  BY <1>1, <1>2, <1>4, <1>5, <1>6, <1>7, <1>8 DEF s

\* Plain goes on with the next opcode.
LEMMA PlainWalks ==
    ASSUME NEW p, Walking(p), Plain
    PROVE  Text[p] = "op" /\ Arrives(p + 1)
<1> DEFINE n == Len(nodes)
           t == nodes[p].next
<1>1. /\ p \in 1 .. n /\ p \in Nat \ {0} /\ n \in Nat /\ Op = Text[p] /\ (Op # "end" => ip = p)
      /\ labels = << 0 >> \o Enclosing(Text, p)
  BY WalkingAt
<1>2. Text[p] = "op" /\ ip = p /\ Continue(t, labels)
  BY <1>1 DEF Plain
<1>3. t \in 1 .. n /\ Exits(Text, p, t)
  BY <1>1, <1>2 DEF Walking, Walkable
<1>4. t = p + 1
  BY <1>2, <1>3 DEF Exits, Openers
<1>5. Enclosing(Text, p + 1) = Enclosing(Text, p)
  BY <1>1, <1>2, BehindOther
<1>6. Stands(Text, n, t, labels, p + 1)
  BY <1>1, <1>3, <1>4, <1>5 DEF Stands
<1>7. QED
  BY <1>1, <1>2, <1>6, ContinueTo

\* Enter goes on with the first opcode inside.
LEMMA EnterWalks ==
    ASSUME NEW p, Walking(p), Enter
    PROVE  Text[p] \in Openers /\ Arrives(p + 1)
<1> DEFINE n == Len(nodes)
           t == nodes[p].in1
<1>1. /\ p \in 1 .. n /\ p \in Nat \ {0} /\ n \in Nat /\ Op = Text[p] /\ (Op # "end" => ip = p)
      /\ labels = << 0 >> \o Enclosing(Text, p) /\ Enclosing(Text, p) \in Seq(Nat)
  BY WalkingAt
<1>2. Text[p] \in Openers /\ ip = p /\ Continue(t, Append(labels, p))
  BY <1>1 DEF Enter, Structured, Openers
<1>3. t = p + 1 /\ p + 1 \in 1 .. n
  BY <1>1, <1>2 DEF Walking, Walkable
<1>4. Enclosing(Text, p + 1) = Append(Enclosing(Text, p), p)
  BY <1>1, <1>2, BehindOpener
<1>5. Append(labels, p) = << 0 >> \o Enclosing(Text, p + 1)
  BY <1>1, <1>4, LabelsAppend
<1>6. Stands(Text, n, t, Append(labels, p), p + 1)
  BY <1>3, <1>5 DEF Stands
<1>7. QED
  BY <1>1, <1>2, <1>6, ContinueTo

\* Skip goes to the else arm, or to the end of the if.
LEMMA SkipWalks ==
    ASSUME NEW p, Walking(p), Skip
    PROVE  /\ Text[p] = "if"
           /\ \/ \E e \in ElseOf(Text, p) : Arrives(e + 1)
              \/ ElseOf(Text, p) = {} /\ Arrives(EndOf(Text, p))
<1> DEFINE n == Len(nodes)
           t == nodes[p].in2
           x == nodes[p].next
           ls == Append(labels, p)
<1>1. /\ p \in 1 .. n /\ p \in Nat \ {0} /\ n \in Nat /\ Op = Text[p] /\ (Op # "end" => ip = p)
      /\ labels = << 0 >> \o Enclosing(Text, p) /\ Enclosing(Text, p) \in Seq(Nat) /\ Len(Text) = n
  BY WalkingAt
<1>2. Text[p] = "if" /\ Text[p] \in Openers /\ ip = p
  BY <1>1 DEF Skip, Openers
<1>3. Continue(IF t # 0 THEN t ELSE StaticEnd, ls)
  BY <1>2 DEF Skip, NULL
<1>4. ls = << 0 >> \o Append(Enclosing(Text, p), p)
  BY <1>1, LabelsAppend
<1>5. CASE t # 0
  <2>1. t \in 1 .. n /\ ElseAt(Text, p, t)
    BY <1>1, <1>5 DEF Walking, Walkable
  <2> DEFINE e == t - 1
  <2>2. p + 1 < t /\ Text[e] = "else" /\ Innermost(Text, e) = p
    BY <2>1 DEF ElseAt
  <2>3. e \in p + 1 .. n /\ e \in Nat \ {0} /\ e + 1 = t /\ p # 0
    BY <1>1, <2>1, <2>2
  <2> HIDE DEF e
  <2>4. Enclosing(Text, e) = Append(Enclosing(Text, p), p)
    BY <2>2, <2>3, Inside
  <2>5. Enclosing(Text, e + 1) = Enclosing(Text, e)
    BY <2>2, <2>3, BehindOther
  <2>6. Stands(Text, n, t, ls, t)
    BY <1>4, <2>1, <2>3, <2>4, <2>5 DEF Stands
  <2>7. Arrives(t)
    BY <1>1, <1>3, <1>5, <2>6, ContinueTo
  <2>8. e \in ElseOf(Text, p)
    BY <1>1, <2>2, <2>3 DEF ElseOf
  <2>9. QED
    BY <1>2, <2>3, <2>7, <2>8
<1>6. CASE t = 0
  <2>1. ElseOf(Text, p) = {}
    BY <1>1, <1>6 DEF Walking, Walkable
  <2>2. x \in 1 .. n /\ Exits(Text, p, x)
    BY <1>1, <1>2 DEF Walking, Walkable
  <2>3. /\ x - 1 \in 1 .. n /\ Text[x - 1] = "end" /\ Innermost(Text, x - 1) = p
        /\ EndOf(Text, p) = x - 1 /\ Enclosing(Text, x - 1) = Append(Enclosing(Text, p), p)
    BY <1>1, <1>2, <2>2, BehindConstruct, SMTT(40)
  <2>4. p # 0
    BY <1>1
  <2> DEFINE q == x - 1
  <2>5. Stands(Text, n, StaticEnd, ls, q)
    BY <1>4, <2>3, <2>4 DEF Stands
  <2>6. Continue(StaticEnd, ls)
    BY <1>3, <1>6
  <2> HIDE DEF q, ls
  <2>7. Arrives(q)
    BY <1>1, <2>5, <2>6, ContinueTo
  <2>8. QED
    BY <1>2, <2>1, <2>3, <2>7 DEF q
<1>7. QED
  BY <1>5, <1>6

\* Leave goes behind the innermost construct, or ends the function.
LEMMA LeaveWalks ==
    ASSUME NEW p, Walking(p), Leave
    PROVE  /\ Text[p] \in {"else", "end"}
           /\ Innermost(Text, p) = 0 => Stops
           /\ Innermost(Text, p) # 0 => Arrives(EndOf(Text, Innermost(Text, p)) + 1)
           /\ Innermost(Text, p) # 0 /\ Text[p] = "end" => EndOf(Text, Innermost(Text, p)) = p
<1> DEFINE n == Len(nodes)
           j == Last(labels)
           t == nodes[j].next
<1>1. /\ p \in 1 .. n /\ p \in Nat \ {0} /\ n \in Nat /\ Op = Text[p] /\ Len(Text) = n
      /\ labels = << 0 >> \o Enclosing(Text, p) /\ Enclosing(Text, p) \in Seq(Nat)
      /\ Innermost(Text, p) = j /\ (j = 0 <=> Enclosing(Text, p) = <<>>)
  BY WalkingAt
<1>2. Text[p] \in {"else", "end"} /\ Continue(IF j = 0 THEN 0 ELSE t, Front(labels))
  BY <1>1 DEF Leave, NULL
<1>3. CASE j = 0
  BY <1>1, <1>2, <1>3, ContinueNowhere
<1>4. CASE j # 0
  <2>1. /\ j \in 1 .. p - 1 /\ Text[j] \in Openers
        /\ Front(Enclosing(Text, p)) = Enclosing(Text, j)
    BY <1>1, <1>4, Inside
  <2>2. Front(labels) = << 0 >> \o Enclosing(Text, j)
    BY <1>1, <1>4, <2>1, LabelsLast
  <2>3. j \in 1 .. n
    BY <1>1, <2>1
  <2> HIDE DEF j
  <2>4. t \in 1 .. n /\ Exits(Text, j, t)
    BY <2>1, <2>3 DEF Walking, Walkable
  <2>5. EndOf(Text, j) + 1 = t /\ Enclosing(Text, t) = Enclosing(Text, j)
    BY <1>1, <2>1, <2>3, <2>4, BehindConstruct
  <2>6. Stands(Text, n, t, Front(labels), t)
    BY <2>2, <2>4, <2>5 DEF Stands
  <2>7. Arrives(t)
    BY <1>1, <1>2, <1>4, <2>6, ContinueTo
  <2>8. Text[p] = "end" => EndOf(Text, j) = p
    BY <1>1, <1>4, EndIs
  <2>9. QED
    BY <1>1, <1>2, <1>4, <2>5, <2>7, <2>8
<1>5. QED
  BY <1>3, <1>4

\* The label a branch names, and those below it.
LEMMA BranchTarget ==
    ASSUME NEW p, Walking(p), NEW m \in Nat, m < Len(labels)
    PROVE  LET open == Enclosing(Text, p)
               k == Len(open) - m
               x == Len(labels) - m
           IN  /\ k >= 0
               /\ k = 0 => labels[x] = 0
               /\ k # 0 => /\ labels[x] = open[k] /\ open[k] \in 1 .. Len(nodes) /\ Text[open[k]] \in Openers
                           /\ SubSeq(labels, 1, x - 1) = << 0 >> \o Enclosing(Text, open[k])
<1> DEFINE open == Enclosing(Text, p)
           k == Len(open) - m
           x == Len(labels) - m
<1>0. p \in 1 .. Len(nodes) /\ p \in Nat \ {0} /\ Len(nodes) \in Nat /\ labels = << 0 >> \o open
  BY WalkingAt
<1>1. Nested(Text, p - 1, open)
  BY <1>0, EnclosingNested
<1> HIDE DEF open
<1>2. open \in Seq(Nat)
  BY <1>1 DEF Nested
<1>3. labels = << 0 >> \o open
  BY <1>0 DEF open
<1>4. /\ Len(open) \in Nat /\ Len(labels) = Len(open) + 1 /\ labels[1] = 0
      /\ \A i \in 1 .. Len(open) : labels[i + 1] = open[i]
  BY <1>2, <1>3, LabelsOf
<1>5. x = k + 1 /\ k \in 0 .. Len(open) /\ k >= 0 /\ x - 1 = k
  <2> DEFINE a == Len(open)
             b == Len(labels)
  <2>1. a \in Nat /\ b = a + 1 /\ m \in Nat /\ m < b /\ k = a - m /\ x = b - m
    BY <1>4, SMTT(40)
  <2> HIDE DEF a, b, k, x
  <2>2. x = k + 1 /\ k \in 0 .. a /\ k >= 0 /\ x - 1 = k
    BY <2>1, SMTT(40)
  <2>3. QED
    BY <2>2, Zenon DEF a
<1> HIDE DEF x, k
<1>6. CASE k = 0
  <2>1. x = 1
    BY <1>5, <1>6
  <2>2. labels[x] = 0
    BY <1>4, <2>1
  <2>3. QED
    BY <1>5, <1>6, <2>2, Zenon DEF open, k, x
<1>7. CASE k # 0
  <2>1. k \in 1 .. Len(open)
    BY <1>4, <1>5, <1>7
  <2>2. labels[x] = open[k]
    BY <1>4, <1>5, <2>1
  <2>3. /\ open[k] \in 1 .. p - 1 /\ Text[open[k]] \in Openers
        /\ OpenAfter(Text, open[k] - 1) = SubSeq(open, 1, k - 1)
    BY <1>1, <2>1 DEF Nested
  <2>4. open[k] \in 1 .. Len(nodes)
    BY <1>0, <2>3
  <2>5. SubSeq(labels, 1, k) = << 0 >> \o SubSeq(open, 1, k - 1)
    BY <1>2, <1>3, <2>1, LabelsBelow
  <2>6. SubSeq(labels, 1, x - 1) = << 0 >> \o Enclosing(Text, open[k])
    BY <1>5, <2>3, <2>5 DEF Enclosing
  <2>7. QED
    BY <1>5, <1>7, <2>2, <2>3, <2>4, <2>6, Zenon DEF open, k, x
<1>8. QED
  BY <1>6, <1>7

\* Branch goes behind the construct it names, or to it when it is a loop.
LEMMA BranchWalks ==
    ASSUME NEW p, Walking(p), NEW m \in Nat, Branch(m)
    PROVE  LET open == Enclosing(Text, p)
               k == Len(open) - m
           IN  /\ Text[p] = "op" /\ k >= 0
               /\ k = 0 => Stops
               /\ k # 0 /\ Text[open[k]] = "loop" => Arrives(open[k])
               /\ k # 0 /\ Text[open[k]] # "loop" => Arrives(EndOf(Text, open[k]) + 1)
<1> DEFINE n == Len(nodes)
           open == Enclosing(Text, p)
           k == Len(open) - m
           x == Len(labels) - m
           j == labels[x]
           t == nodes[j].next
           ls == SubSeq(labels, 1, x - 1)
<1>1. /\ p \in 1 .. n /\ n \in Nat /\ Op = Text[p] /\ Len(Text) = n
      /\ labels = << 0 >> \o open
  BY WalkingAt
<1>2. Text[p] = "op" /\ m < Len(labels)
  BY <1>1 DEF Branch
<1>3. Continue(IF j = 0 THEN 0 ELSE IF nodes[j].op = "loop" THEN j ELSE t, ls)
  BY DEF Branch, NULL
<1>4. /\ k >= 0
      /\ k = 0 => j = 0
      /\ k # 0 => /\ j = open[k] /\ open[k] \in 1 .. n /\ Text[open[k]] \in Openers
                  /\ ls = << 0 >> \o Enclosing(Text, open[k])
  BY <1>2, BranchTarget
<1> HIDE DEF open, k, x, j, t, ls
<1>5. ASSUME k = 0
      PROVE  Stops
  <2>1. j = 0
    BY <1>4, <1>5
  <2>2. Continue(0, ls)
    BY <1>3, <2>1
  <2>3. QED
    BY <2>2, ContinueNowhere
<1>6. ASSUME k # 0
      PROVE  /\ Text[j] = "loop" => Arrives(j)
             /\ Text[j] # "loop" => Arrives(EndOf(Text, j) + 1)
             /\ j = open[k]
  <2>1. j \in 1 .. n /\ j # 0 /\ Text[j] \in Openers /\ ls = << 0 >> \o Enclosing(Text, j)
    BY <1>1, <1>4, <1>6
  <2>2. Text[j] = nodes[j].op
    BY <2>1 DEF Walking, n
  <2>3. CASE Text[j] = "loop"
    <3>1. Stands(Text, n, j, ls, j)
      BY <2>1 DEF Stands
    <3>2. Continue(j, ls)
      BY <1>3, <2>1, <2>2, <2>3
    <3>3. Arrives(j)
      BY <1>1, <3>1, <3>2, ContinueTo DEF n
    <3>4. QED
      BY <1>4, <1>6, <2>3, <3>3
  <2>4. CASE Text[j] # "loop"
    <3>1. t \in 1 .. n /\ Exits(Text, j, t)
      BY <2>1 DEF Walking, Walkable, t, n
    <3>2. EndOf(Text, j) + 1 = t /\ Enclosing(Text, t) = Enclosing(Text, j)
      BY <1>1, <2>1, <3>1, BehindConstruct
    <3>3. Stands(Text, n, t, ls, t)
      BY <2>1, <3>1, <3>2 DEF Stands
    <3>4. Continue(t, ls)
      BY <1>3, <2>1, <2>2, <2>4
    <3>5. Arrives(t)
      BY <1>1, <3>3, <3>4, ContinueTo DEF n
    <3>6. QED
      BY <1>4, <1>6, <2>4, <3>2, <3>5
  <2>5. QED
    BY <2>3, <2>4
<1>7. /\ k # 0 /\ Text[open[k]] = "loop" => Arrives(open[k])
      /\ k # 0 /\ Text[open[k]] # "loop" => Arrives(EndOf(Text, open[k]) + 1)
  BY <1>6
<1>8. QED
  BY <1>2, <1>4, <1>5, <1>7, Zenon DEF k, open

\* An instruction is executed only in the body, and none while nothing runs.
RunInv ==
    /\ mode = "run" => \E p : Stands(Text, Len(nodes), ip, labels, p)
    /\ mode # "run" => ip = 0

\* So there is a position in the text.
LEMMA RunWalks ==
    ASSUME TreeInv, RunInv, mode = "run"
    PROVE  \E p : Walking(p)
  BY TreeWalkable DEF RunInv, Walking

\* What Return does.
LEMMA ReturnWalks ==
    ASSUME NEW p, Walking(p), Return
    PROVE  Text[p] = "op" /\ Stops
<1>1. Text[p] = "op"
  BY WalkingAt DEF Return
<1>2. Continue(0, labels)
  BY DEF Return, NULL
<1>3. QED
  BY <1>1, <1>2, ContinueNowhere

\* Every instruction leads to a position or ends the function.
LEMMA ExecuteWalks ==
    ASSUME NEW p, Walking(p), Execute
    PROVE  Stops \/ \E q : Arrives(q)
<1>1. CASE Plain
  BY <1>1, PlainWalks
<1>2. CASE Return
  BY <1>2, ReturnWalks
<1>3. CASE Enter
  BY <1>3, EnterWalks
<1>4. CASE Skip
  BY <1>4, SkipWalks
<1>5. CASE Leave
  BY <1>5, LeaveWalks
<1>6. ASSUME NEW m \in 0 .. MaxInstrs, Branch(m)
      PROVE  Stops \/ \E q : Arrives(q)
  <2>1. m \in Nat
    BY BodyAssumption
  <2>2. QED
    BY <1>6, <2>1, BranchWalks, Zenon
<1>7. QED
  BY <1>1, <1>2, <1>3, <1>4, <1>5, <1>6 DEF Execute

\* A function begins in front of all constructs.
LEMMA InvokeWalks ==
    ASSUME TreeInv, Invoke
    PROVE  Arrives(1)
<1>1. mode = "ready" /\ mode' = "run" /\ ip' = body /\ labels' = << 0 >> /\ nodes' = nodes
  BY DEF Invoke, NULL
<1>2. body = 1 /\ Len(nodes) \in Nat \ {0}
  BY <1>1, TreeWalkable
<1>3. Enclosing(Text, 1) = <<>>
  BY OpenSteps DEF Enclosing
<1>4. << 0 >> = << 0 >> \o <<>>
  OBVIOUS
<1>5. Text' = Text
  BY <1>1 DEF Text
<1>6. Stands(Text, Len(nodes), 1, << 0 >>, 1)
  BY <1>2, <1>3, <1>4 DEF Stands
<1>7. QED
  BY <1>1, <1>2, <1>5, <1>6 DEF Arrives

\* No step that decodes runs anything.
LEMMA DecodesOnly ==
    (\E t \in Opcodes : DecodeLeaf(t) \/ DecodeOpener(t))
      \/ DecodeElse \/ DecodeEnd \/ DecodeBodyEnd \/ DecodeError
    => mode = "decode" /\ mode' # "run" /\ ip' = ip
  BY DEF DecodeLeaf, DecodeOpener, DecodeElse, DecodeEnd, DecodeBodyEnd, DecodeError, Decoding

\* Every step keeps the position.
LEMMA RunStep ==
    ASSUME TreeInv, RunInv, [Next]_vars
    PROVE  RunInv'
<1>1. CASE \/ \E t \in Opcodes : DecodeLeaf(t) \/ DecodeOpener(t)
           \/ DecodeElse \/ DecodeEnd \/ DecodeBodyEnd \/ DecodeError
  BY <1>1, DecodesOnly DEF RunInv
<1>2. CASE Invoke
  BY <1>2, InvokeWalks DEF RunInv, Arrives
<1>3. CASE Execute
  <2>1. mode = "run"
    BY <1>3 DEF Execute
  <2>2. PICK p : Walking(p)
    BY <2>1, RunWalks
  <2>3. Stops \/ \E q : Arrives(q)
    BY <1>3, <2>2, ExecuteWalks
  <2>4. QED
    BY <2>3 DEF RunInv, Stops, Arrives
<1>4. CASE UNCHANGED vars
  <2>1. nodes' = nodes /\ mode' = mode /\ ip' = ip /\ labels' = labels
    BY <1>4 DEF vars
  <2>2. Text' = Text
    BY <2>1 DEF Text
  <2>3. QED
    BY <2>1, <2>2 DEF RunInv
<1>5. QED
  BY <1>1, <1>2, <1>3, <1>4 DEF Next

\* Its labels are its surroundings.
LEMMA RunScopes ==
    ASSUME TreeInv, RunInv
    PROVE  LabelsAreScopes
<1>1. SUFFICES ASSUME mode = "run"
               PROVE  labels = <<NULL>> \o Enclosing(Text, Position)
  BY DEF LabelsAreScopes
<1>2. PICK p : Walking(p)
  BY <1>1, RunWalks
<1>3. labels = << 0 >> \o Enclosing(Text, p) /\ Position = p
  BY <1>2, WalkingAt
<1>4. QED
  BY <1>3 DEF NULL

\* In a body of any length and depth, and wherever its branches lead, the labels
\* of a running frame are the constructs around its instruction.
THEOREM SpecScopes == Spec => []LabelsAreScopes
<1>1. Init => TreeInv /\ RunInv
  <2>1. Init => RunInv
    BY DEF Init, RunInv, NULL
  <2>2. QED
    BY <2>1, InitTree
<1>2. TreeInv /\ RunInv /\ [Next]_vars => TreeInv' /\ RunInv'
  BY TreeStep, RunStep
<1>3. TreeInv /\ RunInv => LabelsAreScopes
  BY RunScopes
<1>4. QED
  BY <1>1, <1>2, <1>3, PTL DEF Spec

-----------------------------------------------------------------------------
(* The flat code.                                                          *)

\* The operators of the text mean the same there.
LEMMA SameText ==
    ASSUME NEW c, NEW p
    PROVE  /\ Flat!OpenAfter(c, p) = OpenAfter(c, p) /\ Flat!Enclosing(c, p) = Enclosing(c, p)
           /\ Flat!Innermost(c, p) = Innermost(c, p) /\ Flat!ElseOf(c, p) = ElseOf(c, p)
           /\ Flat!EndOf(c, p) = EndOf(c, p) /\ Flat!Openers = Openers
<1>1. Flat!Openers = Openers
  BY DEF Flat!Openers, Openers
<1>2. \A d, k : Flat!OpenAfter(d, k) = OpenAfter(d, k)
  BY Zenon DEF Flat!OpenAfter, OpenAfter, Flat!Openers, Openers, Flat!Front, Front
<1>3. \A d, k : Flat!Enclosing(d, k) = Enclosing(d, k)
  BY <1>2, Zenon DEF Flat!Enclosing, Enclosing
<1>4. \A d, k : Flat!Innermost(d, k) = Innermost(d, k)
  BY <1>3, Zenon DEF Flat!Innermost, Innermost, Flat!Last, Last
<1>5. Flat!ElseOf(c, p) = ElseOf(c, p)
  BY <1>4, Zenon DEF Flat!ElseOf, ElseOf
<1>6. Flat!EndOf(c, p) = EndOf(c, p)
  BY <1>4, Zenon DEF Flat!EndOf, EndOf
<1>7. QED
  BY <1>1, <1>2, <1>3, <1>4, <1>5, <1>6

\* Each else is in a construct.
ElseInv == \A p \in 1 .. Len(nodes) : Text[p] = "else" => Innermost(Text, p) # 0

\* An else that the decoder accepts fits.
LEMMA ElseFitsIn ==
    ASSUME TreeInv, ~StrayElse, Decoding("else")
    PROVE  LET open == OpenAfter(Text, Len(nodes))
           IN  open # <<>> /\ Text[Last(open)] = "if" /\ ElseOf(Text, Last(open)) = {}
<1> DEFINE open == OpenAfter(Text, Len(nodes))
           m == Len(frames)
           f == frames[m]
<1>1. Tree(nodes, body, Text, frames) /\ Top = Last(frames) /\ Len(nodes) \in Nat
  BY Reads
<1>2. Top.list = "in1" /\ nodes[Top.node].op = "if"
  BY DEF Decoding, MayFollow
<1>3. Leveled(nodes, body, Text, frames, Len(nodes), m, open)
  BY <1>1, Levels DEF Tree
<1>4. Last(frames) = f /\ open # <<>> /\ Last(open) = f.node /\ m > 1
  <2>1. Last(frames).list # "body"
    BY <1>1, <1>2
  <2>2. QED
    BY <1>1, <2>1, LastOpen
<1> HIDE DEF open
<1>5. m \in Nat /\ m \in 1 .. m /\ m \in 2 .. m
  BY <1>3, <1>4 DEF Leveled
<1>6. f.node \in 1 .. Len(nodes) /\ SlotOK(nodes, body, Text, f, Begins(Text, Len(nodes), m))
  BY <1>3, <1>5 DEF Leveled
<1>7. f.list = "in1" /\ nodes[f.node].op = "if"
  BY <1>1, <1>2, <1>4
<1>8. ElseOf(Text, f.node) = {}
  BY <1>6, <1>7 DEF SlotOK
<1>9. Text[f.node] = "if"
  BY <1>6, <1>7 DEF Text
<1>10. QED
  BY <1>4, <1>8, <1>9 DEF open

\* An opcode that is decoded.
DecodesAs(t) ==
    /\ Decoding(t) /\ t \in Opcodes
    /\ mode' = IF t = "end" /\ Top.list = "body" THEN "ready" ELSE "decode"
    /\ \E L : ReadInto(nodes, Text, frames, L, t, nodes')

\* It goes on with the text.
LEMMA ReadsOn ==
    ASSUME TreeInv, NEW t, DecodesAs(t)
    PROVE  /\ Text' = Append(Text, t) /\ OneMore(Text, Text', Len(nodes)) /\ Text'[Len(nodes) + 1] = t
           /\ Len(nodes) \in Nat /\ Len(nodes') = Len(nodes) + 1 /\ Len(Text) = Len(nodes)
<1>1. PICK L : ReadInto(nodes, Text, frames, L, t, nodes')
  BY DEF DecodesAs
<1>2. Tree(nodes, body, Text, frames) /\ Len(nodes) \in Nat /\ Text' = TextOf(nodes')
  BY Reads DEF DecodesAs
<1>3. OneMore(Text, Text', Len(nodes)) /\ Text'[Len(nodes) + 1] = t /\ Len(nodes') = Len(nodes) + 1
  BY <1>1, <1>2, ReadText
<1> DEFINE n == Len(nodes)
           d == Text'
<1>4. Len(Text) = n /\ Len(d) = n + 1 /\ \A k \in 1 .. n : d[k] = Text[k]
  BY <1>3 DEF OneMore, Agree
<1>5. t \in Opcodes
  BY DEF DecodesAs
<1>6. Text \in Seq(Opcodes)
  <2>1. nodes \in Seq(NodeSet) /\ Text = TextOf(nodes)
    BY <1>2 DEF Tree
  <2>2. \A i \in 1 .. n : nodes[i].op \in Opcodes
    <3>1. \A i \in 1 .. n : nodes[i] \in NodeSet
      BY <2>1
    <3>2. QED
      BY <3>1 DEF NodeSet
  <2>3. Text = [i \in 1 .. n |-> nodes[i].op]
    BY <2>1 DEF TextOf
  <2> HIDE DEF n
  <2>4. QED
    BY <1>2, <2>2, <2>3 DEF n
<1>7. d \in Seq(Opcodes)
  <2>1. d = [i \in 1 .. n + 1 |-> d[i]]
    BY <1>2, <1>3 DEF TextOf
  <2>2. \A i \in 1 .. n + 1 : d[i] \in Opcodes
    <3>1. \A k \in 1 .. n : Text[k] \in Opcodes
      BY <1>4, <1>6
    <3> HIDE DEF d, n
    <3>2. \A i \in 1 .. n + 1 : i \in 1 .. n \/ i = n + 1
      BY <1>2 DEF n
    <3>3. d[n + 1] = t
      BY <1>3 DEF d, n
    <3>4. QED
      BY <1>4, <1>5, <3>1, <3>2, <3>3
  <2> HIDE DEF d, n
  <2>3. n + 1 \in Nat
    BY <1>2 DEF n
  <2>4. QED
    BY <2>1, <2>2, <2>3
<1> DEFINE a == Append(Text, t)
<1>8. a \in Seq(Opcodes) /\ Len(a) = n + 1 /\ a[n + 1] = t /\ \A k \in 1 .. n : a[k] = Text[k]
  BY <1>2, <1>4, <1>5, <1>6
<1> HIDE DEF a, d, n
<1>9. ASSUME NEW k \in 1 .. n + 1
      PROVE  d[k] = a[k]
  <2>1. k \in 1 .. n \/ k = n + 1
    BY <1>2 DEF n
  <2>2. d[n + 1] = t
    BY <1>3 DEF d, n
  <2>3. QED
    BY <1>4, <1>8, <2>1, <2>2
<1>10. d = a
  BY <1>4, <1>7, <1>8, <1>9, SameSequence
<1>11. QED
  BY <1>2, <1>3, <1>4, <1>10 DEF a, d, n

\* What an opcode is depends on nothing behind it, so an else stays inside.
LEMMA ElseStaysIn ==
    ASSUME TreeInv, ElseInv, ~StrayElse, NEW t, DecodesAs(t)
    PROVE  ElseInv'
<1> DEFINE n == Len(nodes)
           d == Text'
<1>1. /\ OneMore(Text, d, n) /\ d[n + 1] = t /\ n \in Nat /\ Len(nodes') = n + 1
  BY ReadsOn
<1>2. ASSUME NEW p \in 1 .. n, d[p] = "else"
      PROVE  Innermost(d, p) # 0
  <2>1. Agree(Text, d, p - 1) /\ Text[p] = d[p] /\ p \in Nat \ {0}
    BY <1>1 DEF OneMore, Agree
  <2>2. Innermost(Text, p) = Innermost(d, p)
    BY <2>1, SameSurroundings
  <2>3. QED
    BY <1>2, <2>1, <2>2 DEF ElseInv
<1>3. ASSUME d[n + 1] = "else"
      PROVE  Innermost(d, n + 1) # 0
  <2> DEFINE open == OpenAfter(Text, n)
  <2>1. Decoding("else")
    BY <1>1, <1>3 DEF DecodesAs
  <2>2. open # <<>>
    BY <2>1, ElseFitsIn
  <2>3. Innermost(d, n + 1) = Last(open)
    BY <1>1, <2>2, OneMoreOpcode
  <2>4. Nested(Text, n, open)
    BY <1>1, OpenNested
  <2> HIDE DEF open, d
  <2>5. open \in Seq(Nat) /\ \A k \in 1 .. Len(open) : open[k] \in 1 .. n
    BY <2>4 DEF Nested
  <2>6. Last(open) = open[Len(open)] /\ Len(open) \in Nat \ {0}
    BY <2>2, <2>5, FrontOf
  <2>7. Last(open) \in 1 .. n
    BY <2>5, <2>6
  <2>8. QED
    BY <1>1, <2>3, <2>7
<1> HIDE DEF d
<1>4. \A p \in 1 .. n + 1 : p \in 1 .. n \/ p = n + 1
  BY <1>1
<1>5. \A p \in 1 .. n + 1 : d[p] = "else" => Innermost(d, p) # 0
  BY <1>2, <1>3, <1>4
<1>6. QED
  BY <1>1, <1>5 DEF ElseInv, d

\* The flat code reads it too.
LEMMA ReadsFlat ==
    ASSUME TreeInv, RunInv, ~StrayElse, NEW t, DecodesAs(t)
    PROVE  Flat!Read(t)
<1>1. /\ Text' = Append(Text, t) /\ Len(Text) = Len(nodes)
  BY ReadsOn
<1>2. /\ mode = "decode" /\ Len(nodes) < MaxInstrs /\ ip' = ip
      /\ mode' = IF t = "end" /\ Top.list = "body" THEN "ready" ELSE "decode"
  BY DEF DecodesAs, Decoding
<1>3. ip = 0 /\ 0 # StaticEnd
  BY <1>2, BodyAssumption DEF RunInv, StaticEnd
<1>4. Position = 0 /\ Position' = 0
  BY <1>2, <1>3 DEF Position
<1>5. Top.list = "body" <=> OpenAfter(Text, Len(Text)) = <<>>
  <2>1. Tree(nodes, body, Text, frames) /\ Top = Last(frames)
    BY Reads DEF DecodesAs
  <2>2. QED
    BY <1>1, <2>1, LastOpen
<1>6. t = "else" => Flat!ElseFits
  <2>1. SUFFICES ASSUME t = "else"
                 PROVE  Flat!ElseFits
    OBVIOUS
  <2>2. Decoding("else")
    BY <2>1 DEF DecodesAs
  <2> DEFINE open == OpenAfter(Text, Len(Text))
  <2>3. open # <<>> /\ Text[Last(open)] = "if" /\ ElseOf(Text, Last(open)) = {}
    BY <1>1, <2>2, ElseFitsIn
  <2>4. /\ Flat!OpenAfter(Text, Len(Text)) = open
        /\ Flat!ElseOf(Text, Last(open)) = ElseOf(Text, Last(open))
        /\ Flat!Last(open) = Last(open)
    BY SameText, Zenon DEF Flat!Last, Last
  <2> HIDE DEF open
  <2>5. QED
    BY <2>3, <2>4 DEF Flat!ElseFits
<1>7. Flat!OpenAfter(Text, Len(Text)) = OpenAfter(Text, Len(Text))
  BY SameText
<1>8. QED
  BY <1>1, <1>2, <1>4, <1>5, <1>6, <1>7 DEF Flat!Read

\* Each decoding action reads its opcode.
LEMMA DecodesFlat ==
    ASSUME TreeInv,
           \/ \E t \in Opcodes : DecodeLeaf(t) \/ DecodeOpener(t)
           \/ DecodeElse \/ DecodeEnd \/ DecodeBodyEnd
    PROVE  \E t \in Opcodes : DecodesAs(t)
<1>1. ASSUME NEW t \in Opcodes, Decoding(t), nodes' = Linked(Alloc(t), Top, New)
      PROVE  \E L : ReadInto(nodes, Text, frames, L, t, nodes')
  <2>1. /\ Tree(nodes, body, Text, frames)
        /\ nodes' = Linked(Append(nodes, Fresh(t)), Last(frames), Len(nodes) + 1)
    BY <1>1, Reads
  <2>2. ReadInto(nodes, Text, frames, {Len(frames)}, t, nodes')
    BY <2>1, ReadLinked
  <2>3. QED
    BY <2>2
<1>2. "else" \in Opcodes /\ "end" \in Opcodes /\ "end" \notin Structured
  BY DEF Opcodes, Structured
<1>3. ASSUME NEW t \in Opcodes, DecodeLeaf(t)
      PROVE  DecodesAs(t)
  <2>1. Decoding(t) /\ nodes' = Linked(Alloc(t), Top, New) /\ t # "end" /\ mode' = "decode"
    BY <1>3 DEF DecodeLeaf, Decoding
  <2>2. \E L : ReadInto(nodes, Text, frames, L, t, nodes')
    BY <1>1, <2>1
  <2>3. QED
    BY <2>1, <2>2 DEF DecodesAs
<1>4. ASSUME NEW t \in Opcodes, DecodeOpener(t)
      PROVE  DecodesAs(t)
  <2>1. Decoding(t) /\ nodes' = Alloc(t) /\ t # "end" /\ mode' = "decode"
    BY <1>2, <1>4 DEF DecodeOpener, Decoding
  <2>2. Tree(nodes, body, Text, frames) /\ nodes' = Append(nodes, Fresh(t))
    BY <2>1, Reads
  <2>3. ReadInto(nodes, Text, frames, {}, t, nodes')
    BY <2>2, ReadLoose
  <2>4. QED
    BY <2>1, <2>3 DEF DecodesAs
<1>5. ASSUME DecodeElse
      PROVE  DecodesAs("else")
  <2>1. Decoding("else") /\ nodes' = Linked(Alloc("else"), Top, New) /\ mode' = "decode"
    BY <1>5 DEF DecodeElse, Decoding
  <2>2. \E L : ReadInto(nodes, Text, frames, L, "else", nodes')
    BY <1>1, <1>2, <2>1
  <2>3. QED
    BY <1>2, <2>1, <2>2 DEF DecodesAs
<1>6. ASSUME DecodeEnd
      PROVE  DecodesAs("end")
  <2>1. /\ Decoding("end") /\ Top.list # "body" /\ mode' = "decode"
        /\ nodes' = Linked(Linked(Alloc("end"), Top, New), Last(Front(frames)), Top.node)
    BY <1>6 DEF DecodeEnd, Decoding
  <2>2. /\ Tree(nodes, body, Text, frames) /\ Last(frames).list # "body" /\ Top = Last(frames)
        /\ nodes' = Linked(Linked(Append(nodes, Fresh("end")), Last(frames), Len(nodes) + 1),
                           Last(Front(frames)), Last(frames).node)
    BY <2>1, Reads
  <2>3. ReadInto(nodes, Text, frames, {Len(frames) - 1, Len(frames)}, "end", nodes')
    BY <1>2, <2>2, ReadClosing
  <2>4. QED
    BY <1>2, <2>1, <2>3 DEF DecodesAs
<1>7. ASSUME DecodeBodyEnd
      PROVE  DecodesAs("end")
  <2>1. /\ Decoding("end") /\ nodes' = Linked(Alloc("end"), Top, New)
        /\ Top.list = "body" /\ mode' = "ready"
    BY <1>7 DEF DecodeBodyEnd
  <2>2. \E L : ReadInto(nodes, Text, frames, L, "end", nodes')
    BY <1>1, <1>2, <2>1
  <2>3. QED
    BY <1>2, <2>1, <2>2 DEF DecodesAs
<1>8. QED
  BY <1>2, <1>3, <1>4, <1>5, <1>6, <1>7

\* A step that arrives somewhere goes there in the flat code.
LEMMA ArrivesFlat ==
    ASSUME NEW p, Walking(p), NEW q, Arrives(q), nodes' = nodes
    PROVE  Flat!Goto(q)
<1>1. Text' = Text
  BY DEF Text
<1>2. Stands(Text, Len(nodes), ip', labels', q) /\ mode' = "run"
  BY <1>1 DEF Arrives
<1>3. Len(nodes) \in Nat /\ Len(nodes) <= MaxInstrs /\ Len(Text) = Len(nodes)
  BY DEF Walking, Walkable
<1>4. PositionOf(Text, ip', labels') = q
  BY <1>2, <1>3, StandsFor
<1>5. Position' = q
  BY <1>1, <1>4 DEF Position, PositionOf
<1>6. q # 0
  BY <1>2 DEF Stands
<1>7. QED
  BY <1>1, <1>2, <1>5, <1>6 DEF Flat!Goto

\* And one that ends the function ends it there.
LEMMA StopsFlat ==
    ASSUME Stops, nodes' = nodes
    PROVE  Flat!Goto(0)
<1>1. Text' = Text
  BY DEF Text
<1>2. 0 # StaticEnd
  BY BodyAssumption DEF StaticEnd
<1>3. Position' = 0
  BY <1>2 DEF Position, Stops
<1>4. QED
  BY <1>1, <1>3 DEF Flat!Goto, Stops

\* An instruction is executed as in the flat code.
LEMMA ExecutesFlat ==
    ASSUME TreeInv, RunInv, ElseInv, Execute
    PROVE  Flat!Execute
<1>1. mode = "run" /\ nodes' = nodes
  BY Walks DEF Execute
<1>2. PICK p : Walking(p)
  BY <1>1, RunWalks
<1>3. Position = p /\ p \in 1 .. Len(nodes)
  BY <1>2, WalkingAt
<1>4. \A q : Arrives(q) => Flat!Goto(q)
  BY <1>1, <1>2, ArrivesFlat
<1>5. Stops => Flat!Goto(0)
  BY <1>1, StopsFlat
<1>6. CASE Plain
  <2>1. Text[p] = "op" /\ Arrives(p + 1)
    BY <1>2, <1>6, PlainWalks
  <2>2. Flat!Plain
    BY <1>3, <1>4, <2>1 DEF Flat!Plain
  <2>3. QED
    BY <1>1, <2>2 DEF Flat!Execute
<1>7. CASE Return
  <2>1. Text[p] = "op" /\ Stops
    BY <1>2, <1>7, ReturnWalks
  <2>2. Flat!Return
    BY <1>3, <1>5, <2>1 DEF Flat!Return
  <2>3. QED
    BY <1>1, <2>2 DEF Flat!Execute
<1>8. CASE Enter
  <2>1. Text[p] \in Flat!Openers /\ Arrives(p + 1)
    BY <1>2, <1>8, EnterWalks, SameText
  <2>2. Flat!Enter
    BY <1>3, <1>4, <2>1 DEF Flat!Enter
  <2>3. QED
    BY <1>1, <2>2 DEF Flat!Execute
<1>9. CASE Skip
  <2>1. /\ Text[p] = "if"
        /\ \/ \E e \in ElseOf(Text, p) : Arrives(e + 1)
           \/ ElseOf(Text, p) = {} /\ Arrives(EndOf(Text, p))
    BY <1>2, <1>9, SkipWalks
  <2>2. Flat!ElseOf(Text, p) = ElseOf(Text, p) /\ Flat!EndOf(Text, p) = EndOf(Text, p)
    BY SameText
  <2>3. Flat!Skip
    BY <1>3, <1>4, <2>1, <2>2, Zenon DEF Flat!Skip
  <2>4. QED
    BY <1>1, <2>3 DEF Flat!Execute
<1>10. CASE Leave
  <2> DEFINE i == Innermost(Text, p)
  <2>1. /\ Text[p] \in {"else", "end"}
        /\ i = 0 => Stops
        /\ i # 0 => Arrives(EndOf(Text, i) + 1)
        /\ i # 0 /\ Text[p] = "end" => EndOf(Text, i) = p
    BY <1>2, <1>10, LeaveWalks
  <2>2. Flat!Innermost(Text, p) = i /\ Flat!EndOf(Text, i) = EndOf(Text, i)
    BY SameText
  <2>3. Text[p] = "else" => i # 0
    BY <1>3 DEF ElseInv
  <2> HIDE DEF i
  <2>4. CASE Text[p] = "else"
    <3>1. Flat!Goto(EndOf(Text, i) + 1)
      BY <1>4, <2>1, <2>3, <2>4
    <3>2. Flat!LeaveArm
      BY <1>3, <2>2, <2>4, <3>1 DEF Flat!LeaveArm
    <3>3. QED
      BY <1>1, <3>2 DEF Flat!Execute
  <2>5. CASE Text[p] = "end"
    <3>1. Flat!Goto(IF i = 0 THEN 0 ELSE p + 1)
      BY <1>4, <1>5, <2>1, <2>5
    <3>2. Flat!LeaveBlock
      BY <1>3, <2>2, <2>5, <3>1 DEF Flat!LeaveBlock
    <3>3. QED
      BY <1>1, <3>2 DEF Flat!Execute
  <2>6. QED
    BY <2>1, <2>4, <2>5
<1>11. ASSUME NEW m \in 0 .. MaxInstrs, Branch(m)
       PROVE  Flat!Execute
  <2> DEFINE open == Enclosing(Text, p)
             k == Len(open) - m
  <2>1. m \in Nat
    BY BodyAssumption
  <2>2. /\ Text[p] = "op" /\ k >= 0
        /\ k = 0 => Stops
        /\ k # 0 /\ Text[open[k]] = "loop" => Arrives(open[k])
        /\ k # 0 /\ Text[open[k]] # "loop" => Arrives(EndOf(Text, open[k]) + 1)
    BY <1>2, <1>11, <2>1, BranchWalks
  <2>3. Flat!Enclosing(Text, p) = open /\ Flat!EndOf(Text, open[k]) = EndOf(Text, open[k])
    BY SameText
  <2>4. Flat!Goto(IF k = 0 THEN 0
                  ELSE IF Text[open[k]] = "loop" THEN open[k]
                  ELSE EndOf(Text, open[k]) + 1)
    <3> HIDE DEF open, k
    <3>1. QED
      BY <1>4, <1>5, <2>2
  <2>5. Flat!Branch(m)
    BY <1>3, <2>2, <2>3, <2>4, Zenon DEF Flat!Branch
  <2>6. QED
    BY <1>1, <2>5 DEF Flat!Execute
<1>12. QED
  BY <1>6, <1>7, <1>8, <1>9, <1>10, <1>11 DEF Execute

\* At first there is no text.
LEMMA InitFlat ==
    ASSUME Init
    PROVE  Flat!Init /\ RunInv /\ ElseInv
<1>1. nodes = <<>> /\ mode = "decode" /\ ip = 0 /\ 0 # StaticEnd
  BY BodyAssumption DEF Init, NULL, StaticEnd
<1>2. Len(nodes) = 0 /\ Text = <<>>
  BY <1>1 DEF Text
<1>3. Position = 0
  BY <1>1 DEF Position
<1>4. QED
  BY <1>1, <1>2, <1>3 DEF Flat!Init, RunInv, ElseInv

\* Every step is one of the flat code, or none.
LEMMA StepFlat ==
    ASSUME TreeInv, RunInv, ElseInv, ~StrayElse, [Next]_vars
    PROVE  [Flat!Next]_(Flat!vars) /\ ElseInv'
<1>1. CASE \/ \E t \in Opcodes : DecodeLeaf(t) \/ DecodeOpener(t)
           \/ DecodeElse \/ DecodeEnd \/ DecodeBodyEnd
  <2>1. PICK t \in Opcodes : DecodesAs(t)
    BY <1>1, DecodesFlat
  <2>2. Flat!Read(t) /\ ElseInv'
    BY <2>1, ReadsFlat, ElseStaysIn
  <2>3. t \in Flat!Tokens
    BY DEF Flat!Tokens, Flat!Openers, Opcodes, Structured
  <2>4. QED
    BY <2>2, <2>3 DEF Flat!Next
<1>2. ASSUME nodes' = nodes
      PROVE  Text' = Text /\ ElseInv'
  <2>1. Text' = Text
    BY <1>2 DEF Text
  <2>2. QED
    BY <1>2, <2>1 DEF ElseInv
<1>3. CASE DecodeError
  <2>1. mode = "decode" /\ mode' = "refused" /\ nodes' = nodes /\ ip' = ip /\ labels' = labels
    BY <1>3 DEF DecodeError
  <2>2. Text' = Text /\ ElseInv'
    BY <1>2, <2>1
  <2>3. Position' = Position
    BY <2>1, <2>2 DEF Position
  <2>4. Flat!Refuse
    BY <2>1, <2>2, <2>3 DEF Flat!Refuse
  <2>5. QED
    BY <2>2, <2>4 DEF Flat!Next
<1>4. CASE Invoke
  <2>1. mode = "ready" /\ mode' = "run" /\ nodes' = nodes
    BY <1>4 DEF Invoke
  <2>2. Text' = Text /\ ElseInv'
    BY <1>2, <2>1
  <2>3. Stands(Text, Len(nodes), ip', labels', 1)
    BY <1>4, <2>1, <2>2, InvokeWalks DEF Arrives
  <2>4. Len(nodes) \in Nat /\ Len(nodes) <= MaxInstrs /\ Len(Text) = Len(nodes)
    BY <2>1, TreeWalkable DEF Walkable
  <2>5. PositionOf(Text, ip', labels') = 1
    BY <2>3, <2>4, StandsFor
  <2>6. Position' = 1
    BY <2>2, <2>5 DEF Position, PositionOf
  <2>7. Flat!Invoke
    BY <2>1, <2>2, <2>6 DEF Flat!Invoke
  <2>8. QED
    BY <2>2, <2>7 DEF Flat!Next
<1>5. CASE Execute
  <2>1. nodes' = nodes
    BY <1>5, Walks
  <2>2. Flat!Execute
    BY <1>5, ExecutesFlat
  <2>3. QED
    BY <1>2, <2>1, <2>2 DEF Flat!Next
<1>6. CASE UNCHANGED vars
  <2>1. nodes' = nodes /\ mode' = mode /\ ip' = ip /\ labels' = labels
    BY <1>6 DEF vars
  <2>2. Text' = Text /\ ElseInv'
    BY <1>2, <2>1
  <2>3. Position' = Position
    BY <2>1, <2>2 DEF Position
  <2>4. QED
    BY <2>1, <2>2, <2>3 DEF Flat!vars
<1>7. QED
  BY <1>1, <1>3, <1>4, <1>5, <1>6 DEF Next

\* The tree of nodes and the labels implement the flat code, for bodies in which
\* each else is where an if has its first arm open.
THEOREM SpecFlatCode ==
    ASSUME ~StrayElse
    PROVE  Spec => ImplementsFlatCode
<1>1. Init => TreeInv /\ RunInv /\ ElseInv /\ Flat!Init
  BY InitTree, InitFlat
<1>2. TreeInv /\ RunInv /\ ElseInv /\ [Next]_vars =>
          TreeInv' /\ RunInv' /\ ElseInv' /\ [Flat!Next]_(Flat!vars)
  BY TreeStep, RunStep, StepFlat
<1>3. QED
  BY <1>1, <1>2, PTL DEF Spec, ImplementsFlatCode, Flat!Spec
=============================================================================
