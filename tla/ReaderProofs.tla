---------------------------- MODULE ReaderProofs ----------------------------
(***************************************************************************)
(* Proofs about the readers, for any number of bits in a byte, any widths  *)
(* and buffers of any length: a loop that counts bits up from the first    *)
(* byte reads what a grammar that counts them down to the last one means.  *)
(***************************************************************************)
EXTENDS ReaderGrammar, TLAPS, NaturalsInduction, WellFoundedInduction, SequenceTheorems

-----------------------------------------------------------------------------
(* Recursion over the numbers.                                             *)

\* A non-empty part of a well-founded set has a least element.
LEMMA LeastBy ==
    ASSUME NEW R, NEW S, IsWellFoundedOn(R, S), NEW T, T \subseteq S, T # {}
    PROVE  \E x \in T : \A y \in T : ~(<<y, x>> \in R)
  BY WFMin, Zenon

\* The order of the numbers is well founded.
LEMMA LessThan == IsWellFoundedOn({ss \in Nat \X Nat : ss[1] < ss[2]}, Nat)
  BY NatLessThanWellFounded, Zenon DEF OpToRel

\* A non-empty set of numbers has a least one.
LEMMA LeastNat ==
    ASSUME NEW T \in SUBSET Nat, T # {}
    PROVE  \E m \in T : \A k \in T : m <= k
<1> DEFINE R == {ss \in Nat \X Nat : ss[1] < ss[2]}
<1>1. \A k, m \in Nat : k < m => <<k, m>> \in R
  OBVIOUS
<1>2. IsWellFoundedOn(R, Nat)
  BY LessThan
<1> HIDE DEF R
<1>3. T \subseteq Nat
  OBVIOUS
<1>4. \E m \in T : \A k \in T : ~(<<k, m>> \in R)
  BY <1>2, <1>3, LeastBy, Zenon
<1>5. PICK m \in T : \A k \in T : ~(<<k, m>> \in R)
  BY <1>4
<1>6. m \in Nat /\ \A k \in T : k \in Nat /\ ~(k < m)
  BY <1>1, <1>5
<1>7. QED
  BY <1>6

\* Induction, for a set of numbers.
LEMMA Induct ==
    ASSUME NEW T, 0 \in T, \A k \in Nat : k \in T => k + 1 \in T
    PROVE  Nat \subseteq T
<1> DEFINE U == Nat \ T
<1>1. SUFFICES ASSUME U # {} PROVE FALSE
  OBVIOUS
<1>2. PICK m \in U : \A k \in U : m <= k
  BY <1>1, LeastNat
<1>3. m \in Nat /\ m \notin T /\ m # 0
  OBVIOUS
<1>4. m - 1 \in Nat /\ m - 1 \in T
  BY <1>2, <1>3
<1>5. (m - 1) + 1 = m
  BY <1>3
<1>6. QED
  BY <1>3, <1>4, <1>5

\* D gives the value at n of a function into V from its values below n.
IsStep(D, V) ==
    /\ V # {}
    /\ D \in [Nat -> [[Nat -> V] -> V]]
    /\ \A n \in Nat : \A g, h \in [Nat -> V] :
          (\A k \in 0 .. n - 1 : g[k] = h[k]) => D[n][g] = D[n][h]

\* h follows D below n.
Follows(h, D, V, n) ==
    /\ h \in [Nat -> V]
    /\ \A k \in 0 .. n - 1 : h[k] = D[k][h]

\* Two functions that follow D are equal as far as both do.
LEMMA FollowsOnce ==
    ASSUME NEW D, NEW V, IsStep(D, V), NEW g, NEW h, NEW m \in Nat, NEW n \in Nat,
           Follows(g, D, V, m), Follows(h, D, V, n), m <= n
    PROVE  \A k \in 0 .. m - 1 : g[k] = h[k]
<1> DEFINE T == {k \in 0 .. m - 1 : g[k] # h[k]}
<1>1. SUFFICES ASSUME T # {} PROVE FALSE
  OBVIOUS
<1>2. T \in SUBSET Nat
  OBVIOUS
<1>3. PICK k \in T : \A j \in T : k <= j
  BY <1>1, <1>2, LeastNat
<1>4. \A j \in 0 .. k - 1 : g[j] = h[j]
  BY <1>3
<1>5. g \in [Nat -> V] /\ h \in [Nat -> V] /\ k \in Nat
  BY DEF Follows
<1>6. D[k][g] = D[k][h]
  BY <1>4, <1>5 DEF IsStep
<1>7. g[k] = D[k][g] /\ h[k] = D[k][h]
  BY DEF Follows
<1>8. QED
  BY <1>6, <1>7

\* As far as one likes, there is one.
LEMMA FollowsSome ==
    ASSUME NEW D, NEW V, IsStep(D, V)
    PROVE  \A n \in Nat : \E h : Follows(h, D, V, n)
<1> DEFINE T == {n \in Nat : \E h : Follows(h, D, V, n)}
<1>1. 0 \in T
  <2>1. PICK v \in V : TRUE
    BY DEF IsStep
  <2>2. Follows([n \in Nat |-> v], D, V, 0)
    BY DEF Follows
  <2>3. QED
    BY <2>2
<1>2. ASSUME NEW n \in Nat, n \in T
      PROVE  n + 1 \in T
  <2>1. PICK g : Follows(g, D, V, n)
    BY <1>2
  <2>2. g \in [Nat -> V] /\ \A k \in 0 .. n - 1 : g[k] = D[k][g]
    BY <2>1 DEF Follows
  <2>3. \A k \in Nat : \A f \in [Nat -> V] : D[k][f] \in V
    BY DEF IsStep
  <2> DEFINE h == [g EXCEPT ![n] = D[n][g]]
  <2>4. h \in [Nat -> V]
    BY <2>2, <2>3
  <2>5. h[n] = D[n][g] /\ \A k \in 0 .. n - 1 : h[k] = g[k]
    BY <2>2
  <2> HIDE DEF h
  <2>6. ASSUME NEW k \in 0 .. n
        PROVE  h[k] = D[k][h]
    <3>1. k \in Nat /\ \A j \in 0 .. k - 1 : g[j] = h[j]
      BY <2>5
    <3>2. D[k][g] = D[k][h]
      BY <2>2, <2>4, <3>1 DEF IsStep
    <3>3. h[k] = D[k][g]
      BY <2>2, <2>5
    <3>4. QED
      BY <3>2, <3>3
  <2>7. Follows(h, D, V, n + 1)
    BY <2>4, <2>6 DEF Follows
  <2>8. QED
    BY <2>7
<1> HIDE DEF T
<1>3. Nat \subseteq T
  BY <1>1, <1>2, Induct
<1>4. QED
  BY <1>3 DEF T

\* A recursive definition has a solution.
LEMMA Recursion ==
    ASSUME NEW D, NEW V, IsStep(D, V)
    PROVE  \E f \in [Nat -> V] : \A n \in Nat : f[n] = D[n][f]
<1> DEFINE H(n) == CHOOSE h : Follows(h, D, V, n + 1)
           f == [n \in Nat |-> H(n)[n]]
<1>1. \A n \in Nat : Follows(H(n), D, V, n + 1)
  BY FollowsSome
<1> HIDE DEF H
<1>2. \A n \in Nat : H(n) \in [Nat -> V] /\ H(n)[n] = D[n][H(n)]
  BY <1>1 DEF Follows
<1>3. f \in [Nat -> V]
  BY <1>2
<1>4. ASSUME NEW n \in Nat
      PROVE  f[n] = D[n][f]
  <2>1. ASSUME NEW k \in 0 .. n - 1
        PROVE  f[k] = H(n)[k]
    <3>1. k \in Nat /\ k + 1 <= n + 1 /\ k \in 0 .. (k + 1) - 1
      OBVIOUS
    <3>2. H(k)[k] = H(n)[k]
      BY <1>1, <3>1, FollowsOnce
    <3>3. QED
      BY <3>1, <3>2
  <2>2. D[n][f] = D[n][H(n)]
    BY <1>2, <1>3, <2>1 DEF IsStep
  <2>3. QED
    BY <1>2, <2>2
<1>5. QED
  BY <1>3, <1>4

-----------------------------------------------------------------------------
(* Powers of two.                                                          *)

\* Pow2 is what its definition says.
LEMMA Pow2Function ==
    /\ Pow2 \in [Nat -> Nat]
    /\ \A n \in Nat : Pow2[n] = IF n = 0 THEN 1 ELSE 2 * Pow2[n - 1]
<1> DEFINE D == [n \in Nat |-> [h \in [Nat -> Nat] |-> IF n = 0 THEN 1 ELSE 2 * h[n - 1]]]
           Is(f) == f = [n \in Nat |-> IF n = 0 THEN 1 ELSE 2 * f[n - 1]]
<1>1. IsStep(D, Nat)
  <2>1. D \in [Nat -> [[Nat -> Nat] -> Nat]]
    OBVIOUS
  <2>2. ASSUME NEW n \in Nat, NEW g \in [Nat -> Nat], NEW h \in [Nat -> Nat],
               \A k \in 0 .. n - 1 : g[k] = h[k]
        PROVE  D[n][g] = D[n][h]
    <3>1. n # 0 => n - 1 \in 0 .. n - 1
      OBVIOUS
    <3>2. QED
      BY <2>2, <3>1
  <2> HIDE DEF D
  <2>3. QED
    BY <2>1, <2>2 DEF IsStep
<1>2. PICK f \in [Nat -> Nat] : \A n \in Nat : f[n] = D[n][f]
  <2> HIDE DEF D
  <2>1. QED
    BY <1>1, Recursion
<1>3. f = [n \in Nat |-> f[n]]
  OBVIOUS
<1>4. \A n \in Nat : f[n] = IF n = 0 THEN 1 ELSE 2 * f[n - 1]
  BY <1>2
<1>5. Is(f)
  BY <1>3, <1>4
<1>6. Pow2 = CHOOSE g : Is(g)
  BY DEF Pow2
<1>7. Is(Pow2)
  BY <1>5, <1>6
<1>8. \A n \in Nat : Pow2[n] = IF n = 0 THEN 1 ELSE 2 * Pow2[n - 1]
  BY <1>7
<1> DEFINE T == {n \in Nat : Pow2[n] \in Nat}
<1>9. 0 \in T
  BY <1>8
<1>10. ASSUME NEW k \in Nat, k \in T PROVE k + 1 \in T
  <2>1. k + 1 \in Nat /\ k + 1 # 0 /\ (k + 1) - 1 = k
    OBVIOUS
  <2>2. Pow2[k + 1] = 2 * Pow2[k]
    BY <1>8, <2>1
  <2>3. QED
    BY <1>10, <2>2
<1>11. Nat \subseteq T
  <2> HIDE DEF T
  <2>1. QED
    BY <1>9, <1>10, Induct
<1>12. Pow2 = [n \in Nat |-> Pow2[n]]
  BY <1>7
<1>13. QED
  BY <1>8, <1>11, <1>12

\* The equations of Pow2.
LEMMA Pow2Steps ==
    /\ Pow2[0] = 1
    /\ \A n \in Nat : Pow2[n + 1] = 2 * Pow2[n]
<1>1. \A n \in Nat : n + 1 \in Nat /\ n + 1 # 0 /\ (n + 1) - 1 = n
  OBVIOUS
<1>2. QED
  BY <1>1, Pow2Function

\* A power of two is a positive number.
LEMMA Pow2Positive == \A n \in Nat : Pow2[n] \in Nat /\ Pow2[n] >= 1
<1> DEFINE T == {n \in Nat : Pow2[n] >= 1}
<1>1. \A n \in Nat : Pow2[n] \in Nat
  BY Pow2Function
<1>2. 0 \in T
  BY Pow2Steps
<1>3. ASSUME NEW k \in Nat, k \in T PROVE k + 1 \in T
  BY <1>1, <1>3, Pow2Steps
<1>4. Nat \subseteq T
  <2> HIDE DEF T
  <2>1. QED
    BY <1>2, <1>3, Induct
<1>5. QED
  BY <1>1, <1>4

\* Shifting by m and then by n shifts by m + n.
LEMMA Pow2Sum ==
    ASSUME NEW m \in Nat, NEW n \in Nat
    PROVE  Pow2[m + n] = Pow2[m] * Pow2[n]
<1> DEFINE T == {k \in Nat : Pow2[m + k] = Pow2[m] * Pow2[k]}
<1>1. \A k \in Nat : Pow2[k] \in Nat
  BY Pow2Function
<1>2. 0 \in T
  BY <1>1, Pow2Steps
<1>3. ASSUME NEW k \in Nat, k \in T PROVE k + 1 \in T
  <2>1. Pow2[m + (k + 1)] = 2 * Pow2[m + k] /\ Pow2[k + 1] = 2 * Pow2[k]
    BY Pow2Steps
  <2>2. 2 * (Pow2[m] * Pow2[k]) = Pow2[m] * (2 * Pow2[k])
    BY <1>1
  <2>3. QED
    BY <1>3, <2>1, <2>2
<1>4. Nat \subseteq T
  <2> HIDE DEF T
  <2>1. QED
    BY <1>2, <1>3, Induct
<1>5. QED
  BY <1>4

\* A greater shift gives a greater power.
LEMMA Pow2Grows ==
    ASSUME NEW m \in Nat, NEW n \in Nat, m <= n
    PROVE  Pow2[m] <= Pow2[n]
<1>1. n - m \in Nat /\ n = m + (n - m)
  OBVIOUS
<1>2. Pow2[n] = Pow2[m] * Pow2[n - m]
  BY <1>1, Pow2Sum
<1>3. \A a, b \in Nat : b >= 1 => a <= a * b
  OBVIOUS
<1>4. QED
  BY <1>1, <1>2, <1>3, Pow2Positive

-----------------------------------------------------------------------------
(* The grammar.                                                            *)

\* What a byte holds: its payload is a number of B bits, and all of the byte
\* when no other follows.
LEMMA Bytes ==
    ASSUME NEW b \in Byte
    PROVE  /\ b \in Nat
           /\ Payload(b) \in 0 .. Pow2[B] - 1
           /\ ~More(b) => Payload(b) = b
<1>1. B \in Nat /\ B + 1 \in Nat
  BY WidthAssumption
<1>2. Pow2[B + 1] \in Nat /\ Pow2[B] \in Nat /\ Pow2[B] >= 1
  BY <1>1, Pow2Positive
<1>3. b \in Nat
  BY <1>2 DEF Byte
<1>4. \A a, d \in Nat : d >= 1 => a % d \in 0 .. d - 1 /\ (a < d => a % d = a)
  OBVIOUS
<1>5. b % Pow2[B] \in 0 .. Pow2[B] - 1 /\ (b < Pow2[B] => b % Pow2[B] = b)
  BY <1>2, <1>3, <1>4
<1>6. ~(b >= Pow2[B]) => b < Pow2[B]
  BY <1>2, <1>3
<1>7. QED
  BY <1>3, <1>5, <1>6, Zenon DEF Payload, More

\* The numbers encoded by a string are the ones of its first byte and what the
\* rest encodes in B bits less.
NumbersAt(signed, f, N, s) ==
    IF s = <<>> THEN {}
    ELSE IF ~More(Head(s))
    THEN {n \in {LastNumber(signed, Head(s))} : Len(s) = 1 /\ Holds(signed, N, n)}
    ELSE {m * Pow2[B] + Payload(Head(s)) : m \in IF N > B THEN f[N - B][Tail(s)] ELSE {}}

\* They are integers.
LEMMA NumbersAtType ==
    ASSUME NEW signed, NEW f, NEW N \in Nat, NEW s \in Seq(Byte),
           N > B => f[N - B] \in [Seq(Byte) -> SUBSET Int]
    PROVE  NumbersAt(signed, f, N, s) \in SUBSET Int
<1>1. B \in Nat /\ Pow2[B] \in Nat
  BY WidthAssumption, Pow2Positive
<1>2. CASE s = <<>>
  BY <1>2 DEF NumbersAt
<1>3. CASE s # <<>>
  <2>1. Head(s) \in Byte /\ Tail(s) \in Seq(Byte)
    BY <1>3
  <2>2. Head(s) \in Nat /\ Payload(Head(s)) \in Int
    BY <2>1, Bytes
  <2>3. CASE ~More(Head(s))
    <3>1. LastNumber(signed, Head(s)) \in Int
      BY <1>1, <2>2 DEF LastNumber
    <3>2. QED
      BY <1>3, <2>3, <3>1 DEF NumbersAt
  <2>4. CASE More(Head(s))
    <3> DEFINE S == IF N > B THEN f[N - B][Tail(s)] ELSE {}
    <3>1. S \in SUBSET Int
      BY <2>1
    <3>2. NumbersAt(signed, f, N, s) = {m * Pow2[B] + Payload(Head(s)) : m \in S}
      BY <1>3, <2>4 DEF NumbersAt
    <3> HIDE DEF S
    <3>3. \A m \in S : m * Pow2[B] + Payload(Head(s)) \in Int
      <4>1. \A m, d, e \in Int : m * d + e \in Int
        OBVIOUS
      <4>2. Pow2[B] \in Int /\ \A m \in S : m \in Int
        BY <1>1, <3>1
      <4>3. QED
        BY <2>2, <4>1, <4>2
    <3>4. QED
      BY <3>2, <3>3
  <2>5. QED
    BY <2>3, <2>4
<1>4. QED
  BY <1>2, <1>3

\* Numbers is what its definition says.
LEMMA NumbersFunction ==
    ASSUME NEW signed
    PROVE  /\ Numbers(signed) \in [Nat -> [Seq(Byte) -> SUBSET Int]]
           /\ \A N \in Nat : \A s \in Seq(Byte) :
                 Numbers(signed)[N][s] = NumbersAt(signed, Numbers(signed), N, s)
<1> DEFINE V == [Seq(Byte) -> SUBSET Int]
           D == [N \in Nat |-> [h \in [Nat -> V] |->
                   [s \in Seq(Byte) |-> NumbersAt(signed, h, N, s)]]]
           Is(f) == f = [N \in Nat |-> [s \in Seq(Byte) |->
                IF s = <<>> THEN {}
                ELSE IF ~More(Head(s))
                THEN {n \in {LastNumber(signed, Head(s))} : Len(s) = 1 /\ Holds(signed, N, n)}
                ELSE {m * Pow2[B] + Payload(Head(s)) :
                         m \in IF N > B THEN f[N - B][Tail(s)] ELSE {}}]]
<1>1. IsStep(D, V)
  <2>1. V # {}
    <3>1. [s \in Seq(Byte) |-> {}] \in V
      OBVIOUS
    <3>2. QED
      BY <3>1
  <2>2. \A N \in Nat : \A h \in [Nat -> V] : [s \in Seq(Byte) |-> NumbersAt(signed, h, N, s)] \in V
    <3>1. ASSUME NEW N \in Nat, NEW h \in [Nat -> V], NEW s \in Seq(Byte)
          PROVE  NumbersAt(signed, h, N, s) \in SUBSET Int
      <4>1. N > B => N - B \in Nat
        BY WidthAssumption
      <4>2. N > B => h[N - B] \in V
        BY <4>1
      <4>3. QED
        BY <4>2, NumbersAtType
    <3>2. QED
      BY <3>1
  <2>3. ASSUME NEW N \in Nat, NEW g \in [Nat -> V], NEW h \in [Nat -> V],
               \A k \in 0 .. N - 1 : g[k] = h[k]
        PROVE  \A s \in Seq(Byte) : NumbersAt(signed, g, N, s) = NumbersAt(signed, h, N, s)
    <3>1. N > B => N - B \in 0 .. N - 1
      BY WidthAssumption
    <3>2. N > B => g[N - B] = h[N - B]
      BY <2>3, <3>1
    <3>3. QED
      BY <3>2 DEF NumbersAt
  <2> HIDE DEF V
  <2>4. D \in [Nat -> [[Nat -> V] -> V]]
    BY <2>2
  <2>5. \A N \in Nat : \A g, h \in [Nat -> V] :
           (\A k \in 0 .. N - 1 : g[k] = h[k]) => D[N][g] = D[N][h]
    BY <2>3
  <2> HIDE DEF D
  <2>6. QED
    BY <2>1, <2>4, <2>5 DEF IsStep
<1>2. PICK f \in [Nat -> V] : \A N \in Nat : f[N] = D[N][f]
  <2> HIDE DEF D, V
  <2>1. QED
    BY <1>1, Recursion
<1>3. f = [N \in Nat |-> f[N]]
  OBVIOUS
<1>4. \A N \in Nat : f[N] = [s \in Seq(Byte) |-> NumbersAt(signed, f, N, s)]
  BY <1>2
<1>5. Is(f)
  BY <1>3, <1>4, Zenon DEF NumbersAt
<1>6. Numbers(signed) = CHOOSE g : Is(g)
  BY DEF Numbers
<1>7. Is(Numbers(signed))
  <2> HIDE DEF Is
  <2>1. QED
    BY <1>5, <1>6
<1> DEFINE u == Numbers(signed)
<1>8. u = [N \in Nat |-> [s \in Seq(Byte) |-> NumbersAt(signed, u, N, s)]]
  BY <1>7 DEF NumbersAt
<1> HIDE DEF u
<1>9. \A N \in Nat : u[N] = [s \in Seq(Byte) |-> NumbersAt(signed, u, N, s)]
  BY <1>8
<1>10. \A N \in Nat : \A s \in Seq(Byte) : u[N][s] = NumbersAt(signed, u, N, s)
  BY <1>9
<1> DEFINE T == {N \in Nat : u[N] \notin V}
<1>11. T = {}
  <2>1. SUFFICES ASSUME T # {} PROVE FALSE
    OBVIOUS
  <2>2. PICK N \in T : \A k \in T : N <= k
    BY <2>1, LeastNat
  <2>3. N > B => N - B \in Nat /\ N - B < N
    BY WidthAssumption
  <2>4. N > B => u[N - B] \in V
    BY <2>2, <2>3
  <2>5. \A s \in Seq(Byte) : NumbersAt(signed, u, N, s) \in SUBSET Int
    BY <2>4, NumbersAtType
  <2>6. u[N] \in V
    BY <1>9, <2>5
  <2>7. QED
    BY <2>6
<1>12. u \in [Nat -> V]
  BY <1>8, <1>11
<1>13. QED
  BY <1>10, <1>12 DEF u

\* An encoding begins with a byte.
LEMMA NumbersOfNothing ==
    ASSUME NEW signed, NEW N \in Nat
    PROVE  Numbers(signed)[N][<< >>] = {}
<1>1. << >> \in Seq(Byte)
  OBVIOUS
<1>2. QED
  BY <1>1, NumbersFunction DEF NumbersAt

\* What the bytes before one that ends the number and one that does not encode.
LEMMA NumbersOfByte ==
    ASSUME NEW signed, NEW N \in Nat, NEW b \in Byte, NEW t \in Seq(Byte)
    PROVE  /\ ~More(b) =>
                 Numbers(signed)[N][<< b >> \o t] =
                    IF t = << >> /\ Holds(signed, N, LastNumber(signed, b))
                    THEN {LastNumber(signed, b)} ELSE {}
           /\ More(b) /\ N > B =>
                 Numbers(signed)[N][<< b >> \o t] =
                    {m * Pow2[B] + Payload(b) : m \in Numbers(signed)[N - B][t]}
           /\ More(b) /\ N <= B =>
                 Numbers(signed)[N][<< b >> \o t] = {}
<1> DEFINE s == << b >> \o t
<1>1. /\ s \in Seq(Byte) /\ s # << >> /\ Head(s) = b /\ Tail(s) = t
      /\ Len(s) = 1 <=> t = << >>
  <2>1. s \in Seq(Byte) /\ Len(s) = 1 + Len(t) /\ s[1] = b
    OBVIOUS
  <2>2. s # << >> /\ Head(s) = b
    BY <2>1
  <2>3. Tail(s) = t
    OBVIOUS
  <2>4. Len(t) \in Nat /\ (Len(t) = 0 <=> t = << >>)
    OBVIOUS
  <2>5. QED
    BY <2>1, <2>2, <2>3, <2>4
<1>2. Numbers(signed)[N][s] = NumbersAt(signed, Numbers(signed), N, s)
  BY <1>1, NumbersFunction
<1> HIDE DEF s
<1>3. CASE ~More(b)
  <2>1. Numbers(signed)[N][s] =
           {n \in {LastNumber(signed, b)} : t = << >> /\ Holds(signed, N, n)}
    BY <1>1, <1>2, <1>3, Zenon DEF NumbersAt
  <2>2. QED
    BY <1>3, <2>1, Zenon DEF s
<1>4. CASE More(b)
  <2>1. Numbers(signed)[N][s] =
           {m * Pow2[B] + Payload(b) : m \in IF N > B THEN Numbers(signed)[N - B][t] ELSE {}}
    BY <1>1, <1>2, <1>4, Zenon DEF NumbersAt
  <2>2. N \in Int /\ B \in Int
    BY WidthAssumption
  <2>3. N <= B <=> ~(N > B)
    BY <2>2
  <2>4. QED
    BY <1>4, <2>1, <2>3 DEF s
<1>5. QED
  BY <1>3, <1>4

-----------------------------------------------------------------------------
(* One byte more.                                                          *)

\* The places the bytes of a number go to.
Place(sh) == sh \in Nat /\ sh % B = 0

\* Behind a place there is room for a whole byte below the last bit of W64, or
\* the place is that bit.
LEMMA Places ==
    ASSUME NEW sh, Place(sh), sh < W64
    PROVE  /\ Place(sh + B)
           /\ sh + B <= W64 - 1 \/ sh = W64 - 1
           /\ sh < B => sh = 0
<1>1. B \in Nat /\ B >= 1 /\ W64 \in Nat /\ (W64 - 1) % B = 0
  BY WidthAssumption
<1>2. \A x \in Int, d \in Nat : d >= 1 /\ x % d = 0 => x = d * (x \div d) /\ x \div d \in Int
  OBVIOUS
<1>3. PICK j \in Int : sh = B * j
  <2>1. sh \in Int /\ sh % B = 0
    BY DEF Place
  <2>2. sh = B * (sh \div B) /\ sh \div B \in Int
    BY <1>1, <1>2, <2>1
  <2>3. QED
    BY <2>2
<1>4. PICK k \in Int : W64 - 1 = B * k
  <2>1. W64 - 1 \in Int
    BY <1>1
  <2>2. W64 - 1 = B * ((W64 - 1) \div B) /\ (W64 - 1) \div B \in Int
    BY <1>1, <1>2, <2>1
  <2>3. QED
    BY <2>2
<1>5. B * j + B = B * (j + 1)
  BY <1>1
<1>6. \A q \in Int, d \in Nat : d >= 1 => (d * q) % d = 0
  OBVIOUS
<1>7. Place(sh + B)
  <2>1. sh + B \in Nat
    BY <1>1 DEF Place
  <2>2. (B * (j + 1)) % B = 0
    BY <1>1, <1>6
  <2>3. QED
    BY <1>3, <1>5, <2>1, <2>2 DEF Place
<1>8. \A x, y \in Int, d \in Nat : d >= 1 /\ x <= y => d * x <= d * y
  OBVIOUS
<1>9. sh + B <= W64 - 1 \/ sh = W64 - 1
  <2>1. CASE j + 1 <= k
    BY <1>1, <1>3, <1>4, <1>5, <1>8, <2>1
  <2>2. CASE k <= j
    <3>1. B * k <= B * j
      BY <1>1, <1>8, <2>2
    <3>2. sh \in Nat
      BY DEF Place
    <3>3. QED
      BY <1>1, <1>3, <1>4, <3>1, <3>2
  <2>3. QED
    BY <2>1, <2>2
<1>10. ASSUME sh < B PROVE sh = 0
  <2>1. \A d, x \in Nat : d >= 1 /\ x < d => x % d = x
    OBVIOUS
  <2>2. QED
    BY <1>1, <1>10, <2>1 DEF Place
<1>11. QED
  BY <1>7, <1>9, <1>10

\* The place that completes 64 bits.
LEMMA LastPlace == B * ((W64 + B - 1) \div B) = W64 - 1 + B
<1>1. B \in Nat /\ B >= 1 /\ W64 \in Nat /\ (W64 - 1) % B = 0
  BY WidthAssumption
<1>2. \A x \in Int, d \in Nat : d >= 1 /\ x % d = 0 => x = d * (x \div d) /\ x \div d \in Int
  OBVIOUS
<1>3. PICK k \in Int : W64 - 1 = B * k
  <2>1. W64 - 1 \in Int
    BY <1>1
  <2>2. W64 - 1 = B * ((W64 - 1) \div B) /\ (W64 - 1) \div B \in Int
    BY <1>1, <1>2, <2>1
  <2>3. QED
    BY <2>2
<1>4. W64 + B - 1 = B * (k + 1)
  BY <1>1, <1>3
<1>5. \A q \in Int, d \in Nat : d >= 1 => (d * q) \div d = q
  OBVIOUS
<1>6. (W64 + B - 1) \div B = k + 1
  BY <1>1, <1>4, <1>5
<1>7. QED
  BY <1>1, <1>3, <1>6

\* A digit in front of a number below d: how they compare with a multiple of d.
LEMMA Digit ==
    ASSUME NEW d \in Nat, NEW r \in 0 .. d - 1, NEW a \in Int, NEW q \in Int
    PROVE  a < q <=> a * d + r < q * d
<1>1. d \in Nat /\ d >= 1 /\ r \in Nat /\ r < d
  OBVIOUS
<1>2. \A x, y \in Int : x <= y => x * d <= y * d
  BY <1>1
<1>3. ASSUME a < q PROVE a * d + r < q * d
  <2>1. (a + 1) * d <= q * d
    BY <1>2, <1>3
  <2>2. (a + 1) * d = a * d + d
    BY <1>1
  <2>3. a * d \in Int /\ q * d \in Int
    BY <1>1
  <2>4. QED
    BY <1>1, <2>1, <2>2, <2>3
<1>4. ASSUME ~(a < q) PROVE ~(a * d + r < q * d)
  <2>1. q * d <= a * d
    BY <1>2, <1>4
  <2>2. a * d \in Int /\ q * d \in Int
    BY <1>1
  <2>3. QED
    BY <1>1, <2>1, <2>2
<1>5. QED
  BY <1>3, <1>4

\* Bits in front of the ones already read: the number they make has N bits when
\* they have N less what was read.
LEMMA HoldsShifted ==
    ASSUME NEW signed, NEW N \in Nat, NEW sh \in Nat, sh < N,
           NEW r \in 0 .. Pow2[sh] - 1, NEW n \in Int
    PROVE  Holds(signed, N - sh, n) <=> Holds(signed, N, n * Pow2[sh] + r)
<1> DEFINE d == Pow2[sh]
<1>1. d \in Nat
  BY Pow2Positive
<1>2. n * d + r \in Int
  BY <1>1
<1>3. CASE ~signed
  <2>1. N - sh \in Nat /\ N = (N - sh) + sh
    OBVIOUS
  <2>2. Pow2[N] = Pow2[N - sh] * d /\ Pow2[N - sh] \in Nat
    BY <2>1, Pow2Sum, Pow2Positive
  <2>3. n < Pow2[N - sh] <=> n * d + r < Pow2[N - sh] * d
    BY <1>1, <2>2, Digit
  <2>4. QED
    BY <1>3, <2>2, <2>3 DEF Holds
<1>4. CASE signed
  <2>1. N - sh - 1 \in Nat /\ N - 1 = (N - sh - 1) + sh
    OBVIOUS
  <2>2. Pow2[N - 1] = Pow2[N - sh - 1] * d /\ Pow2[N - sh - 1] \in Nat
    BY <2>1, Pow2Sum, Pow2Positive
  <2> DEFINE q == Pow2[N - sh - 1]
  <2>3. n < q <=> n * d + r < q * d
    <3>1. q \in Int /\ r \in 0 .. d - 1
      BY <2>2
    <3> HIDE DEF d, q
    <3>2. QED
      BY <1>1, <3>1, Digit
  <2>4. n < -q <=> n * d + r < (-q) * d
    <3>1. -q \in Int /\ r \in 0 .. d - 1
      BY <2>2
    <3> HIDE DEF d, q
    <3>2. QED
      BY <1>1, <3>1, Digit
  <2>5. (-q) * d = -(q * d) /\ q * d \in Nat
    BY <1>1, <2>2
  <2>6. n \in -q .. q - 1 <=> n * d + r \in -(q * d) .. q * d - 1
    <3> HIDE DEF d
    <3>1. n * d \in Int
      BY <1>1
    <3>2. QED
      BY <1>2, <2>2, <2>3, <2>4, <2>5
  <2>7. QED
    BY <1>4, <2>2, <2>6 DEF Holds
<1>5. QED
  BY <1>3, <1>4

\* What result holds behind a byte that fits whole.
LEMMA ShiftedFits ==
    ASSUME NEW sh \in Nat, NEW r \in 0 .. Pow2[sh] - 1, NEW b \in Byte, sh + B <= W64
    PROVE  /\ Shifted(r, b, sh) = Payload(b) * Pow2[sh] + r
           /\ Shifted(r, b, sh) \in 0 .. Pow2[sh + B] - 1
           /\ Pow2[sh + B] = Pow2[B] * Pow2[sh]
<1> DEFINE d == Pow2[sh]
           p == Payload(b)
<1>1. B \in Nat /\ W64 \in Nat /\ sh + B \in Nat
  BY WidthAssumption
<1>2. d \in Nat /\ Pow2[B] \in Nat /\ p \in 0 .. Pow2[B] - 1
  BY <1>1, Bytes, Pow2Positive
<1>3. Pow2[sh + B] = Pow2[B] * d
  <2>1. Pow2[sh + B] = d * Pow2[B]
    BY <1>1, Pow2Sum
  <2>2. d * Pow2[B] = Pow2[B] * d
    BY <1>2
  <2>3. QED
    BY <2>1, <2>2
<1>4. p * d + r < Pow2[B] * d
  <2>1. p \in Int /\ Pow2[B] \in Int /\ p < Pow2[B]
    BY <1>2
  <2>2. QED
    BY <1>2, <2>1, Digit
<1>5. p * d + r \in Nat
  BY <1>2
<1>6. Pow2[sh + B] <= Pow2[W64] /\ Pow2[W64] \in Nat
  BY <1>1, Pow2Grows, Pow2Positive
<1>7. Shifted(r, b, sh) = (p * d + r) % Pow2[W64]
  <2>1. r + p * d = p * d + r
    BY <1>2
  <2>2. QED
    BY <2>1 DEF Shifted
<1> HIDE DEF d, p
<1>8. Pow2[B] * d \in Nat
  BY <1>2
<1>9. p * d + r < Pow2[W64]
  BY <1>3, <1>4, <1>5, <1>6, <1>8
<1>10. \A a, m \in Nat : a < m => a % m = a
  OBVIOUS
<1>11. (p * d + r) % Pow2[W64] = p * d + r
  BY <1>5, <1>6, <1>9, <1>10
<1>12. QED
  BY <1>3, <1>4, <1>5, <1>7, <1>8, <1>11 DEF d, p

-----------------------------------------------------------------------------
(* The last byte.                                                          *)

\* What the last byte stands for.
LEMMA LastNumbers ==
    ASSUME NEW b \in Byte, ~More(b)
    PROVE  /\ LastNumber(FALSE, b) = Payload(b)
           /\ LastNumber(TRUE, b) = IF SignBit(b) THEN Payload(b) - Pow2[B] ELSE Payload(b)
           /\ LastNumber(TRUE, b) \in -Pow2[B - 1] .. Pow2[B - 1] - 1
           /\ Pow2[B] = 2 * Pow2[B - 1]
           /\ Pow2[B - 1] \in Nat /\ Pow2[B - 1] >= 1
<1>1. B - 1 \in Nat /\ (B - 1) + 1 = B
  BY WidthAssumption
<1>2. Pow2[B] = 2 * Pow2[B - 1] /\ Pow2[B - 1] \in Nat /\ Pow2[B - 1] >= 1
  BY <1>1, Pow2Steps, Pow2Positive
<1>3. Payload(b) = b /\ Payload(b) \in 0 .. Pow2[B] - 1
  BY Bytes
<1>4. LastNumber(TRUE, b) = IF SignBit(b) THEN Payload(b) - Pow2[B] ELSE Payload(b)
  BY <1>3 DEF LastNumber
<1>5. SignBit(b) <=> Payload(b) >= Pow2[B - 1]
  BY DEF SignBit
<1>6. QED
  BY <1>2, <1>3, <1>4, <1>5 DEF LastNumber

\* read_leb128_signed takes the last byte of 64 bits when it stands for what is
\* left of them, and any other.
LEMMA LastByteFitsHolds ==
    ASSUME NEW sh, Place(sh), sh < W64, NEW b \in Byte, ~More(b)
    PROVE  /\ LastByteFits(b, sh + B) <=> Holds(TRUE, W64 - sh, LastNumber(TRUE, b))
           /\ sh + B <= W64 - 1 => LastByteFits(b, sh + B)
           /\ sh = W64 - 1 /\ LastByteFits(b, sh + B) => Payload(b) \in {0, Pow2[B] - 1}
<1> DEFINE n == LastNumber(TRUE, b)
           p == Payload(b)
           h == Pow2[B - 1]
<1>1. B \in Nat /\ B >= 1 /\ W64 \in Nat /\ sh \in Nat
  BY WidthAssumption DEF Place
<1>2. /\ n = IF SignBit(b) THEN p - Pow2[B] ELSE p
      /\ n \in -h .. h - 1
      /\ Pow2[B] = 2 * h
      /\ h \in Nat /\ h >= 1
  BY LastNumbers
<1>3. LastByteFits(b, sh + B) <=> (sh + B = W64 - 1 + B => p \in {0, Pow2[B] - 1})
  BY LastPlace DEF LastByteFits
<1>4. CASE sh + B <= W64 - 1
  <2>1. LastByteFits(b, sh + B)
    BY <1>1, <1>3, <1>4
  <2>2. B - 1 \in Nat /\ W64 - sh - 1 \in Nat /\ B - 1 <= W64 - sh - 1
    BY <1>1, <1>4
  <2>3. h <= Pow2[W64 - sh - 1] /\ Pow2[W64 - sh - 1] \in Nat
    BY <2>2, Pow2Grows, Pow2Positive
  <2> HIDE DEF n, h
  <2>4. n \in -Pow2[W64 - sh - 1] .. Pow2[W64 - sh - 1] - 1
    BY <1>2, <2>3
  <2>5. Holds(TRUE, W64 - sh, n)
    BY <2>4 DEF Holds
  <2>6. sh # W64 - 1
    BY <1>1, <1>4
  <2>7. QED
    BY <2>1, <2>5, <2>6 DEF n
<1>5. CASE sh = W64 - 1
  <2>1. W64 - sh = 1 /\ Pow2[1 - 1] = 1
    BY <1>1, <1>5, Pow2Steps
  <2>2. Holds(TRUE, W64 - sh, n) <=> n \in -1 .. 0
    <3> HIDE DEF n
    <3>1. Holds(TRUE, 1, n) <=> n \in -Pow2[1 - 1] .. Pow2[1 - 1] - 1
      BY DEF Holds
    <3>2. -Pow2[1 - 1] .. Pow2[1 - 1] - 1 = -1 .. 0
      <4> DEFINE o == Pow2[1 - 1]
      <4>1. o = 1
        BY <2>1
      <4> HIDE DEF o
      <4>2. -o .. o - 1 = -1 .. 0
        BY <4>1
      <4>3. QED
        BY <4>2 DEF o
    <3>3. QED
      BY <2>1, <3>1, <3>2, Zenon
  <2>3. LastByteFits(b, sh + B) <=> p \in {0, Pow2[B] - 1}
    BY <1>1, <1>3, <1>5
  <2>4. p \in 0 .. Pow2[B] - 1 /\ (SignBit(b) <=> p >= h)
    BY Bytes DEF SignBit
  <2> HIDE DEF n, h, p
  <2>5. n \in -1 .. 0 <=> p \in {0, Pow2[B] - 1}
    BY <1>2, <2>4
  <2>6. ~(sh + B <= W64 - 1)
    BY <1>1, <1>5
  <2>7. QED
    BY <2>2, <2>3, <2>5, <2>6 DEF n, p
<1>6. QED
  BY <1>4, <1>5, Places

\* Its sign is extended: the result is the number of the last byte, moved in
\* front of the bits read before it.
LEMMA SignExtends ==
    ASSUME NEW sh, Place(sh), sh < W64, NEW r \in 0 .. Pow2[sh] - 1,
           NEW b \in Byte, ~More(b), LastByteFits(b, sh + B)
    PROVE  SignExtended(Shifted(r, b, sh), b, sh + B) = LastNumber(TRUE, b) * Pow2[sh] + r
<1> DEFINE n == LastNumber(TRUE, b)
           p == Payload(b)
           h == Pow2[B - 1]
           d == Pow2[sh]
           e == Pow2[W64 - 1]
           v == Shifted(r, b, sh)
<1>1. B \in Nat /\ B >= 1 /\ W64 \in Nat /\ W64 - 1 \in Nat /\ sh \in Nat
  BY WidthAssumption DEF Place
<1>2. /\ n = IF SignBit(b) THEN p - Pow2[B] ELSE p
      /\ Pow2[B] = 2 * h
      /\ h \in Nat /\ h >= 1
      /\ p \in 0 .. Pow2[B] - 1
      /\ SignBit(b) <=> p >= h
  BY LastNumbers, Bytes DEF SignBit
<1>3. /\ Pow2[W64] = 2 * e /\ e \in Nat /\ e >= 1
      /\ d \in Nat /\ d >= 1 /\ r \in 0 .. d - 1
  <2>1. (W64 - 1) + 1 = W64
    BY <1>1
  <2>2. QED
    BY <1>1, <2>1, Pow2Steps, Pow2Positive
<1>4. CASE sh + B <= W64 - 1
  <2>1. sh + B <= W64 /\ sh + B < W64
    BY <1>1, <1>4
  <2>2. /\ v = p * d + r
        /\ v \in 0 .. Pow2[sh + B] - 1
        /\ Pow2[sh + B] = Pow2[B] * d
    BY <1>1, <2>1, ShiftedFits
  <2>3. Pow2[sh + B] <= e /\ Pow2[sh + B] \in Nat
    BY <1>1, <1>4, Pow2Grows, Pow2Positive
  <2>4. SignExtended(v, b, sh + B) =
           LET bits == IF SignBit(b) THEN v + (2 * e - Pow2[sh + B]) ELSE v
           IN  IF bits >= e THEN bits - 2 * e ELSE bits
    BY <1>3, <2>1 DEF SignExtended
  <2> DEFINE x == SignExtended(v, b, sh + B)
             s == Pow2[sh + B]
  <2>5. v \in 0 .. s - 1 /\ s \in Nat /\ s <= e
    BY <2>2, <2>3
  <2>6. CASE SignBit(b)
    <3>1. x = v - s
      <4>1. x = IF v + (2 * e - s) >= e THEN (v + (2 * e - s)) - 2 * e ELSE v + (2 * e - s)
        BY <2>4, <2>6
      <4> HIDE DEF x, s, v, e
      <4>2. QED
        BY <1>3, <2>5, <4>1
    <3>2. (p - Pow2[B]) * d = p * d - Pow2[B] * d
      BY <1>2, <1>3
    <3>3. n = p - Pow2[B]
      BY <1>2, <2>6
    <3>4. v - s = (p * d + r) - Pow2[B] * d
      BY <2>2
    <3>5. p * d \in Int /\ Pow2[B] * d \in Int /\ r \in Int
      BY <1>2, <1>3
    <3> HIDE DEF n, p, d, s, v, x
    <3>6. n * d + r = v - s
      BY <3>2, <3>3, <3>4, <3>5
    <3>7. QED
      BY <3>1, <3>6 DEF n, p, d, s, v, x
  <2>7. CASE ~SignBit(b)
    <3>1. n = p /\ p < h /\ p \in Int
      <4> HIDE DEF n, p, h
      <4>1. QED
        BY <1>2, <2>7
    <3>2. v < h * d
      <4> HIDE DEF d, p, h, v
      <4>1. QED
        BY <1>2, <1>3, <2>2, <3>1, Digit
    <3>3. Pow2[B] * d = 2 * (h * d) /\ h * d \in Nat
      BY <1>2, <1>3
    <3>4. v < e
      <4> HIDE DEF d, h, v, e
      <4>1. QED
        BY <1>3, <2>2, <2>5, <3>2, <3>3
    <3>5. x = IF v >= e THEN v - 2 * e ELSE v
      BY <2>4, <2>7
    <3>6. x = v
      <4> HIDE DEF x, v, e
      <4>1. QED
        BY <1>3, <2>5, <3>4, <3>5
    <3>7. QED
      BY <2>2, <3>1, <3>6
  <2>8. QED
    BY <2>6, <2>7
<1>5. CASE sh = W64 - 1
  <2>1. d = e /\ ~(sh + B < W64)
    BY <1>1, <1>5
  <2>2. p \in {0, Pow2[B] - 1}
    BY <1>5, LastByteFitsHolds
  <2>3. SignExtended(v, b, sh + B) = IF v >= e THEN v - 2 * e ELSE v
    BY <1>3, <2>1 DEF SignExtended
  <2>4. v = (r + p * e) % (2 * e)
    BY <1>3, <2>1 DEF Shifted
  <2>5. \A a, m \in Nat : a < m => a % m = a
    OBVIOUS
  <2>6. CASE p = 0
    <3>1. r + p * e = r /\ r \in Nat /\ r < 2 * e /\ r < e /\ 2 * e \in Nat
      BY <1>3, <2>1, <2>6
    <3>2. v = r
      BY <2>4, <2>5, <3>1
    <3>3. n = 0
      <4> HIDE DEF n, p, h
      <4>1. QED
        BY <1>2, <2>6
    <3>4. ~(v >= e)
      BY <1>3, <3>1, <3>2
    <3>5. n * d + r = r
      <4> HIDE DEF n, d
      <4>1. QED
        BY <1>3, <3>1, <3>3
    <3>6. QED
      BY <2>3, <3>2, <3>4, <3>5
  <2>7. CASE p = Pow2[B] - 1
    <3>1. r + p * e = (2 * e) * (h - 1) + (r + e)
      BY <1>2, <1>3, <2>1, <2>7
    <3>2. \A q, a, m \in Nat : a < m => (m * q + a) % m = a
      OBVIOUS
    <3>3. h - 1 \in Nat /\ r + e \in Nat /\ 2 * e \in Nat /\ r + e < 2 * e /\ r \in Nat
      BY <1>2, <1>3, <2>1
    <3>4. ((2 * e) * (h - 1) + (r + e)) % (2 * e) = r + e
      BY <3>2, <3>3
    <3>5. v = r + e
      BY <2>4, <3>1, <3>4
    <3>6. n = -1
      <4> HIDE DEF n, p, h
      <4>1. p >= h
        BY <1>2, <2>7
      <4>2. QED
        BY <1>2, <2>7, <4>1
    <3>7. v >= e /\ v - 2 * e = r - e
      BY <1>3, <3>3, <3>5
    <3>8. n * d + r = r - e
      <4> HIDE DEF n, d, e
      <4>1. QED
        BY <1>3, <2>1, <3>3, <3>6
    <3>9. QED
      BY <2>3, <3>7, <3>8
  <2>8. QED
    BY <2>2, <2>6, <2>7
<1>6. QED
  BY <1>4, <1>5, Places

-----------------------------------------------------------------------------
(* A round of the loop, and the grammar.                                   *)

\* The numbers of S in front of the bits r, of which there are sh.
Shift(S, sh, r) == {m * Pow2[sh] + r : m \in S}

\* The bytes rd, all with another one behind them, hold the low bits r of the
\* number, and the high bits are what the grammar reads behind them.
Begun(signed, N, rd, sh, r) ==
    \A t \in Seq(Byte) :
        Numbers(signed)[N][rd \o t] = Shift(Numbers(signed)[N - sh][t], sh, r)

\* Behind rd nothing comes that makes it an encoding.
Lost(signed, N, rd) == \A t \in Seq(Byte) : Numbers(signed)[N][rd \o t] = {}

\* rd is an encoding of v and no beginning of another one.
Complete(signed, N, rd, v) ==
    \A t \in Seq(Byte) : Numbers(signed)[N][rd \o t] = IF t = << >> THEN {v} ELSE {}

\* Appending a byte and then the rest is appending both.
LEMMA AppendRest ==
    ASSUME NEW rd \in Seq(Byte), NEW b \in Byte, NEW t \in Seq(Byte)
    PROVE  /\ Append(rd, b) \o t = rd \o (<< b >> \o t)
           /\ << b >> \o t \in Seq(Byte)
           /\ Append(rd, b) \in Seq(Byte)
<1>1. << b >> \in Seq(Byte) /\ Append(rd, b) = rd \o << b >>
  OBVIOUS
<1>2. (rd \o << b >>) \o t = rd \o (<< b >> \o t)
  BY <1>1
<1>3. QED
  BY <1>1, <1>2

\* A byte with another one behind it, while there are bits left, moves the loop
\* and the grammar on by B bits.
LEMMA RoundGoesOn ==
    ASSUME NEW signed, NEW N \in Nat, NEW rd \in Seq(Byte), NEW sh \in Nat,
           NEW r \in 0 .. Pow2[sh] - 1, Begun(signed, N, rd, sh, r),
           NEW b \in Byte, More(b), sh + B < N, N <= W64
    PROVE  Begun(signed, N, Append(rd, b), sh + B, Shifted(r, b, sh))
<1>1. B \in Nat /\ B >= 1 /\ W64 \in Nat /\ sh + B \in Nat /\ sh + B <= W64
  BY WidthAssumption
<1>2. N - sh \in Nat /\ N - sh > B /\ (N - sh) - B \in Nat /\ (N - sh) - B = N - (sh + B)
  BY <1>1
<1>3. Shifted(r, b, sh) = Payload(b) * Pow2[sh] + r /\ Pow2[sh + B] = Pow2[B] * Pow2[sh]
  BY <1>1, ShiftedFits
<1> SUFFICES ASSUME NEW t \in Seq(Byte)
             PROVE  Numbers(signed)[N][Append(rd, b) \o t] =
                       Shift(Numbers(signed)[N - (sh + B)][t], sh + B, Shifted(r, b, sh))
  BY DEF Begun
<1> DEFINE S == Numbers(signed)[N - (sh + B)][t]
           g(m) == m * Pow2[B] + Payload(b)
<1>4. Numbers(signed)[N][Append(rd, b) \o t] =
         Shift(Numbers(signed)[N - sh][<< b >> \o t], sh, r)
  <2>1. Append(rd, b) \o t = rd \o (<< b >> \o t) /\ << b >> \o t \in Seq(Byte)
    BY AppendRest
  <2>2. QED
    BY <2>1 DEF Begun
<1>5. Numbers(signed)[N - sh][<< b >> \o t] = {g(m) : m \in S}
  BY <1>2, NumbersOfByte
<1>6. \A m \in S : m \in Int
  BY <1>1, <1>2, NumbersFunction
<1>7. Pow2[B] \in Nat /\ Pow2[sh] \in Nat /\ Payload(b) \in Nat /\ r \in Nat
  BY <1>1, Pow2Positive, Bytes
<1>8. ASSUME NEW m \in S
      PROVE  g(m) * Pow2[sh] + r = m * Pow2[sh + B] + Shifted(r, b, sh)
  <2>1. \A x, a, d, q, e \in Int : (x * a + q) * d + e = x * (a * d) + (q * d + e)
    OBVIOUS
  <2> DEFINE a == Pow2[B]
             d == Pow2[sh]
             q == Payload(b)
  <2>2. (m * a + q) * d + r = m * (a * d) + (q * d + r)
    <3>1. m \in Int /\ a \in Int /\ d \in Int /\ q \in Int /\ r \in Int
      BY <1>6, <1>7
    <3> HIDE DEF a, d, q
    <3>2. QED
      BY <3>1
  <2>3. QED
    BY <1>3, <2>2
<1> HIDE DEF S, g
<1>9. Numbers(signed)[N][Append(rd, b) \o t] = {g(m) * Pow2[sh] + r : m \in S}
  BY <1>4, <1>5 DEF Shift
<1>10. {g(m) * Pow2[sh] + r : m \in S} = {m * Pow2[sh + B] + Shifted(r, b, sh) : m \in S}
  BY <1>8
<1>11. QED
  BY <1>9, <1>10 DEF S, Shift

\* When no bits are left the grammar does not go on either.
LEMMA RoundTooLong ==
    ASSUME NEW signed, NEW N \in Nat, NEW rd \in Seq(Byte), NEW sh \in Nat, sh < N,
           NEW r \in 0 .. Pow2[sh] - 1, Begun(signed, N, rd, sh, r),
           NEW b \in Byte, More(b), sh + B >= N
    PROVE  Lost(signed, N, Append(rd, b))
<1> SUFFICES ASSUME NEW t \in Seq(Byte)
             PROVE  Numbers(signed)[N][Append(rd, b) \o t] = {}
  BY DEF Lost
<1>1. N - sh \in Nat /\ N - sh <= B
  BY WidthAssumption
<1>2. Numbers(signed)[N - sh][<< b >> \o t] = {}
  BY <1>1, NumbersOfByte
<1>3. Numbers(signed)[N][Append(rd, b) \o t] =
         Shift(Numbers(signed)[N - sh][<< b >> \o t], sh, r)
  <2>1. Append(rd, b) \o t = rd \o (<< b >> \o t) /\ << b >> \o t \in Seq(Byte)
    BY AppendRest
  <2>2. QED
    BY <2>1 DEF Begun
<1>4. QED
  BY <1>2, <1>3 DEF Shift

\* The last byte completes an encoding or none.
LEMMA RoundEnds ==
    ASSUME NEW signed, NEW N \in Nat, NEW rd \in Seq(Byte), NEW sh \in Nat, sh < N,
           NEW r \in 0 .. Pow2[sh] - 1, Begun(signed, N, rd, sh, r),
           NEW b \in Byte, ~More(b)
    PROVE  IF Holds(signed, N - sh, LastNumber(signed, b))
           THEN Complete(signed, N, Append(rd, b), LastNumber(signed, b) * Pow2[sh] + r)
           ELSE Lost(signed, N, Append(rd, b))
<1> DEFINE n == LastNumber(signed, b)
           ok == Holds(signed, N - sh, n)
<1>1. N - sh \in Nat
  OBVIOUS
<1>2. ASSUME NEW t \in Seq(Byte)
      PROVE  Numbers(signed)[N][Append(rd, b) \o t] =
                IF t = << >> /\ ok THEN {n * Pow2[sh] + r} ELSE {}
  <2>1. Numbers(signed)[N - sh][<< b >> \o t] = IF t = << >> /\ ok THEN {n} ELSE {}
    BY <1>1, NumbersOfByte
  <2>2. Numbers(signed)[N][Append(rd, b) \o t] =
           Shift(Numbers(signed)[N - sh][<< b >> \o t], sh, r)
    <3>1. Append(rd, b) \o t = rd \o (<< b >> \o t) /\ << b >> \o t \in Seq(Byte)
      BY AppendRest
    <3>2. QED
      BY <3>1 DEF Begun
  <2> HIDE DEF n, ok
  <2>3. CASE t = << >> /\ ok
    BY <2>1, <2>2, <2>3 DEF Shift
  <2>4. CASE ~(t = << >> /\ ok)
    BY <2>1, <2>2, <2>4 DEF Shift
  <2>5. QED
    BY <2>3, <2>4
<1> HIDE DEF n, ok
<1>3. CASE ok
  <2>1. Complete(signed, N, Append(rd, b), n * Pow2[sh] + r)
    BY <1>2, <1>3 DEF Complete
  <2>2. QED
    BY <1>3, <2>1 DEF ok, n
<1>4. CASE ~ok
  <2>1. Lost(signed, N, Append(rd, b))
    BY <1>2, <1>4 DEF Lost
  <2>2. QED
    BY <1>4, <2>1 DEF ok, n
<1>5. QED
  BY <1>3, <1>4

-----------------------------------------------------------------------------
(* The checks behind the loop.                                             *)

\* What the readers ask of the last byte and of the number.
Accepted(b, v, s) == (reader \in Signed => LastByteFits(b, s)) /\ InRange(v)

\* The number with the last byte in it.
Completed(r, b, sh) ==
    IF reader \in Signed THEN SignExtended(Shifted(r, b, sh), b, sh + B) ELSE Shifted(r, b, sh)

\* The widths of the readers.
LEMMA ReaderWidths ==
    ASSUME reader \in Unsigned \cup Signed
    PROVE  /\ num_max_bits[reader] \in Nat /\ num_max_bits[reader] <= W64
           /\ num_max_bits[reader] = CASE reader = "u7" -> B
                                       [] reader = "i64" -> W64
                                       [] OTHER -> W32
           /\ reader # "i64" => num_max_bits[reader] <= W64 - 1
<1>1. num_max_bits[reader] = CASE reader = "u7" -> B [] reader = "i64" -> W64 [] OTHER -> W32
  BY DEF num_max_bits
<1>2. B \in Nat /\ W32 \in Nat /\ W64 \in Nat /\ B <= W32 /\ W32 <= W64 - 1
  BY WidthAssumption
<1>3. QED
  BY <1>1, <1>2

\* They take the numbers the grammar takes, with the same value.
LEMMA AcceptedHolds ==
    ASSUME reader \in Unsigned \cup Signed, NEW sh, Place(sh), sh < num_max_bits[reader],
           NEW r \in 0 .. Pow2[sh] - 1, NEW b \in Byte, ~More(b)
    PROVE  LET N == num_max_bits[reader]
               n == LastNumber(reader \in Signed, b)
               v == Completed(r, b, sh)
           IN  /\ Accepted(b, v, sh + B) <=> Holds(reader \in Signed, N - sh, n)
               /\ Accepted(b, v, sh + B) => v = n * Pow2[sh] + r
<1> DEFINE N == num_max_bits[reader]
           n == LastNumber(reader \in Signed, b)
           v == Completed(r, b, sh)
<1>1. /\ N \in Nat /\ N <= W64 /\ sh < W64 /\ sh \in Nat
      /\ reader # "i64" => N <= W64 - 1 /\ sh < W64 - 1
  BY ReaderWidths, WidthAssumption DEF Place
<1>2. B \in Nat /\ W64 \in Nat /\ W32 \in Nat /\ B - 1 \in Nat /\ W32 - 1 \in Nat
  BY WidthAssumption
<1>3. CASE reader \in Unsigned
  <2>1. reader \notin Signed /\ reader # "i64"
    BY <1>3 DEF Unsigned, Signed
  <2>2. sh + B <= W64 - 1 /\ sh + B <= W64
    BY <1>1, <1>2, <2>1, Places
  <2>3. n = Payload(b) /\ v = n * Pow2[sh] + r
    <3>1. n = LastNumber(FALSE, b)
      BY <2>1 DEF LastNumber
    <3>2. n = Payload(b)
      BY <3>1, LastNumbers
    <3>3. v = Shifted(r, b, sh)
      BY <2>1 DEF Completed
    <3>4. Shifted(r, b, sh) = Payload(b) * Pow2[sh] + r
      BY <1>1, <2>2, ShiftedFits
    <3>5. QED
      BY <3>2, <3>3, <3>4, Zenon
  <2>4. n \in Nat /\ n < Pow2[B] /\ Pow2[B] \in Nat
    BY <1>2, <2>3, Bytes, Pow2Positive
  <2>5. Holds(FALSE, N - sh, n) <=> Holds(FALSE, N, v)
    <3>1. sh < N /\ n \in Int
      BY <2>4
    <3> HIDE DEF n, N
    <3>2. Holds(FALSE, N - sh, n) <=> Holds(FALSE, N, n * Pow2[sh] + r)
      BY <1>1, <3>1, HoldsShifted
    <3>3. QED
      BY <2>3, <3>2, Zenon
  <2>6. Accepted(b, v, sh + B) <=> Holds(FALSE, N, v)
    <3>1. CASE reader = "u7"
      <4>1. N = B /\ sh = 0
        BY <1>1, <3>1, ReaderWidths, Places
      <4>2. N - sh = B
        BY <1>2, <4>1
      <4>3. Holds(FALSE, N - sh, n)
        BY <2>4, <4>2 DEF Holds
      <4>4. Accepted(b, v, sh + B)
        BY <2>1, <3>1 DEF Accepted, InRange
      <4>5. QED
        BY <2>5, <4>3, <4>4
    <3>2. CASE reader \in {"u32", "bytes"}
      <4>1. N = W32
        BY <3>2, ReaderWidths
      <4>2. v \in Int /\ Pow2[W32] \in Nat
        BY <1>1, <1>2, <2>3, <2>4, Pow2Positive
      <4>3. Accepted(b, v, sh + B) <=> v <= Pow2[W32] - 1
        BY <2>1, <3>2 DEF Accepted, InRange
      <4>4. Holds(FALSE, N, v) <=> v < Pow2[W32]
        BY <4>1 DEF Holds
      <4> HIDE DEF v, N
      <4>5. v <= Pow2[W32] - 1 <=> v < Pow2[W32]
        BY <4>2
      <4>6. QED
        BY <4>3, <4>4, <4>5, Zenon
    <3>3. QED
      BY <1>3, <3>1, <3>2 DEF Unsigned
  <2>7. Holds(reader \in Signed, N - sh, n) <=> Holds(FALSE, N - sh, n)
    BY <2>1 DEF Holds
  <2> HIDE DEF v, N, n
  <2>8. /\ Accepted(b, v, sh + B) <=> Holds(reader \in Signed, N - sh, n)
        /\ Accepted(b, v, sh + B) => v = n * Pow2[sh] + r
    BY <2>3, <2>5, <2>6, <2>7, Zenon
  <2>9. QED
    BY <2>8, Zenon DEF v, N, n
<1>4. CASE reader \in Signed
  <2>1. /\ n = LastNumber(TRUE, b)
        /\ Holds(reader \in Signed, N - sh, n) <=> Holds(TRUE, N - sh, n)
    BY <1>4 DEF LastNumber, Holds
  <2>2. Pow2[B - 1] \in Nat /\ n \in -Pow2[B - 1] .. Pow2[B - 1] - 1
    BY <2>1, LastNumbers
  <2>3. n \in Int
    <3> HIDE DEF n
    <3>1. QED
      BY <2>2
  <2>4. LastByteFits(b, sh + B) => v = n * Pow2[sh] + r
    BY <1>1, <1>4, <2>1, SignExtends DEF Completed
  <2>5. CASE reader = "i64"
    <3>1. N = W64
      BY <2>5, ReaderWidths
    <3>2. Accepted(b, v, sh + B) <=> LastByteFits(b, sh + B)
      BY <1>4, <2>5 DEF Accepted, InRange
    <3>3. LastByteFits(b, sh + B) <=> Holds(TRUE, N - sh, n)
      BY <1>1, <2>1, <3>1, LastByteFitsHolds
    <3> HIDE DEF v, N, n
    <3>4. /\ Accepted(b, v, sh + B) <=> Holds(reader \in Signed, N - sh, n)
          /\ Accepted(b, v, sh + B) => v = n * Pow2[sh] + r
      BY <2>1, <2>4, <3>2, <3>3, Zenon
    <3>5. QED
      BY <3>4, Zenon DEF v, N, n
  <2>6. CASE reader = "i32"
    <3>1. N = W32 /\ reader # "i64"
      BY <2>6, ReaderWidths
    <3>2. sh + B <= W64 - 1
      <4>1. sh < W64 - 1
        BY <1>1, <3>1
      <4>2. sh # W64 - 1
        BY <1>1, <1>2, <4>1
      <4>3. QED
        BY <1>1, <4>2, Places
    <3>3. LastByteFits(b, sh + B)
      BY <1>1, <3>2, LastByteFitsHolds
    <3>4. v = n * Pow2[sh] + r
      BY <2>4, <3>3
    <3>5. Holds(TRUE, N - sh, n) <=> Holds(TRUE, N, v)
      BY <1>1, <2>3, <3>4, HoldsShifted
    <3>6. Accepted(b, v, sh + B) <=> -(Pow2[W32 - 1]) <= v /\ v <= Pow2[W32 - 1] - 1
      BY <2>6, <3>3 DEF Accepted, InRange
    <3>7. v \in Int /\ Pow2[W32 - 1] \in Nat
      BY <1>1, <1>2, <2>3, <3>4, Pow2Positive
    <3>8. Holds(TRUE, N, v) <=> v \in -Pow2[W32 - 1] .. Pow2[W32 - 1] - 1
      BY <3>1 DEF Holds
    <3> HIDE DEF v, N, n
    <3>9. -(Pow2[W32 - 1]) <= v /\ v <= Pow2[W32 - 1] - 1 <=>
             v \in -Pow2[W32 - 1] .. Pow2[W32 - 1] - 1
      BY <3>7
    <3>10. /\ Accepted(b, v, sh + B) <=> Holds(reader \in Signed, N - sh, n)
           /\ Accepted(b, v, sh + B) => v = n * Pow2[sh] + r
      BY <2>1, <3>4, <3>5, <3>6, <3>8, <3>9, Zenon
    <3>11. QED
      BY <3>10, Zenon DEF v, N, n
  <2>7. QED
    BY <1>4, <2>5, <2>6 DEF Signed
<1>5. QED
  BY <1>3, <1>4

-----------------------------------------------------------------------------
(* The beginnings of what was read.                                        *)

\* No beginning of rd is an encoding.
NoneIn(signed, N, rd) ==
    \A k \in 0 .. Len(rd) : Numbers(signed)[N][SubSeq(rd, 1, k)] = {}

\* The first k bytes of rd are an encoding of v, and no other beginning is one.
FirstIn(signed, N, rd, k, v) ==
    /\ \A j \in 0 .. k - 1 : Numbers(signed)[N][SubSeq(rd, 1, j)] = {}
    /\ Complete(signed, N, SubSeq(rd, 1, k), v)

\* A sequence is its own longest beginning, and the shorter ones stay when it
\* gets longer.
LEMMA Beginnings ==
    ASSUME NEW rd \in Seq(Byte), NEW b \in Byte
    PROVE  /\ Len(rd) \in Nat
           /\ Append(rd, b) \in Seq(Byte) /\ Len(Append(rd, b)) = Len(rd) + 1
           /\ \A k \in 0 .. Len(rd) :
                 SubSeq(rd, 1, k) \in Seq(Byte) /\ SubSeq(Append(rd, b), 1, k) = SubSeq(rd, 1, k)
           /\ SubSeq(Append(rd, b), 1, Len(rd) + 1) = Append(rd, b)
<1>1. /\ Len(rd) \in Nat
      /\ Append(rd, b) \in Seq(Byte) /\ Len(Append(rd, b)) = Len(rd) + 1
  OBVIOUS
<1>2. ASSUME NEW k \in 0 .. Len(rd)
      PROVE  SubSeq(rd, 1, k) \in Seq(Byte) /\ SubSeq(Append(rd, b), 1, k) = SubSeq(rd, 1, k)
  OBVIOUS
<1>3. SubSeq(Append(rd, b), 1, Len(rd) + 1) = Append(rd, b)
  OBVIOUS
<1>4. QED
  BY <1>1, <1>2, <1>3

\* All of a sequence, and nothing behind it.
LEMMA NothingBehind ==
    ASSUME NEW rd \in Seq(Byte)
    PROVE  rd \o << >> = rd /\ << >> \in Seq(Byte) /\ SubSeq(rd, 1, Len(rd)) = rd
  OBVIOUS

\* When the whole is no encoding either, no beginning of it is.
LEMMA NoneInNext ==
    ASSUME NEW signed, NEW N, NEW rd \in Seq(Byte), NEW b \in Byte,
           NoneIn(signed, N, rd), Numbers(signed)[N][Append(rd, b)] = {}
    PROVE  NoneIn(signed, N, Append(rd, b))
<1> DEFINE u == Append(rd, b)
<1>1. \A k \in 0 .. Len(rd) : Numbers(signed)[N][SubSeq(u, 1, k)] = {}
  BY Beginnings DEF NoneIn
<1>2. Numbers(signed)[N][SubSeq(u, 1, Len(rd) + 1)] = {}
  BY Beginnings
<1>3. Len(u) = Len(rd) + 1 /\ Len(rd) \in Nat
  BY Beginnings
<1> HIDE DEF u
<1>4. \A k \in 0 .. Len(u) : k \in 0 .. Len(rd) \/ k = Len(rd) + 1
  BY <1>3
<1>5. QED
  BY <1>1, <1>2, <1>4 DEF NoneIn, u

\* A lost beginning is no encoding, and nor is one with a byte more.
LEMMA LostHere ==
    ASSUME NEW signed, NEW N, NEW rd \in Seq(Byte), Lost(signed, N, rd)
    PROVE  /\ Numbers(signed)[N][rd] = {}
           /\ \A b \in Byte : Numbers(signed)[N][Append(rd, b)] = {}
<1>1. Numbers(signed)[N][rd] = {}
  <2>1. Numbers(signed)[N][rd \o << >>] = {}
    BY NothingBehind, Zenon DEF Lost
  <2>2. QED
    BY <2>1, NothingBehind
<1>2. ASSUME NEW b \in Byte
      PROVE  Numbers(signed)[N][Append(rd, b)] = {}
  <2>1. << b >> \in Seq(Byte) /\ rd \o << b >> = Append(rd, b)
    OBVIOUS
  <2>2. QED
    BY <2>1, Zenon DEF Lost
<1>3. QED
  BY <1>1, <1>2

\* Nor is a beginning behind which the number goes on.
LEMMA BegunHere ==
    ASSUME NEW signed, NEW N, NEW rd \in Seq(Byte), NEW sh, NEW r, N - sh \in Nat,
           Begun(signed, N, rd, sh, r)
    PROVE  Numbers(signed)[N][rd] = {}
<1>1. Numbers(signed)[N][rd \o << >>] = Shift(Numbers(signed)[N - sh][<< >>], sh, r)
  BY NothingBehind, Zenon DEF Begun
<1>2. Numbers(signed)[N - sh][<< >>] = {}
  BY NumbersOfNothing
<1>3. QED
  BY <1>1, <1>2, NothingBehind DEF Shift

\* A complete encoding behind beginnings that are none.
LEMMA FirstHere ==
    ASSUME NEW signed, NEW N, NEW rd \in Seq(Byte), NEW b \in Byte, NEW v,
           NoneIn(signed, N, rd), Complete(signed, N, Append(rd, b), v)
    PROVE  FirstIn(signed, N, Append(rd, b), Len(rd) + 1, v)
<1> DEFINE u == Append(rd, b)
<1>1. SubSeq(u, 1, Len(rd) + 1) = u
  BY Beginnings
<1>2. \A k \in 0 .. Len(rd) : Numbers(signed)[N][SubSeq(u, 1, k)] = {}
  BY Beginnings DEF NoneIn
<1>3. (Len(rd) + 1) - 1 = Len(rd)
  BY Beginnings
<1> HIDE DEF u
<1>4. \A k \in 0 .. (Len(rd) + 1) - 1 : Numbers(signed)[N][SubSeq(u, 1, k)] = {}
  BY <1>2, <1>3
<1>5. Complete(signed, N, SubSeq(u, 1, Len(rd) + 1), v)
  BY <1>1 DEF u
<1>6. QED
  BY <1>4, <1>5, Zenon DEF FirstIn, u

\* The bytes of the string change nothing about its length.
LEMMA FirstNext ==
    ASSUME NEW signed, NEW N, NEW rd \in Seq(Byte), NEW b \in Byte, NEW v,
           NEW k \in 0 .. Len(rd), FirstIn(signed, N, rd, k, v)
    PROVE  FirstIn(signed, N, Append(rd, b), k, v)
<1> DEFINE u == Append(rd, b)
<1>1. \A j \in 0 .. k : SubSeq(u, 1, j) = SubSeq(rd, 1, j)
  <2>1. \A j \in 0 .. k : j \in 0 .. Len(rd)
    BY Beginnings
  <2>2. QED
    BY <2>1, Beginnings
<1>2. k \in 0 .. k /\ \A j \in 0 .. k - 1 : j \in 0 .. k
  BY Beginnings
<1> HIDE DEF u
<1>3. \A j \in 0 .. k - 1 : Numbers(signed)[N][SubSeq(u, 1, j)] = {}
  BY <1>1, <1>2 DEF FirstIn
<1>4. Complete(signed, N, SubSeq(u, 1, k), v)
  BY <1>1, <1>2 DEF FirstIn
<1>5. QED
  BY <1>3, <1>4, Zenon DEF FirstIn, u

\* What encodes a string whose length is not read has no meaning.
LEMMA NoLength ==
    ASSUME NEW rd \in Seq(Byte), NoneIn(FALSE, W32, rd)
    PROVE  StringMeaning(rd) = {}
  BY DEF StringMeaning, NoneIn

\* A string has a meaning when as many bytes follow the length as it says.
LEMMA StringRead ==
    ASSUME NEW rd \in Seq(Byte), NEW n \in 0 .. MaxName, NEW k \in 0 .. Len(rd),
           FirstIn(FALSE, W32, rd, k, n)
    PROVE  StringMeaning(rd) = IF Len(rd) = k + n THEN {n} ELSE {}
<1>1. Len(rd) \in Nat /\ MaxName \in Int
  <2>1. Pow2[W32] \in Int
    BY WidthAssumption, Pow2Positive
  <2>2. QED
    BY <2>1, BoundAssumption
<1>2. SubSeq(rd, 1, k) \in Seq(Byte)
  OBVIOUS
<1>3. Numbers(FALSE)[W32][SubSeq(rd, 1, k)] = {n}
  <2> DEFINE u == SubSeq(rd, 1, k)
  <2>1. u \o << >> = u /\ << >> \in Seq(Byte)
    BY <1>2, NothingBehind
  <2>2. Numbers(FALSE)[W32][u \o << >>] = {n}
    BY <2>1 DEF FirstIn, Complete
  <2>3. QED
    BY <2>1, <2>2
<1>4. ASSUME NEW j \in 0 .. Len(rd), j # k
      PROVE  Numbers(FALSE)[W32][SubSeq(rd, 1, j)] = {}
  <2>1. CASE j < k
    <3>1. j \in 0 .. k - 1
      BY <1>1, <2>1
    <3>2. QED
      BY <3>1 DEF FirstIn
  <2>2. CASE k < j
    <3> DEFINE u == SubSeq(rd, 1, k)
               w == SubSeq(rd, k + 1, j)
    <3>1. w \in Seq(Byte) /\ w # << >> /\ SubSeq(rd, 1, j) = u \o w
      <4>1. w \in Seq(Byte) /\ Len(w) = j - k
        BY <1>1, <2>2
      <4>2. w # << >>
        BY <1>1, <2>2, <4>1
      <4>3. Len(u) = k /\ u \in Seq(Byte) /\ Len(u \o w) = j
        BY <1>1, <4>1
      <4>4. SubSeq(rd, 1, j) \in Seq(Byte) /\ Len(SubSeq(rd, 1, j)) = j
        BY <1>1
      <4>5. \A i \in 1 .. j : SubSeq(rd, 1, j)[i] = (u \o w)[i]
        BY <1>1, <2>2
      <4>6. u \o w \in Seq(Byte)
        BY <4>1, <4>3
      <4> HIDE DEF u, w
      <4>7. SubSeq(rd, 1, j) = u \o w
        BY <4>3, <4>4, <4>5, <4>6, SeqEqual
      <4>8. QED
        BY <4>1, <4>2, <4>7
    <3>2. Complete(FALSE, W32, u, n)
      BY DEF FirstIn
    <3> HIDE DEF u, w
    <3>3. Numbers(FALSE)[W32][u \o w] = {}
      BY <3>1, <3>2 DEF Complete
    <3>4. QED
      BY <3>1, <3>3
  <2>3. j < k \/ k < j
    BY <1>1, <1>4
  <2>4. QED
    BY <2>1, <2>2, <2>3, Zenon
<1>5. \A m \in 0 .. MaxName : \A j \in 0 .. Len(rd) :
         m \in Numbers(FALSE)[W32][SubSeq(rd, 1, j)] <=> j = k /\ m = n
  BY <1>3, <1>4
<1>6. StringMeaning(rd) =
         {m \in 0 .. MaxName : \E j \in 0 .. Len(rd) : (j = k /\ m = n) /\ Len(rd) = j + m}
  BY <1>5 DEF StringMeaning
<1>7. QED
  BY <1>6

-----------------------------------------------------------------------------
(* The invariant of the readers.                                           *)

\* Each variable has its type.
TypeOK ==
    /\ reader \in Unsigned \cup Signed
    /\ read \in Seq(Byte)
    /\ out.kind \in {"running", "value", "error"}
    /\ out.kind = "running" => out = Running
    /\ str \in [alloc : Nat, len : Nat, filled : Int]
    /\ str = NoString \/ str.filled \in Nat
\* While the number is read, result holds the low bits of it.
Loop ==
    out = Running /\ str = NoString =>
        /\ Place(shift) /\ shift < num_max_bits[reader]
        /\ result \in 0 .. Pow2[shift] - 1
        /\ Begun(reader \in Signed, num_max_bits[reader], read, shift, result)
        /\ NoneIn(reader \in Signed, num_max_bits[reader], read)

\* A number that was refused, or cut off by the end of the buffer.
Refused ==
    out.kind = "error" /\ str = NoString =>
        /\ NoneIn(reader \in Signed, num_max_bits[reader], read)
        /\ out.error # "unexpected end" => Lost(reader \in Signed, num_max_bits[reader], read)

\* A number that was read.
Answered ==
    out.kind = "value" /\ str = NoString =>
        /\ reader # "bytes"
        /\ Numbers(reader \in Signed)[num_max_bits[reader]][read] = {out.value}

\* The first bytes are the length of the string, the others are in it.
InString ==
    str # NoString =>
        /\ reader = "bytes"
        /\ str.len \in 0 .. MaxName
        /\ str.alloc = (str.len + 1) % Pow2[W32]
        /\ str.filled \in 0 .. str.len + 1
        /\ \E k \in 0 .. Len(read) :
              /\ FirstIn(FALSE, W32, read, k, str.len)
              /\ Len(read) = k + (IF str.filled <= str.len THEN str.filled ELSE str.len)
        /\ out.kind = "running" => str.filled <= str.len
        /\ out.kind = "value" => out.value = str.len /\ str.filled = str.len + 1
        /\ out.kind = "error" => out.error = "unexpected end" /\ str.filled < str.len

RInv == TypeOK /\ Loop /\ Refused /\ Answered /\ InString

\* What the answers are.
LEMMA Answers ==
    /\ Running.kind = "running"
    /\ \A e : Error(e).kind = "error" /\ Error(e).error = e /\ Error(e) # Running
    /\ \A v : Value(v).kind = "value" /\ Value(v).value = v /\ Value(v) # Running
    /\ NoString.filled = -1
<1>1. Running.kind = "running"
  BY DEF Running
<1>2. \A e : Error(e).kind = "error" /\ Error(e).error = e
  BY DEF Error
<1>3. \A v : Value(v).kind = "value" /\ Value(v).value = v
  BY DEF Value
<1>4. NoString.filled = -1
  BY DEF NoString
<1>5. "running" # "error" /\ "running" # "value"
  OBVIOUS
<1>6. QED
  BY <1>1, <1>2, <1>3, <1>4, <1>5, Zenon

\* A reader that has read nothing.
LEMMA ReaderInit == Init => RInv
<1> SUFFICES ASSUME Init PROVE RInv
  OBVIOUS
<1> DEFINE sg == reader \in Signed
           N == num_max_bits[reader]
<1>1. /\ reader \in Unsigned \cup Signed /\ read = << >> /\ result = 0 /\ shift = 0
      /\ str = NoString /\ out = Running
  BY DEF Init
<1>2. N \in Nat /\ 0 < N
  BY <1>1, ReaderWidths, WidthAssumption
<1>3. out.kind = "running"
  BY <1>1, Answers
<1>4. << >> \in Seq(Byte)
  OBVIOUS
<1>5. TypeOK
  <2>1. NoString \in [alloc : Nat, len : Nat, filled : Int]
    BY DEF NoString
  <2>2. QED
    BY <1>1, <1>3, <1>4, <2>1 DEF TypeOK
<1>6. Loop
  <2>1. Place(0)
    <3>1. \A d \in Nat : d >= 1 => 0 % d = 0
      OBVIOUS
    <3>2. B \in Nat /\ B >= 1
      BY WidthAssumption
    <3>3. QED
      BY <3>1, <3>2 DEF Place
  <2>2. 0 \in 0 .. Pow2[0] - 1
    BY Pow2Steps
  <2>3. Begun(sg, N, << >>, 0, 0)
    <3> HIDE DEF N, sg
    <3>1. N - 0 = N
      BY <1>2
    <3>2. ASSUME NEW t \in Seq(Byte)
          PROVE  Numbers(sg)[N][<< >> \o t] = Shift(Numbers(sg)[N - 0][t], 0, 0)
      <4> DEFINE S == Numbers(sg)[N][t]
      <4>1. << >> \o t = t
        OBVIOUS
      <4>2. \A m \in S : m \in Int
        BY <1>2, NumbersFunction
      <4> HIDE DEF S
      <4>3. \A m \in S : m * Pow2[0] + 0 = m
        BY <4>2, Pow2Steps
      <4>4. Shift(S, 0, 0) = S
        BY <4>3 DEF Shift
      <4>5. QED
        BY <3>1, <4>1, <4>4 DEF S
    <3>3. QED
      BY <3>2 DEF Begun
  <2>4. NoneIn(sg, N, << >>)
    <3> HIDE DEF N, sg
    <3>1. \A k \in 0 .. Len(<< >>) : SubSeq(<< >>, 1, k) = << >>
      <4>1. Len(<< >>) = 0
        OBVIOUS
      <4>2. SubSeq(<< >>, 1, 0) = << >>
        OBVIOUS
      <4>3. QED
        BY <4>1, <4>2
    <3>2. Numbers(sg)[N][<< >>] = {}
      BY <1>2, NumbersOfNothing
    <3>3. QED
      BY <3>1, <3>2 DEF NoneIn
  <2>5. QED
    BY <1>1, <1>2, <2>1, <2>2, <2>3, <2>4 DEF Loop
<1>7. Refused /\ Answered
  BY <1>3 DEF Refused, Answered
<1>8. InString
  BY <1>1 DEF InString
<1>9. QED
  BY <1>5, <1>6, <1>7, <1>8 DEF RInv

\* What the loop knows of a byte before it looks whether another follows.
LEMMA RoundStarts ==
    ASSUME RInv, NEW b \in Byte, NumberByte(b)
    PROVE  /\ reader \in Unsigned \cup Signed /\ reader' = reader
           /\ read \in Seq(Byte) /\ read' = Append(read, b) /\ read' \in Seq(Byte)
           /\ str = NoString /\ str \in [alloc : Nat, len : Nat, filled : Int]
           /\ num_max_bits[reader] \in Nat /\ num_max_bits[reader] <= W64
           /\ Place(shift) /\ shift \in Nat /\ shift < num_max_bits[reader]
           /\ result \in 0 .. Pow2[shift] - 1
           /\ Begun(reader \in Signed, num_max_bits[reader], read, shift, result)
           /\ NoneIn(reader \in Signed, num_max_bits[reader], read)
           /\ shift' = shift + B /\ result' = Shifted(result, b, shift)
<1>1. TypeOK /\ Loop
  BY DEF RInv
<1>2. out = Running /\ str.filled = -1 /\ reader' = reader /\ read' = Append(read, b)
      /\ shift' = shift + B /\ result' = Shifted(result, b, shift)
  BY DEF NumberByte, InNumber
<1>3. str = NoString
  BY <1>1, <1>2 DEF TypeOK
<1>4. /\ Place(shift) /\ shift < num_max_bits[reader]
      /\ result \in 0 .. Pow2[shift] - 1
      /\ Begun(reader \in Signed, num_max_bits[reader], read, shift, result)
      /\ NoneIn(reader \in Signed, num_max_bits[reader], read)
  BY <1>1, <1>2, <1>3 DEF Loop
<1>5. /\ reader \in Unsigned \cup Signed /\ read \in Seq(Byte)
      /\ str \in [alloc : Nat, len : Nat, filled : Int]
  BY <1>1 DEF TypeOK
<1>6. read' \in Seq(Byte)
  BY <1>2, <1>5
<1>7. shift \in Nat
  BY <1>4 DEF Place
<1>8. QED
  BY <1>2, <1>3, <1>4, <1>5, <1>6, <1>7, ReaderWidths

\* A number that is refused leaves the reader with its error.
LEMMA RefusedNext ==
    ASSUME RInv, NEW b \in Byte, NumberByte(b), str' = str, NEW e, out' = Error(e),
           Lost(reader \in Signed, num_max_bits[reader], Append(read, b))
    PROVE  RInv'
<1> DEFINE sg == reader \in Signed
           N == num_max_bits[reader]
<1>1. /\ reader \in Unsigned \cup Signed /\ reader' = reader
      /\ read \in Seq(Byte) /\ read' = Append(read, b) /\ read' \in Seq(Byte)
      /\ str = NoString /\ str \in [alloc : Nat, len : Nat, filled : Int]
      /\ NoneIn(sg, N, read)
  BY RoundStarts
<1>2. out'.kind = "error" /\ out' # Running
  BY Answers
<1>3. Numbers(sg)[N][Append(read, b)] = {}
  BY <1>1, LostHere
<1>4. NoneIn(sg, N, Append(read, b))
  BY <1>1, <1>3, NoneInNext
<1>5. TypeOK'
  BY <1>1, <1>2 DEF TypeOK
<1>6. Refused'
  BY <1>1, <1>4 DEF Refused
<1>7. Loop' /\ Answered'
  BY <1>2 DEF Loop, Answered
<1>8. InString'
  BY <1>1 DEF InString
<1>9. QED
  BY <1>5, <1>6, <1>7, <1>8 DEF RInv

\* A byte with another one behind it.
LEMMA MoreNext ==
    ASSUME RInv, NEW b \in Byte, NumberByte(b), More(b)
    PROVE  RInv'
<1> DEFINE sg == reader \in Signed
           N == num_max_bits[reader]
           s == shift + B
<1>1. /\ reader \in Unsigned \cup Signed /\ reader' = reader
      /\ read \in Seq(Byte) /\ read' = Append(read, b) /\ read' \in Seq(Byte)
      /\ str = NoString /\ str \in [alloc : Nat, len : Nat, filled : Int]
      /\ N \in Nat /\ N <= W64
      /\ Place(shift) /\ shift \in Nat /\ shift < N
      /\ result \in 0 .. Pow2[shift] - 1
      /\ Begun(sg, N, read, shift, result)
      /\ NoneIn(sg, N, read)
      /\ shift' = s /\ result' = Shifted(result, b, shift)
  BY RoundStarts
<1>2. /\ str' = str
      /\ out' = IF TooLong(s) THEN Error("representation too long") ELSE Running
  BY DEF NumberByte
<1>3. B \in Nat /\ W64 \in Nat
  BY WidthAssumption
<1>4. TooLong(s) <=> s >= N
  BY DEF TooLong
<1>5. CASE s >= N
  <2>1. out' = Error("representation too long")
    BY <1>2, <1>4, <1>5
  <2>2. Lost(sg, N, Append(read, b))
    BY <1>1, <1>5, RoundTooLong
  <2>3. QED
    BY <1>2, <2>1, <2>2, RefusedNext
<1>6. CASE s < N
  <2>1. out' = Running /\ out'.kind = "running"
    <3>1. s \in Nat
      BY <1>1, <1>3
    <3>2. ~(s >= N)
      <4> HIDE DEF s, N
      <4>1. QED
        BY <1>1, <1>6, <3>1
    <3>3. QED
      BY <1>2, <1>4, <3>2, Answers
  <2>2. s \in Nat /\ s <= W64 /\ shift < W64
    BY <1>1, <1>3, <1>6
  <2>3. Place(s)
    BY <1>1, <2>2, Places
  <2>4. result' \in 0 .. Pow2[s] - 1
    BY <1>1, <2>2, ShiftedFits
  <2>5. Begun(sg, N, Append(read, b), s, Shifted(result, b, shift))
    BY <1>1, <1>6, RoundGoesOn
  <2>6. N - s \in Nat
    BY <1>1, <1>6, <2>2
  <2>7. Numbers(sg)[N][Append(read, b)] = {}
    <3>1. Append(read, b) \in Seq(Byte)
      BY <1>1
    <3> HIDE DEF N, sg, s
    <3>2. QED
      BY <2>5, <2>6, <3>1, BegunHere
  <2>8. NoneIn(sg, N, Append(read, b))
    BY <1>1, <2>7, NoneInNext
  <2>9. TypeOK'
    BY <1>1, <1>2, <2>1 DEF TypeOK
  <2>10. Loop'
    BY <1>1, <1>6, <2>3, <2>4, <2>5, <2>8 DEF Loop
  <2>11. Refused' /\ Answered'
    BY <2>1 DEF Refused, Answered
  <2>12. InString'
    BY <1>1, <1>2 DEF InString
  <2>13. QED
    BY <2>9, <2>10, <2>11, <2>12 DEF RInv
<1>7. QED
  BY <1>1, <1>3, <1>5, <1>6

\* The last byte of a number: it is refused, or answered, or a string begins.
LEMMA LastNext ==
    ASSUME RInv, NEW b \in Byte, NumberByte(b), ~More(b)
    PROVE  RInv'
<1> DEFINE sg == reader \in Signed
           N == num_max_bits[reader]
           s == shift + B
           v == Completed(result, b, shift)
           n == LastNumber(sg, b)
           u == Append(read, b)
<1>1. /\ reader \in Unsigned \cup Signed /\ reader' = reader
      /\ read \in Seq(Byte) /\ read' = u /\ read' \in Seq(Byte)
      /\ str = NoString /\ str \in [alloc : Nat, len : Nat, filled : Int]
      /\ N \in Nat /\ N <= W64
      /\ Place(shift) /\ shift \in Nat /\ shift < N
      /\ result \in 0 .. Pow2[shift] - 1
      /\ Begun(sg, N, read, shift, result)
      /\ NoneIn(sg, N, read)
  BY RoundStarts
<1>2. Finish(b, Shifted(result, b, shift), s)
  BY DEF NumberByte
<1>3. /\ ~Accepted(b, v, s) => out' = Error("integer too large") /\ str' = str
      /\ Accepted(b, v, s) /\ reader # "bytes" => out' = Value(v) /\ str' = str
      /\ Accepted(b, v, s) /\ reader = "bytes" => StartString(v)
  BY <1>2, Zenon DEF Finish, Accepted, Completed
<1>4. /\ Accepted(b, v, s) <=> Holds(sg, N - shift, n)
      /\ Accepted(b, v, s) => v = n * Pow2[shift] + result
  BY <1>1, AcceptedHolds
<1>5. /\ Holds(sg, N - shift, n) => Complete(sg, N, u, n * Pow2[shift] + result)
      /\ ~Holds(sg, N - shift, n) => Lost(sg, N, u)
  <2> HIDE DEF sg, N
  <2>1. IF Holds(sg, N - shift, LastNumber(sg, b))
        THEN Complete(sg, N, Append(read, b), LastNumber(sg, b) * Pow2[shift] + result)
        ELSE Lost(sg, N, Append(read, b))
    BY <1>1, RoundEnds
  <2>2. QED
    BY <2>1
<1>6. CASE ~Accepted(b, v, s)
  BY <1>1, <1>3, <1>4, <1>5, <1>6, RefusedNext
<1>7. CASE Accepted(b, v, s)
  <2>1. Complete(sg, N, u, v)
    <3> HIDE DEF sg, N, v, u, n
    <3>1. QED
      BY <1>4, <1>5, <1>7
  <2>2. Numbers(sg)[N][u] = {v}
    <3>1. u \o << >> = u /\ << >> \in Seq(Byte)
      BY <1>1, NothingBehind
    <3> HIDE DEF sg, N, v, u
    <3>2. Numbers(sg)[N][u \o << >>] = {v}
      BY <2>1, <3>1 DEF Complete
    <3>3. QED
      BY <3>1, <3>2
  <2>3. CASE reader # "bytes"
    <3>1. out' = Value(v) /\ str' = NoString
      BY <1>1, <1>3, <1>7, <2>3
    <3>2. out'.kind = "value" /\ out'.value = v /\ out' # Running
      BY <3>1, Answers
    <3>3. TypeOK'
      BY <1>1, <3>1, <3>2 DEF TypeOK
    <3>4. Answered'
      BY <1>1, <2>2, <2>3, <3>2 DEF Answered
    <3>5. Loop' /\ Refused'
      BY <3>2 DEF Loop, Refused
    <3>6. InString'
      BY <3>1 DEF InString
    <3>7. QED
      BY <3>3, <3>4, <3>5, <3>6 DEF RInv
  <2>4. CASE reader = "bytes"
    <3>1. /\ v <= MaxName /\ out' = Running
          /\ str' = [alloc |-> (v + 1) % Pow2[W32], len |-> v, filled |-> 0]
      BY <1>3, <1>7, <2>4 DEF StartString
    <3>2. ~sg /\ sg = FALSE /\ N = W32
      BY <1>1, <2>4, ReaderWidths DEF Signed
    <3>3. v \in Nat
      <4>1. v = Shifted(result, b, shift)
        BY <3>2 DEF Completed
      <4>2. shift + B <= W64
        <5>1. W32 \in Nat /\ W64 \in Nat /\ W32 <= W64 - 1 /\ B \in Nat
          BY WidthAssumption
        <5>2. shift < W64 /\ shift # W64 - 1
          BY <1>1, <3>2, <5>1
        <5>3. shift + B <= W64 - 1
          BY <1>1, <5>2, Places
        <5>4. QED
          BY <1>1, <5>1, <5>3
      <4>3. QED
        BY <1>1, <4>1, <4>2, ShiftedFits, Pow2Positive
    <3>4. str'.len = v /\ str'.filled = 0 /\ str'.alloc = (v + 1) % Pow2[W32]
      BY <3>1
    <3>5. str' # NoString
      BY <3>4 DEF NoString
    <3>6. out'.kind = "running"
      BY <3>1, Answers
    <3>7. TypeOK'
      <4>1. (v + 1) % Pow2[W32] \in Nat
        <5>1. \A a, d \in Nat : d >= 1 => a % d \in Nat
          OBVIOUS
        <5>2. v + 1 \in Nat /\ Pow2[W32] \in Nat /\ Pow2[W32] >= 1
          BY <3>3, WidthAssumption, Pow2Positive
        <5> HIDE DEF v
        <5>3. QED
          BY <5>1, <5>2
      <4> HIDE DEF v
      <4>2. str' \in [alloc : Nat, len : Nat, filled : Int]
        BY <3>1, <3>3, <4>1
      <4>3. QED
        BY <1>1, <3>1, <3>4, <3>6, <4>2 DEF TypeOK
    <3>8. FirstIn(FALSE, W32, u, Len(read) + 1, v)
      BY <1>1, <2>1, <3>2, FirstHere
    <3>9. Len(u) = Len(read) + 1 /\ Len(u) \in Nat
      BY <1>1, Beginnings
    <3>10. InString'
      <4>1. \E k \in 0 .. Len(read') :
               /\ FirstIn(FALSE, W32, read', k, str'.len)
               /\ Len(read') = k + (IF str'.filled <= str'.len THEN str'.filled ELSE str'.len)
        <5>1. Len(u) \in 0 .. Len(u) /\ 0 <= v /\ Len(u) = Len(u) + 0
          BY <3>3, <3>9
        <5> HIDE DEF v, u
        <5>2. QED
          BY <1>1, <3>4, <3>8, <3>9, <5>1
      <4>2. MaxName \in Int
        BY BoundAssumption, WidthAssumption, Pow2Positive
      <4> HIDE DEF v
      <4>3. v \in 0 .. MaxName /\ 0 \in 0 .. v + 1 /\ 0 <= v
        BY <3>1, <3>3, <4>2
      <4>4. QED
        BY <1>1, <2>4, <3>4, <3>6, <4>1, <4>3 DEF InString
    <3>11. Loop' /\ Refused' /\ Answered'
      BY <3>5 DEF Loop, Refused, Answered
    <3>12. QED
      BY <3>7, <3>10, <3>11 DEF RInv
  <2>5. QED
    BY <2>3, <2>4
<1>8. QED
  BY <1>6, <1>7

\* A byte of a string.
LEMMA StringByteNext ==
    ASSUME RInv, NEW b \in Byte, StringByte(b)
    PROVE  RInv'
<1>1. TypeOK /\ InString
  BY DEF RInv
<1>2. /\ out = Running /\ str.filled \in 0 .. str.len - 1
      /\ read' = Append(read, b) /\ str' = [str EXCEPT !.filled = @ + 1]
      /\ reader' = reader /\ out' = out
  BY DEF StringByte
<1>3. str # NoString
  <2>1. -1 \notin 0 .. str.len - 1
    OBVIOUS
  <2>2. QED
    BY <1>2, <2>1, Answers
<1>4. /\ reader = "bytes" /\ str.len \in 0 .. MaxName
      /\ str.alloc = (str.len + 1) % Pow2[W32]
  BY <1>1, <1>3 DEF InString
<1>5. PICK k \in 0 .. Len(read) :
         /\ FirstIn(FALSE, W32, read, k, str.len)
         /\ Len(read) = k + (IF str.filled <= str.len THEN str.filled ELSE str.len)
  BY <1>1, <1>3 DEF InString
<1>6. str.len \in Nat /\ str.filled \in Nat /\ str.filled < str.len /\ MaxName \in Int
  <2>1. MaxName \in Int
    BY BoundAssumption, WidthAssumption, Pow2Positive
  <2>2. QED
    BY <1>2, <1>4, <2>1
<1>7. /\ str'.len = str.len /\ str'.alloc = str.alloc /\ str'.filled = str.filled + 1
      /\ str' \in [alloc : Nat, len : Nat, filled : Int]
  <2>1. str \in [alloc : Nat, len : Nat, filled : Int] /\ str.filled + 1 \in Int
    BY <1>1, <1>6 DEF TypeOK
  <2>2. str' = [str EXCEPT !.filled = str.filled + 1]
    BY <1>2
  <2>3. QED
    BY <2>1, <2>2
<1>8. str' # NoString
  BY <1>6, <1>7, Answers
<1>9. /\ reader \in Unsigned \cup Signed /\ read \in Seq(Byte)
      /\ out.kind = "running" /\ out' = Running
  BY <1>1, <1>2, Answers DEF TypeOK
<1>10. TypeOK'
  <2>1. read' \in Seq(Byte)
    BY <1>2, <1>9
  <2>2. QED
    BY <1>2, <1>6, <1>7, <1>9, <2>1 DEF TypeOK
<1>11. Loop' /\ Refused' /\ Answered'
  BY <1>8 DEF Loop, Refused, Answered
<1>12. InString'
  <2>1. FirstIn(FALSE, W32, read', k, str'.len)
    BY <1>2, <1>5, <1>7, <1>9, FirstNext
  <2>2. Len(read') = Len(read) + 1 /\ Len(read) \in Nat
    BY <1>2, <1>9, Beginnings
  <2>3. /\ k \in 0 .. Len(read')
        /\ Len(read') = k + (IF str'.filled <= str'.len THEN str'.filled ELSE str'.len)
    <3>1. k \in Nat /\ k <= Len(read) /\ Len(read) = k + str.filled
      BY <1>5, <1>6, <2>2
    <3>2. str'.filled <= str'.len /\ str'.filled = str.filled + 1
      BY <1>6, <1>7
    <3>3. Len(read') = k + str'.filled /\ k \in 0 .. Len(read')
      BY <1>6, <2>2, <3>1, <3>2
    <3>4. QED
      BY <3>2, <3>3
  <2>4. str'.filled \in 0 .. str'.len + 1 /\ str'.filled <= str'.len
    BY <1>6, <1>7
  <2>5. out'.kind = "running"
    BY <1>2, <1>9
  <2>6. \E j \in 0 .. Len(read') :
           /\ FirstIn(FALSE, W32, read', j, str'.len)
           /\ Len(read') = j + (IF str'.filled <= str'.len THEN str'.filled ELSE str'.len)
    BY <2>1, <2>3
  <2>7. /\ reader' = "bytes" /\ str'.len \in 0 .. MaxName
        /\ str'.alloc = (str'.len + 1) % Pow2[W32]
    BY <1>2, <1>4, <1>7
  <2>8. out'.kind # "value" /\ out'.kind # "error"
    BY <2>5
  <2>9. QED
    BY <2>4, <2>6, <2>7, <2>8 DEF InString
<1>13. QED
  BY <1>10, <1>11, <1>12 DEF RInv

\* The zero behind a string.
LEMMA StringEndNext ==
    ASSUME RInv, StringEnd
    PROVE  RInv'
<1>1. TypeOK /\ InString
  BY DEF RInv
<1>2. /\ out = Running /\ str.filled = str.len
      /\ str' = [str EXCEPT !.filled = @ + 1] /\ out' = Value(str.len)
      /\ reader' = reader /\ read' = read
  BY DEF StringEnd
<1>3. str \in [alloc : Nat, len : Nat, filled : Int] /\ read \in Seq(Byte)
      /\ reader \in Unsigned \cup Signed
  BY <1>1 DEF TypeOK
<1>4. str.len \in Nat /\ str.filled \in Nat
  BY <1>2, <1>3
<1>5. str # NoString
  BY <1>4, Answers
<1>6. /\ reader = "bytes" /\ str.len \in 0 .. MaxName
      /\ str.alloc = (str.len + 1) % Pow2[W32]
  BY <1>1, <1>5 DEF InString
<1>7. PICK k \in 0 .. Len(read) :
         /\ FirstIn(FALSE, W32, read, k, str.len)
         /\ Len(read) = k + (IF str.filled <= str.len THEN str.filled ELSE str.len)
  BY <1>1, <1>5 DEF InString
<1>8. /\ str'.len = str.len /\ str'.alloc = str.alloc /\ str'.filled = str.len + 1
      /\ str' \in [alloc : Nat, len : Nat, filled : Int]
  BY <1>2, <1>3, <1>4
<1>9. str' # NoString
  BY <1>4, <1>8, Answers
<1>10. out'.kind = "value" /\ out'.value = str.len
  BY <1>2, Answers
<1>11. TypeOK'
  BY <1>2, <1>3, <1>4, <1>8, <1>10 DEF TypeOK
<1>12. Loop' /\ Refused' /\ Answered'
  BY <1>9 DEF Loop, Refused, Answered
<1>13. InString'
  <2>1. Len(read') = k + (IF str'.filled <= str'.len THEN str'.filled ELSE str'.len)
    BY <1>2, <1>4, <1>7, <1>8
  <2>2. str'.filled \in 0 .. str'.len + 1
    BY <1>4, <1>8
  <2>3. QED
    BY <1>2, <1>6, <1>7, <1>8, <1>10, <2>1, <2>2 DEF InString
<1>14. QED
  BY <1>11, <1>12, <1>13 DEF RInv

\* The end of the buffer, in a number or in a string.
LEMMA EndNext ==
    ASSUME RInv, EndOfBuffer
    PROVE  RInv'
<1>1. TypeOK /\ Loop /\ InString
  BY DEF RInv
<1>2. /\ out = Running /\ str.filled < str.len /\ out' = Error("unexpected end")
      /\ reader' = reader /\ read' = read /\ str' = str
  BY DEF EndOfBuffer
<1>3. out'.kind = "error" /\ out'.error = "unexpected end" /\ out' # Running
  BY <1>2, Answers
<1>4. TypeOK'
  BY <1>1, <1>2, <1>3 DEF TypeOK
<1>5. Loop' /\ Answered'
  BY <1>3 DEF Loop, Answered
<1>6. Refused'
  BY <1>1, <1>2, <1>3 DEF Loop, Refused
<1>7. InString'
  BY <1>1, <1>2, <1>3 DEF InString
<1>8. QED
  BY <1>4, <1>5, <1>6, <1>7 DEF RInv

\* RInv is inductive.
LEMMA ReaderStep == RInv /\ [Next]_vars => RInv'
<1> SUFFICES ASSUME RInv, [Next]_vars PROVE RInv'
  OBVIOUS
<1>1. ASSUME NEW b \in Byte, NumberByte(b)
      PROVE  RInv'
  BY <1>1, MoreNext, LastNext
<1>2. ASSUME NEW b \in Byte, StringByte(b)
      PROVE  RInv'
  BY <1>2, StringByteNext
<1>3. CASE StringEnd
  BY <1>3, StringEndNext
<1>4. CASE EndOfBuffer
  BY <1>4, EndNext
<1>5. CASE UNCHANGED vars
  BY <1>5 DEF vars, RInv, TypeOK, Loop, Refused, Answered, InString
<1>6. QED
  BY <1>1, <1>2, <1>3, <1>4, <1>5 DEF Next

-----------------------------------------------------------------------------
(* What the readers promise.                                               *)

\* The invariant of the readers, for any widths: what result and shift hold
\* while a number is read, and what the grammar says of what was read.
THEOREM ReaderInvariant == Spec => []RInv
<1>1. Init => RInv
  BY ReaderInit
<1>2. RInv /\ [Next]_vars => RInv'
  BY ReaderStep
<1>3. QED
  BY <1>1, <1>2, PTL DEF Spec

\* What the grammar says of the bytes of a string that begins.
LEMMA StringSays ==
    ASSUME RInv, str # NoString
    PROVE  /\ Meaning(read) = IF str.filled < str.len THEN {} ELSE {str.len}
           /\ str.len \in Nat /\ str.filled \in Nat
<1>1. TypeOK /\ InString
  BY DEF RInv
<1>2. read \in Seq(Byte) /\ str.len \in Nat /\ str.filled \in Nat
  BY <1>1 DEF TypeOK
<1>3. reader = "bytes" /\ str.len \in 0 .. MaxName
  BY <1>1 DEF InString
<1>4. PICK k \in 0 .. Len(read) :
         /\ FirstIn(FALSE, W32, read, k, str.len)
         /\ Len(read) = k + (IF str.filled <= str.len THEN str.filled ELSE str.len)
  BY <1>1 DEF InString
<1>5. StringMeaning(read) = IF Len(read) = k + str.len THEN {str.len} ELSE {}
  BY <1>2, <1>3, <1>4, StringRead
<1>6. Len(read) = k + str.len <=> ~(str.filled < str.len)
  BY <1>2, <1>4
<1>7. Meaning(read) = StringMeaning(read)
  BY <1>3 DEF Meaning
<1>8. QED
  BY <1>2, <1>5, <1>6, <1>7

\* What it says of bytes of which no beginning is an encoding.
LEMMA NothingMeant ==
    ASSUME reader \in Unsigned \cup Signed, NEW rd \in Seq(Byte),
           NoneIn(reader \in Signed, num_max_bits[reader], rd)
    PROVE  Meaning(rd) = {}
<1>1. CASE reader = "bytes"
  <2>1. NoneIn(FALSE, W32, rd)
    <3> DEFINE sg == reader \in Signed
    <3>1. ~sg /\ sg = FALSE /\ num_max_bits[reader] = W32
      BY <1>1, ReaderWidths DEF Signed
    <3>2. NoneIn(sg, num_max_bits[reader], rd)
      OBVIOUS
    <3> HIDE DEF sg
    <3>3. QED
      BY <3>1, <3>2
  <2>2. QED
    BY <1>1, <2>1, NoLength DEF Meaning
<1>2. CASE reader # "bytes"
  <2>1. Len(rd) \in 0 .. Len(rd) /\ SubSeq(rd, 1, Len(rd)) = rd
    BY NothingBehind
  <2>2. Numbers(reader \in Signed)[num_max_bits[reader]][rd] = {}
    BY <2>1 DEF NoneIn
  <2>3. QED
    BY <1>2, <2>2 DEF Meaning
<1>3. QED
  BY <1>1, <1>2

\* For any widths and any buffer, a reader answers when, and only when, what it
\* has read is an encoding of the binary grammar, with the number of that
\* encoding.
THEOREM ReadersFollowTheGrammar == Spec => []AnswersByTheGrammar
<1>1. RInv => AnswersByTheGrammar
  <2> SUFFICES ASSUME RInv PROVE AnswersByTheGrammar
    OBVIOUS
  <2>1. TypeOK /\ Loop /\ Answered /\ InString
    BY DEF RInv
  <2>2. reader \in Unsigned \cup Signed /\ read \in Seq(Byte)
    BY <2>1 DEF TypeOK
  <2>3. CASE str = NoString
    <3>1. out.kind = "value" => Meaning(read) = {out.value}
      BY <2>1, <2>3 DEF Answered, Meaning
    <3>2. out = Running => Meaning(read) = {}
      BY <2>1, <2>2, <2>3, NothingMeant DEF Loop
    <3>3. QED
      BY <3>1, <3>2 DEF AnswersByTheGrammar
  <2>4. CASE str # NoString
    <3>1. /\ Meaning(read) = IF str.filled < str.len THEN {} ELSE {str.len}
          /\ str.len \in Nat /\ str.filled \in Nat
      BY <2>4, StringSays
    <3>2. out.kind = "value" => out.value = str.len /\ str.filled = str.len + 1
      BY <2>1, <2>4 DEF InString
    <3>3. out = Running => str.filled <= str.len
      BY <2>1, <2>4, Answers DEF InString
    <3>4. out.kind = "value" => Meaning(read) = {out.value}
      BY <3>1, <3>2
    <3>5. out = Running => Meaning(read) = {} \/ str.filled = str.len
      BY <3>1, <3>3
    <3>6. QED
      BY <3>4, <3>5 DEF AnswersByTheGrammar
  <2>5. QED
    BY <2>3, <2>4
<1>2. QED
  BY <1>1, ReaderInvariant, PTL

\* For any widths and any buffer, what a reader refuses is no encoding, and when
\* it is refused as too long or too large no byte more makes it one.
THEOREM ReadersRefuseTheMalformed == Spec => []RefusesOnlyTheMalformed
<1>1. RInv => RefusesOnlyTheMalformed
  <2> SUFFICES ASSUME RInv, out.kind = "error"
               PROVE  /\ Meaning(read) = {}
                      /\ out.error # "unexpected end" =>
                            \A b \in Byte : Meaning(Append(read, b)) = {}
    BY DEF RefusesOnlyTheMalformed
  <2>1. TypeOK /\ Refused /\ InString
    BY DEF RInv
  <2>2. reader \in Unsigned \cup Signed /\ read \in Seq(Byte)
    BY <2>1 DEF TypeOK
  <2>3. CASE str = NoString
    <3> DEFINE sg == reader \in Signed
               N == num_max_bits[reader]
    <3>1. /\ NoneIn(sg, N, read)
          /\ out.error # "unexpected end" => Lost(sg, N, read)
      BY <2>1, <2>3 DEF Refused
    <3>2. Meaning(read) = {}
      BY <2>2, <3>1, NothingMeant
    <3>3. ASSUME out.error # "unexpected end", NEW b \in Byte
          PROVE  Meaning(Append(read, b)) = {}
      <4>1. Numbers(sg)[N][Append(read, b)] = {}
        BY <2>2, <3>1, <3>3, LostHere
      <4>2. NoneIn(sg, N, Append(read, b))
        BY <2>2, <3>1, <4>1, NoneInNext
      <4>3. Append(read, b) \in Seq(Byte)
        BY <2>2
      <4>4. QED
        BY <2>2, <4>2, <4>3, NothingMeant
    <3>4. QED
      BY <3>2, <3>3
  <2>4. CASE str # NoString
    <3>1. out.error = "unexpected end" /\ str.filled < str.len
      BY <2>1, <2>4 DEF InString
    <3>2. QED
      BY <2>4, <3>1, StringSays
  <2>5. QED
    BY <2>3, <2>4
<1>2. QED
  BY <1>1, ReaderInvariant, PTL

\* read_bytes writes its string and the zero behind it into what it allocated,
\* unless the length is the greatest of W32 bits, whose successor is zero.
THEOREM StringsFit == MaxName < Pow2[W32] - 1 => (Spec => []StringFits)
<1> SUFFICES ASSUME MaxName < Pow2[W32] - 1 PROVE Spec => []StringFits
  OBVIOUS
<1>1. RInv => StringFits
  <2> SUFFICES ASSUME RInv PROVE str.filled <= str.alloc
    BY DEF StringFits
  <2>1. TypeOK /\ InString
    BY DEF RInv
  <2>2. CASE str = NoString
    BY <2>2 DEF NoString
  <2>3. CASE str # NoString
    <3>1. /\ str.len \in 0 .. MaxName /\ str.alloc = (str.len + 1) % Pow2[W32]
          /\ str.filled \in 0 .. str.len + 1
      BY <2>1, <2>3 DEF InString
    <3>2. Pow2[W32] \in Nat /\ MaxName \in Int
      BY BoundAssumption, WidthAssumption, Pow2Positive
    <3>3. str.len + 1 \in Nat /\ str.len + 1 < Pow2[W32]
      BY <3>1, <3>2
    <3>4. \A a, m \in Nat : a < m => a % m = a
      OBVIOUS
    <3>5. str.alloc = str.len + 1
      BY <3>1, <3>2, <3>3, <3>4
    <3>6. QED
      BY <3>1, <3>5
  <2>4. QED
    BY <2>2, <2>3
<1>2. QED
  BY <1>1, ReaderInvariant, PTL
=============================================================================
