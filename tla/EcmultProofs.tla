---------------------------- MODULE EcmultProofs ----------------------------
(***************************************************************************)
(* What is proved of scalar multiplication: the blinded multiplication     *)
(* with the generator that signing uses (src/ecmult_gen_impl.h) is right   *)
(* for every scalar, on any curve, with a comb of any size, whatever the   *)
(* blinding; and the recodings of scalars into signed windows              *)
(* (src/ecmult_impl.h, src/ecmult_const_impl.h) represent the scalar.      *)
(***************************************************************************)
EXTENDS Ecmult, GroupProofs

-----------------------------------------------------------------------------
(* Powers of two.                                                          *)

\* There are as many subsets with n + 1 as without it.
LEMMA TwoNext ==
  ASSUME NEW n \in Nat
  PROVE  2^n \in Nat /\ 2^(n + 1) = 2^n + 2^n
<1> DEFINE S == 1..n
           T == 1..(n + 1)
           A == SUBSET S
           B == {X \in SUBSET T : n + 1 \in X}
<1>1. IsFiniteSet(S) /\ Cardinality(S) = n /\ IsFiniteSet(T) /\ Cardinality(T) = n + 1
  BY FS_Interval
<1>2. IsFiniteSet(A) /\ Cardinality(A) = 2^n /\ Cardinality(SUBSET T) = 2^(n + 1)
  BY <1>1, FS_SUBSET
<1>3. \A X \in A : n + 1 \notin X
  OBVIOUS
<1>4. \A X \in SUBSET T : X \ {n + 1} \in A
  OBVIOUS
<1> DEFINE f == [X \in A |-> X \cup {n + 1}]
<1>5. f \in [A -> B]
  <2>1. \A X \in A : X \cup {n + 1} \in B
    OBVIOUS
  <2> QED
    BY <2>1
<1>6. \A X, Y \in A : f[X] = f[Y] => X = Y
  <2> SUFFICES ASSUME NEW X \in A, NEW Y \in A, f[X] = f[Y] PROVE X = Y
    OBVIOUS
  <2>1. X \cup {n + 1} = Y \cup {n + 1} /\ n + 1 \notin X /\ n + 1 \notin Y
    BY <1>3
  <2> QED
    BY <2>1
<1>7. \A Y \in B : \E X \in A : f[X] = Y
  <2> SUFFICES ASSUME NEW Y \in B PROVE \E X \in A : f[X] = Y
    OBVIOUS
  <2>1. Y \ {n + 1} \in A /\ (Y \ {n + 1}) \cup {n + 1} = Y
    BY <1>4
  <2> QED
    BY <2>1
<1>8. f \in Bijection(A, B)
  <2> HIDE DEF A, B, f
  <2> QED
    BY <1>5, <1>6, <1>7 DEF Bijection, Injection, Surjection, IsInjective
<1>9. IsFiniteSet(B) /\ Cardinality(B) = 2^n
  BY <1>2, <1>8, FS_Bijection DEF ExistsBijection
<1>10. SUBSET T = A \cup B /\ A \cap B = {}
  <2>1. \A X \in SUBSET T : n + 1 \notin X => X \in A
    BY <1>4
  <2>2. A \subseteq SUBSET T
    OBVIOUS
  <2> QED
    BY <1>3, <2>1, <2>2
<1>11. Cardinality(A \cup B) = Cardinality(A) + Cardinality(B) - Cardinality({})
  <2> HIDE DEF A, B
  <2> QED
    BY <1>2, <1>9, <1>10, FS_Union
<1> HIDE DEF A, B
<1>12. Cardinality({}) = 0 /\ Cardinality(A) \in Nat
  BY <1>2, FS_EmptySet, FS_CardinalityType
<1>13. 2^n \in Nat
  BY <1>2, <1>12
<1>14. Cardinality(A \cup B) = 2^n + 2^n
  BY <1>2, <1>9, <1>11, <1>12, <1>13
<1>15. Cardinality(SUBSET T) = Cardinality(A \cup B)
  BY <1>10, Zenon
<1> QED
  BY <1>2, <1>13, <1>14, <1>15, Zenon

Two(n) == 2^n

LEMMA TwoLaws ==
  /\ Two(0) = 1
  /\ \A n \in Nat : Two(n) \in Nat \ {0} /\ Two(n + 1) = 2 * Two(n)
<1> DEFINE T == {n \in Nat : Two(n) # 0}
<1>1. Two(0) = 1
  BY DEF Two
<1>2. \A n \in Nat : Two(n) \in Nat /\ Two(n + 1) = 2 * Two(n)
  BY TwoNext DEF Two
<1>3. Nat \subseteq T
  <2>1. 0 \in T
    BY <1>1
  <2>2. ASSUME NEW n \in Nat, n \in T PROVE n + 1 \in T
    BY <1>2, <2>2
  <2> QED
    BY <2>1, <2>2, NatInductive
<1> QED
  BY <1>1, <1>2, <1>3

\* The exponents of a product add up.
LEMMA TwoSum ==
  ASSUME NEW m \in Nat, NEW n \in Nat
  PROVE  Two(m + n) = Two(m) * Two(n)
<1> DEFINE T == {e \in Nat : Two(m + e) = Two(m) * Two(e)}
<1>1. 0 \in T
  BY TwoLaws
<1>2. ASSUME NEW e \in Nat, e \in T PROVE e + 1 \in T
  <2>1. m + e \in Nat /\ m + (e + 1) = (m + e) + 1
    OBVIOUS
  <2>2. Two(m + (e + 1)) = 2 * Two(m + e) /\ Two(e + 1) = 2 * Two(e) /\ Two(m) \in Nat /\ Two(e) \in Nat
    BY <2>1, TwoLaws
  <2>3. Two(m + e) = Two(m) * Two(e)
    BY <1>2
  <2>4. 2 * (Two(m) * Two(e)) = Two(m) * (2 * Two(e))
    BY <2>2
  <2> QED
    BY <2>2, <2>3, <2>4
<1>3. Nat \subseteq T
  BY <1>1, <1>2, NatInductive
<1> QED
  BY <1>3

LEMMA TwoGrows ==
  ASSUME NEW m \in Nat, NEW n \in Nat, m <= n
  PROVE  Two(m) <= Two(n)
<1>1. PICK d \in Nat : n = m + d
  <2>1. n - m \in Nat /\ n = m + (n - m)
    OBVIOUS
  <2> QED
    BY <2>1
<1>2. Two(n) = Two(m) * Two(d) /\ Two(m) \in Nat \ {0} /\ Two(d) \in Nat \ {0}
  BY <1>1, TwoSum, TwoLaws
<1>3. Two(m) * Two(d) >= Two(m)
  BY <1>2, MultipleFar
<1> QED
  BY <1>2, <1>3

-----------------------------------------------------------------------------
(* Loops.  Each of the model's recursive functions runs over the steps of  *)
(* a loop, from one member of a set to the next.                           *)

Steps(f, S, n) == f \in [(1..n) \X S -> S]
LoopOf(g, S, n, x, f) ==
  g \in [0..n -> S] /\ g[0] = x /\ \A i \in 1..n : g[i] = f[<<i, g[i - 1]>>]

LEMMA LoopExists ==
  ASSUME NEW S, NEW n \in Nat, NEW x \in S, NEW f, Steps(f, S, n)
  PROVE  \E g : LoopOf(g, S, n, x, f)
<1> DEFINE Loop(g, m) ==
             g \in [0..m -> S] /\ g[0] = x /\ \A i \in 1..m : g[i] = f[<<i, g[i - 1]>>]
           T == {m \in Nat : m <= n => \E g : Loop(g, m)}
<1>1. 0 \in T
  <2> DEFINE g == [i \in 0..0 |-> x]
  <2>1. Loop(g, 0)
    OBVIOUS
  <2> QED
    BY <2>1
<1>2. ASSUME NEW m \in Nat, m \in T PROVE m + 1 \in T
  <2> SUFFICES ASSUME m + 1 <= n PROVE \E g : Loop(g, m + 1)
    OBVIOUS
  <2>1. PICK g : Loop(g, m)
    BY <1>2
  <2> DEFINE y == f[<<m + 1, g[m]>>]
             h == [i \in 0..(m + 1) |-> IF i = m + 1 THEN y ELSE g[i]]
  <2>2. m + 1 \in 1..n /\ g[m] \in S /\ \A i \in 0..m : g[i] \in S
    BY <2>1
  <2>3. y \in S
    <3>1. <<m + 1, g[m]>> \in (1..n) \X S
      BY <2>2
    <3> QED
      BY <3>1 DEF Steps
  <2> HIDE DEF y
  <2>4. h \in [0..(m + 1) -> S]
    BY <2>2, <2>3
  <2>5. h[0] = x
    BY <2>1
  <2>6. ASSUME NEW i \in 1..(m + 1) PROVE h[i] = f[<<i, h[i - 1]>>]
    <3>1. CASE i = m + 1
      <4>1. i - 1 = m /\ m \in 0..(m + 1) /\ m # m + 1 /\ i \in 0..(m + 1)
        BY <3>1
      <4>2. h[m] = g[m] /\ h[i] = y
        BY <3>1, <4>1
      <4> QED
        BY <3>1, <4>1, <4>2 DEF y
    <3>2. CASE i # m + 1
      <4>1. i \in 1..m /\ i - 1 \in 0..(m + 1) /\ i - 1 # m + 1 /\ i \in 0..(m + 1)
        BY <3>2
      <4>2. h[i - 1] = g[i - 1] /\ h[i] = g[i]
        BY <3>2, <4>1
      <4> QED
        BY <2>1, <4>1, <4>2
    <3> QED
      BY <3>1, <3>2
  <2> HIDE DEF h
  <2> QED
    BY <2>4, <2>5, <2>6
<1>3. Nat \subseteq T
  BY <1>1, <1>2, NatInductive
<1>4. \E g : Loop(g, n)
  BY <1>3
<1> QED
  BY <1>4 DEF LoopOf

-----------------------------------------------------------------------------
(* Repeated doubling.                                                      *)

\* The points whose magnitudes every operation accepts.
Gejs == {a \in [x : Fes, y : Fes, z : Fes, infinity : BOOLEAN] : GejFine(a)}

LEMMA GejsAre == \A a : a \in Gejs <=> GejFine(a)
BY DEF Gejs, GejFine

LEMMA DoubledStands ==
  ASSUME NEW a, GejFine(a), NEW k1 \in Int, Stands(a, Mult(k1)), NEW n \in Nat
  PROVE  GejFine(Doubled(a, n)) /\ Stands(Doubled(a, n), Mult(Two(n) * k1))
<1> DEFINE f == [p \in (1..n) \X Gejs |-> gej_double_var(p[2]).r]
           r == CHOOSE h : h = [i \in 0 .. n |-> IF i = 0 THEN a ELSE gej_double_var(h[i-1]).r]
<1>1. Steps(f, Gejs, n)
  BY DoubleFine, GejsAre DEF Steps
<1>a. PICK g : LoopOf(g, Gejs, n, a, f)
  <2>1. a \in Gejs
    BY GejsAre
  <2> HIDE DEF f
  <2> QED
    BY <1>1, <2>1, LoopExists
<1>2. g \in [0..n -> Gejs] /\ g[0] = a /\ \A i \in 1..n : g[i] = f[<<i, g[i - 1]>>]
  BY <1>a DEF LoopOf
<1>3. \A i \in 0..n : g[i] = IF i = 0 THEN a ELSE gej_double_var(g[i-1]).r
  <2> SUFFICES ASSUME NEW i \in 0..n, i # 0 PROVE g[i] = gej_double_var(g[i-1]).r
    BY <1>2
  <2>1. i \in 1..n /\ <<i, g[i - 1]>> \in (1..n) \X Gejs
    BY <1>2
  <2> QED
    BY <1>2, <2>1
<1>4. g = [i \in 0 .. n |-> IF i = 0 THEN a ELSE gej_double_var(g[i-1]).r]
  BY <1>2, <1>3
<1>5. r = [i \in 0 .. n |-> IF i = 0 THEN a ELSE gej_double_var(r[i-1]).r]
  BY <1>4
<1>6. Doubled(a, n) = r[n]
  BY DEF Doubled
<1> HIDE DEF r
<1>7. \A i \in 0..n : r[i] = IF i = 0 THEN a ELSE gej_double_var(r[i-1]).r
  BY <1>5
<1> DEFINE T == {i \in Nat : i <= n => GejFine(r[i]) /\ Stands(r[i], Mult(Two(i) * k1))}
<1>8. 0 \in T
  <2>1. r[0] = a
    BY <1>7
  <2>2. Two(0) * k1 = k1
    BY TwoLaws
  <2> QED
    BY <2>1, <2>2
<1>9. ASSUME NEW i \in Nat, i \in T PROVE i + 1 \in T
  <2> SUFFICES ASSUME i + 1 <= n
               PROVE  GejFine(r[i + 1]) /\ Stands(r[i + 1], Mult(Two(i + 1) * k1))
    OBVIOUS
  <2>1. i + 1 \in 0..n /\ i + 1 # 0 /\ (i + 1) - 1 = i /\ i <= n
    OBVIOUS
  <2>2. r[i + 1] = gej_double_var(r[i]).r
    BY <1>7, <2>1
  <2>3. GejFine(r[i]) /\ Stands(r[i], Mult(Two(i) * k1))
    BY <1>9, <2>1
  <2>4. Two(i) * k1 \in Int /\ Two(i + 1) * k1 = 2 * (Two(i) * k1)
    <3>1. Two(i) \in Int /\ Two(i + 1) = 2 * Two(i)
      BY TwoLaws
    <3>2. PICK t \in Int : t = Two(i)
      BY <3>1
    <3>3. t * k1 \in Int /\ (2 * t) * k1 = 2 * (t * k1)
      OBVIOUS
    <3> QED
      BY <3>1, <3>2, <3>3
  <2> QED
    BY <2>2, <2>3, <2>4, DoubleFine, DoubleStands
<1>10. Nat \subseteq T
  BY <1>8, <1>9, NatInductive
<1> QED
  BY <1>6, <1>10

-----------------------------------------------------------------------------
(* The comb: what its entries stand for.                                   *)

LEMMA GStands == GeFine(G) /\ G.infinity = FALSE /\ GeStands(G, Mult(1)) /\ Mult(1) # Inf
<1>1. 1 \in 0 .. Order-1 /\ 1 \in 1 .. Order-1
  BY OrderFacts
<1>2. Mult(1) # Inf
  BY <1>1, CurveAssumption
<1>3. GeFine(G) /\ GeStands(G, Mult(1))
  BY <1>1, FreshGeFine, FreshGeStands DEF G
<1> QED
  BY <1>2, <1>3 DEF GeStands

\* nums is the multiple of G that nobody knows.
LEMMA NumsStands == \E j \in Int : GejFine(Nums) /\ Stands(Nums, Mult(j))
<1>1. PICK j \in 1 .. Order-1 : Mult(j)[1] = NumsX
  BY EcmultAssumption
<1>2. j \in Int /\ Mult(j) # Inf
  BY <1>1, CurveAssumption, OrderFacts
<1>3. PICK p1 \in 0 .. P-1, p2 \in 0 .. P-1 : Mult(j) = <<p1, p2>>
  BY <1>2, OnTheCurve
<1>4. p1 = NumsX /\ p2 \in Int /\ p2 \in Nat /\ P \in Nat /\ P % 2 = 1
  BY <1>1, <1>3, OrderFacts
<1>5. Mult(-j) = <<p1, P - p2>> /\ P - p2 \in 0 .. P-1 /\ -j \in Int /\ P - p2 \in Nat
  BY <1>2, <1>3, <1>4, OppositePair
<1>6. PICK odd \in BOOLEAN : odd = FALSE
  OBVIOUS
<1>7. PICK xo : xo = ge_set_xo_var(fe_set_int(NumsX), odd)
  OBVIOUS
<1>8. \E q \in {p2, P - p2} : (q % 2 = 1) <=> odd
  BY <1>4, <1>5, <1>6
<1>9. PICK q \in {p2, P - p2} : Decompressed(xo.r, p1, q)
  BY <1>2, <1>3, <1>4, <1>7, <1>8, XoFinds
<1>10. PICK i \in Int : Mult(i) = <<p1, q>>
  BY <1>2, <1>3, <1>5, <1>9
<1>11. GeFine(xo.r)
  BY <1>9 DEF Decompressed, GeFine, Fine
<1>12. GeStands(xo.r, Mult(i))
  <2>1. Mult(i) # Inf
    BY <1>10 DEF Inf
  <2>2. xo.r.infinity = FALSE /\ xo.r.x.v = p1 /\ xo.r.y.v = q /\ q \in 0 .. P-1
    BY <1>5, <1>9 DEF Decompressed
  <2> QED
    BY <1>10, <2>1, <2>2 DEF GeStands
<1>13. PICK a : a = gej_set_ge(xo.r)
  OBVIOUS
<1>14. GejFine(a) /\ Stands(a, Mult(i))
  BY <1>11, <1>12, <1>13, SetGeFine, SetGeStands
<1>15. GejFine(gej_add_ge_var(a, G).r) /\ Stands(gej_add_ge_var(a, G).r, Mult(i + 1))
  BY <1>14, GStands, AddGeVarFine, AddGeVarStands
<1>16. Nums = gej_add_ge_var(a, G).r
  BY <1>6, <1>7, <1>13 DEF Nums
<1>17. i + 1 \in Int
  OBVIOUS
<1> QED
  BY <1>15, <1>16, <1>17

NumsLog == CHOOSE j \in Int : GejFine(Nums) /\ Stands(Nums, Mult(j))

LEMMA NumsLogIs == NumsLog \in Int /\ GejFine(Nums) /\ Stands(Nums, Mult(NumsLog))
BY NumsStands DEF NumsLog

\* The comb's sizes.
LEMMA CombSizes ==
  /\ GenRows \in Nat \ {0} /\ GenBits \in Nat \ {0} /\ ScalarBits \in Nat \ {0}
  /\ 2^GenBits = Two(GenBits) /\ Two(GenBits) \in Nat \ {0}
  /\ Order < Two(ScalarBits) /\ ScalarBits <= GenRows * GenBits
<1>1. GenRows \in Nat \ {0} /\ GenBits \in Nat \ {0} /\ ScalarBits \in Nat \ {0}
  BY EcmultAssumption
<1> QED
  BY <1>1, EcmultAssumption, TwoLaws DEF Two

\* The multiple of nums that row j starts from.
Offset(j) == IF j < GenRows - 1 THEN Two(j) ELSE 1 - Two(j)

LEMMA RowStartStands ==
  ASSUME NEW j \in 0 .. GenRows-1
  PROVE  /\ Offset(j) * NumsLog \in Int
         /\ GejFine(RowStart(j)) /\ Stands(RowStart(j), Mult(Offset(j) * NumsLog))
<1>1. j \in Nat /\ NumsLog \in Int
  BY CombSizes, NumsLogIs
<1>2. Two(j) \in Int
  BY <1>1, TwoLaws
<1>3. PICK t \in Int : t = Two(j) * NumsLog
  BY <1>1, <1>2
<1>4. PICK d : d = Doubled(Nums, j)
  OBVIOUS
<1>5. GejFine(d) /\ Stands(d, Mult(t))
  BY <1>1, <1>3, <1>4, NumsLogIs, DoubledStands
<1>6. CASE j < GenRows - 1
  <2>1. RowStart(j) = d /\ Offset(j) * NumsLog = t
    BY <1>3, <1>4, <1>6 DEF RowStart, Offset
  <2> QED
    BY <1>5, <2>1
<1>7. CASE ~(j < GenRows - 1)
  <2>1. RowStart(j) = gej_add_var(gej_neg(d), Nums).r
    BY <1>4, <1>7 DEF RowStart
  <2>2. GejFine(gej_neg(d)) /\ Stands(gej_neg(d), Mult(-t)) /\ -t \in Int
    BY <1>5, NegFine, NegStands
  <2>3. GejFine(RowStart(j)) /\ Stands(RowStart(j), Mult(-t + NumsLog))
    BY <1>1, <2>1, <2>2, NumsLogIs, AddVarFine, AddVarStands
  <2>4. Offset(j) = 1 - Two(j)
    BY <1>7 DEF Offset
  <2>5. (1 - Two(j)) * NumsLog = -(Two(j) * NumsLog) + NumsLog
    BY <1>1, <1>2
  <2>6. Offset(j) * NumsLog = -t + NumsLog /\ -t + NumsLog \in Int
    BY <1>1, <1>3, <2>4, <2>5
  <2> QED
    BY <2>3, <2>6
<1> QED
  BY <1>6, <1>7

\* A row goes up by its base.
LEMMA RowOfStands ==
  ASSUME NEW start, GejFine(start), NEW s \in Int, Stands(start, Mult(s)),
         NEW base, GejFine(base), NEW b \in Int, Stands(base, Mult(b)),
         NEW i \in 0 .. 2^GenBits - 1
  PROVE  GejFine(RowOf(start, base)[i]) /\ Stands(RowOf(start, base)[i], Mult(s + i * b))
<1>0. PICK n \in Nat : n = 2^GenBits - 1
  BY CombSizes
<1> DEFINE f == [p \in (1..n) \X Gejs |-> gej_add_var(p[2], base).r]
           r == RowOf(start, base)
<1>1. Steps(f, Gejs, n)
  BY AddVarFine, GejsAre DEF Steps
<1>2. PICK g : LoopOf(g, Gejs, n, start, f)
  <2>1. start \in Gejs
    BY GejsAre
  <2> HIDE DEF f
  <2> QED
    BY <1>1, <2>1, LoopExists
<1>3. g \in [0..n -> Gejs] /\ g[0] = start /\ \A m \in 1..n : g[m] = f[<<m, g[m - 1]>>]
  BY <1>2 DEF LoopOf
<1>4. \A m \in 0..n : g[m] = IF m = 0 THEN start ELSE gej_add_var(g[m-1], base).r
  <2> SUFFICES ASSUME NEW m \in 0..n, m # 0 PROVE g[m] = gej_add_var(g[m-1], base).r
    BY <1>3
  <2>1. m \in 1..n /\ <<m, g[m - 1]>> \in (1..n) \X Gejs
    BY <1>3
  <2> QED
    BY <1>3, <2>1
<1>5. g = [m \in 0 .. 2^GenBits - 1 |-> IF m = 0 THEN start ELSE gej_add_var(g[m-1], base).r]
  BY <1>0, <1>3, <1>4
<1>6. r = [m \in 0 .. 2^GenBits - 1 |-> IF m = 0 THEN start ELSE gej_add_var(r[m-1], base).r]
  BY <1>5 DEF RowOf
<1> HIDE DEF r
<1>7. \A m \in 0..n : r[m] = IF m = 0 THEN start ELSE gej_add_var(r[m-1], base).r
  BY <1>0, <1>6
<1> DEFINE T == {m \in Nat : m <= n => GejFine(r[m]) /\ Stands(r[m], Mult(s + m * b))}
<1>8. 0 \in T
  <2>1. r[0] = start
    BY <1>7
  <2>2. s + 0 * b = s
    OBVIOUS
  <2> QED
    BY <2>1, <2>2
<1>9. ASSUME NEW m \in Nat, m \in T PROVE m + 1 \in T
  <2> SUFFICES ASSUME m + 1 <= n
               PROVE  GejFine(r[m + 1]) /\ Stands(r[m + 1], Mult(s + (m + 1) * b))
    OBVIOUS
  <2>1. m + 1 \in 0..n /\ m + 1 # 0 /\ (m + 1) - 1 = m /\ m <= n
    OBVIOUS
  <2>2. r[m + 1] = gej_add_var(r[m], base).r
    BY <1>7, <2>1
  <2>3. GejFine(r[m]) /\ Stands(r[m], Mult(s + m * b))
    BY <1>9, <2>1
  <2>4. s + m * b \in Int /\ s + (m + 1) * b = (s + m * b) + b
    OBVIOUS
  <2> QED
    BY <2>2, <2>3, <2>4, AddVarFine, AddVarStands
<1>10. Nat \subseteq T
  BY <1>8, <1>9, NatInductive
<1>11. i \in Nat /\ i <= n
  BY <1>0
<1> QED
  BY <1>10, <1>11 DEF r

\* Row and column of an index.
LEMMA RowAndColumn ==
  ASSUME NEW w \in Nat \ {0}, NEW j \in Nat, NEW i \in 0 .. w-1
  PROVE  (j * w + i) \div w = j /\ (j * w + i) % w = i
<1>1. PICK a \in Nat : a = j * w + i
  <2>1. j * w \in Nat
    OBVIOUS
  <2> QED
    BY <2>1
<1>2. a % w \in 0 .. w-1 /\ a \div w \in Int /\ a = (a \div w) * w + (a % w)
  BY <1>1
<1>3. PICK q \in Int, r \in 0 .. w-1 : q = a \div w /\ r = a % w
  BY <1>2
<1>4. (j - q) * w = r - i
  <2>1. (j - q) * w = j * w - q * w
    OBVIOUS
  <2> QED
    <3>1. PICK y \in Int, z \in Int : y = j * w /\ z = q * w
      OBVIOUS
    <3>2. y + i = z + r
      BY <1>1, <1>2, <1>3, <3>1
    <3> QED
      BY <2>1, <3>1, <3>2
<1>5. j - q \in Int /\ r - i < w /\ r - i > -w
  OBVIOUS
<1>6. j - q = 0
  <2>1. CASE j - q >= 1
    BY <1>4, <1>5, <2>1, MultipleFar
  <2>2. CASE j - q <= -1
    BY <1>4, <1>5, <2>2, MultipleFar
  <2> QED
    BY <1>5, <2>1, <2>2
<1>7. q = j /\ r = i
  <2>1. q = j
    BY <1>6
  <2>2. (j - q) * w = 0
    BY <1>6
  <2> QED
    BY <1>4, <2>1, <2>2
<1> QED
  BY <1>1, <1>3, <1>7

\* Where entry i of row j lies in the flat array.
Index(j, i) == j * 2^GenBits + i + 1

LEMMA Indices ==
  /\ \A j \in 0 .. GenRows-1, i \in 0 .. 2^GenBits - 1 :
       /\ Index(j, i) \in 1 .. GenRows * 2^GenBits
       /\ (Index(j, i) - 1) \div 2^GenBits = j /\ (Index(j, i) - 1) % 2^GenBits = i
  /\ \A n \in 1 .. GenRows * 2^GenBits :
       \E j \in 0 .. GenRows-1, i \in 0 .. 2^GenBits - 1 : n = Index(j, i)
<1>1. PICK w \in Nat \ {0} : w = 2^GenBits
  BY CombSizes
<1>2. GenRows \in Nat \ {0}
  BY CombSizes
<1>3. ASSUME NEW j \in 0 .. GenRows-1, NEW i \in 0 .. w-1
      PROVE  /\ j * w + i + 1 \in 1 .. GenRows * w
             /\ ((j * w + i + 1) - 1) \div w = j /\ ((j * w + i + 1) - 1) % w = i
  <2>1. j * w \in Nat /\ GenRows * w \in Nat /\ j \in Nat
    BY <1>2
  <2>2. (GenRows - j) * w >= w /\ (GenRows - j) * w = GenRows * w - j * w
    <3>1. GenRows - j \in Int /\ GenRows - j >= 1
      BY <1>2
    <3>2. (GenRows - j) * w >= w
      BY <3>1, MultipleFar
    <3>3. (GenRows - j) * w = GenRows * w - j * w
      BY <1>2
    <3> QED
      BY <3>2, <3>3
  <2>3. (j * w + i + 1) - 1 = j * w + i
    BY <2>1
  <2>4. (j * w + i) \div w = j /\ (j * w + i) % w = i
    BY <2>1, RowAndColumn
  <2> QED
    BY <2>1, <2>2, <2>3, <2>4
<1>4. ASSUME NEW n \in 1 .. GenRows * w
      PROVE  \E j \in 0 .. GenRows-1, i \in 0 .. w-1 : n = j * w + i + 1
  <2>1. PICK a \in Nat : a = n - 1
    OBVIOUS
  <2>2. PICK q \in Int, r \in 0 .. w-1 : a = q * w + r
    <3>1. a % w \in 0 .. w-1 /\ a \div w \in Int /\ a = (a \div w) * w + (a % w)
      OBVIOUS
    <3> QED
      BY <3>1
  <2>3. GenRows * w \in Nat /\ a < GenRows * w /\ n = a + 1
    BY <1>2, <2>1
  <2>4. q >= 0
    <3>1. CASE q <= -1
      <4>1. q * w <= -w
        BY <3>1, MultipleFar
      <4>2. q * w \in Int
        OBVIOUS
      <4> QED
        BY <2>2, <4>1, <4>2
    <3> QED
      BY <3>1
  <2>5. q < GenRows
    <3>1. CASE q - GenRows >= 0
      <4>1. (q - GenRows) * w >= 0 /\ (q - GenRows) * w = q * w - GenRows * w
        BY <1>2, <3>1
      <4>2. q * w \in Int
        OBVIOUS
      <4> QED
        BY <2>2, <2>3, <4>1, <4>2
    <3> QED
      BY <1>2, <3>1
  <2>6. q \in 0 .. GenRows-1 /\ n = q * w + r + 1
    BY <1>2, <2>2, <2>3, <2>4, <2>5
  <2> QED
    BY <2>6
<1> QED
  BY <1>1, <1>3, <1>4 DEF Index

\* The multiple of G that entry i of row j is.
EntryLog(j, i) == Offset(j) * NumsLog + i * Two(GenBits * j)

LEMMA PrecJStands ==
  ASSUME NEW j \in 0 .. GenRows-1, NEW i \in 0 .. 2^GenBits - 1
  PROVE  /\ EntryLog(j, i) \in Int /\ GejFine(PrecJ[Index(j, i)])
         /\ Stands(PrecJ[Index(j, i)], Mult(EntryLog(j, i)))
         /\ PrecJ[Index(j, i)].infinity = FALSE
<1>1. j \in Nat /\ GenBits * j \in Nat /\ i \in Int
  BY CombSizes
<1>2. PICK a : a = gej_set_ge(G)
  OBVIOUS
<1>3. GejFine(a) /\ Stands(a, Mult(1))
  BY <1>2, GStands, SetGeFine, SetGeStands
<1>4. PICK b \in Int : b = Two(GenBits * j)
  BY <1>1, TwoLaws
<1>5. PICK base : base = Doubled(a, GenBits * j)
  OBVIOUS
<1>6. GejFine(base) /\ Stands(base, Mult(b))
  <2>1. Two(GenBits * j) * 1 = b
    BY <1>4
  <2> QED
    BY <1>1, <1>3, <1>5, <2>1, DoubledStands
<1>7. PICK start : start = RowStart(j)
  OBVIOUS
<1>8. PICK s \in Int : s = Offset(j) * NumsLog
  BY RowStartStands
<1>9. GejFine(start) /\ Stands(start, Mult(s))
  BY <1>7, <1>8, RowStartStands
<1>10. GejFine(RowOf(start, base)[i]) /\ Stands(RowOf(start, base)[i], Mult(s + i * b))
  BY <1>6, <1>9, RowOfStands
<1>11. EntryLog(j, i) = s + i * b /\ s + i * b \in Int
  BY <1>1, <1>4, <1>8 DEF EntryLog
<1>12. /\ Index(j, i) \in 1 .. GenRows * 2^GenBits
       /\ (Index(j, i) - 1) \div 2^GenBits = j /\ (Index(j, i) - 1) % 2^GenBits = i
  BY Indices
<1>13. PrecJ[Index(j, i)] = RowOf(start, base)[i]
  BY <1>2, <1>5, <1>7, <1>12 DEF PrecJ
<1>14. PrecJ[Index(j, i)].infinity = FALSE
  <2>1. ~PrecJ[Index(j, i)].infinity
    BY <1>12, CombAssumption
  <2>2. PrecJ[Index(j, i)].infinity \in BOOLEAN
    BY <1>10, <1>13 DEF GejFine
  <2> QED
    BY <2>1, <2>2
<1> QED
  BY <1>10, <1>11, <1>13, <1>14

-----------------------------------------------------------------------------
(* All inverses with one inversion.                                        *)

LEMMA Upward ==
  ASSUME NEW n \in Nat \ {0}, NEW I, 1 \in I, \A i \in 2..n : i - 1 \in I => i \in I
  PROVE  \A i \in 1..n : i \in I
<1> DEFINE T == {m \in Nat : m + 1 <= n => m + 1 \in I}
<1>1. 0 \in T
  OBVIOUS
<1>2. ASSUME NEW m \in Nat, m \in T PROVE m + 1 \in T
  <2> SUFFICES ASSUME (m + 1) + 1 <= n PROVE (m + 1) + 1 \in I
    OBVIOUS
  <2>1. m + 1 \in I /\ (m + 1) + 1 \in 2..n /\ ((m + 1) + 1) - 1 = m + 1
    BY <1>2
  <2> QED
    BY <2>1
<1>3. Nat \subseteq T
  BY <1>1, <1>2, NatInductive
<1>4. SUFFICES ASSUME NEW i \in 1..n PROVE i \in I
  OBVIOUS
<1>5. i - 1 \in T /\ (i - 1) + 1 = i /\ i <= n
  BY <1>3
<1> QED
  BY <1>5

LEMMA Downward ==
  ASSUME NEW n \in Nat \ {0}, NEW I, n \in I, \A i \in 1 .. n-1 : i + 1 \in I => i \in I
  PROVE  \A i \in 1..n : i \in I
<1> DEFINE J == {i \in 1..n : n + 1 - i \in I}
<1>1. 1 \in J
  BY SMT
<1>2. ASSUME NEW i \in 2..n, i - 1 \in J PROVE i \in J
  <2>1. n + 1 - (i - 1) \in I /\ n + 1 - i \in 1 .. n-1 /\ (n + 1 - i) + 1 = n + 1 - (i - 1) /\ i \in 1..n
    BY <1>2
  <2> QED
    BY <2>1
<1>3. \A i \in 1..n : i \in J
  <2> HIDE DEF J
  <2> QED
    BY <1>1, <1>2, Upward
<1>4. SUFFICES ASSUME NEW i \in 1..n PROVE i \in I
  OBVIOUS
<1>5. n + 1 - i \in 1..n /\ n + 1 - (n + 1 - i) = i
  OBVIOUS
<1> QED
  BY <1>3, <1>5

UpLoop(h, S, n, x, f) ==
  h \in [1..n -> S] /\ h[1] = x /\ \A i \in 2..n : h[i] = f[<<i, h[i - 1]>>]
DownLoop(h, S, n, x, f) ==
  h \in [1..n -> S] /\ h[n] = x /\ \A i \in 1 .. n-1 : h[i] = f[<<i, h[i + 1]>>]

LEMMA UpwardExists ==
  ASSUME NEW S, NEW n \in Nat \ {0}, NEW x \in S, NEW f, Steps(f, S, n)
  PROVE  \E h : UpLoop(h, S, n, x, f)
<1> DEFINE m == n - 1
           e == [p \in (1..m) \X S |-> f[<<p[1] + 1, p[2]>>]]
<1>1. m \in Nat
  OBVIOUS
<1>2. ASSUME NEW i \in 1..m, NEW y \in S
      PROVE  e[<<i, y>>] = f[<<i + 1, y>>] /\ f[<<i + 1, y>>] \in S
  BY DEF Steps
<1>3. Steps(e, S, m)
  <2>1. \A p \in (1..m) \X S : f[<<p[1] + 1, p[2]>>] \in S
    BY DEF Steps
  <2> QED
    BY <2>1 DEF Steps
<1>4. PICK g : LoopOf(g, S, m, x, e)
  <2> HIDE DEF m, e
  <2> QED
    BY <1>1, <1>3, LoopExists
<1>5. g \in [0..m -> S] /\ g[0] = x /\ \A i \in 1..m : g[i] = e[<<i, g[i - 1]>>]
  BY <1>4 DEF LoopOf
<1> DEFINE h == [i \in 1..n |-> g[i - 1]]
<1>6. h \in [1..n -> S] /\ h[1] = x
  BY <1>5
<1>7. ASSUME NEW i \in 2..n PROVE h[i] = f[<<i, h[i - 1]>>]
  <2>1. i - 1 \in 1..m /\ i \in 1..n /\ i - 1 \in 1..n /\ (i - 1) + 1 = i /\ (i - 1) - 1 \in 0..m
    OBVIOUS
  <2>2. h[i] = g[i - 1] /\ h[i - 1] = g[(i - 1) - 1]
    BY <2>1
  <2>3. g[i - 1] = e[<<i - 1, g[(i - 1) - 1]>>] /\ g[(i - 1) - 1] \in S
    BY <1>5, <2>1
  <2> HIDE DEF h, e
  <2>4. e[<<i - 1, g[(i - 1) - 1]>>] = f[<<(i - 1) + 1, g[(i - 1) - 1]>>]
    BY <1>2, <2>1, <2>3
  <2> QED
    BY <2>1, <2>2, <2>3, <2>4
<1> HIDE DEF h
<1>8. UpLoop(h, S, n, x, f)
  BY <1>6, <1>7 DEF UpLoop
<1> QED
  BY <1>8

LEMMA DownwardExists ==
  ASSUME NEW S, NEW n \in Nat \ {0}, NEW x \in S, NEW f, Steps(f, S, n)
  PROVE  \E h : DownLoop(h, S, n, x, f)
<1> DEFINE e == [p \in (1..n) \X S |-> f[<<n + 1 - p[1], p[2]>>]]
<1>1. ASSUME NEW i \in 1..n, NEW y \in S PROVE e[<<i, y>>] = f[<<n + 1 - i, y>>]
  OBVIOUS
<1>2. Steps(e, S, n)
  <2>1. \A p \in (1..n) \X S : f[<<n + 1 - p[1], p[2]>>] \in S
    BY DEF Steps
  <2> QED
    BY <2>1 DEF Steps
<1>a. PICK g : UpLoop(g, S, n, x, e)
  <2> HIDE DEF e
  <2> QED
    BY <1>2, UpwardExists
<1>3. g \in [1..n -> S] /\ g[1] = x /\ \A i \in 2..n : g[i] = e[<<i, g[i - 1]>>]
  BY <1>a DEF UpLoop
<1> DEFINE h == [i \in 1..n |-> g[n + 1 - i]]
<1>4. h \in [1..n -> S] /\ h[n] = x
  <2>1. n + 1 - n = 1 /\ n \in 1..n /\ \A i \in 1..n : n + 1 - i \in 1..n
    OBVIOUS
  <2> QED
    BY <1>3, <2>1
<1>5. ASSUME NEW i \in 1 .. n-1 PROVE h[i] = f[<<i, h[i + 1]>>]
  <2>1. PICK j \in 2..n : j = n + 1 - i
    OBVIOUS
  <2>2. /\ i \in 1..n /\ i + 1 \in 1..n /\ n + 1 - (i + 1) = j - 1 /\ n + 1 - j = i
        /\ j \in 1..n /\ j - 1 \in 1..n
    BY <2>1
  <2>3. h[i] = g[j] /\ h[i + 1] = g[j - 1] /\ g[j - 1] \in S
    BY <1>3, <2>1, <2>2
  <2>4. g[j] = e[<<j, g[j - 1]>>]
    BY <1>3
  <2> HIDE DEF h, e
  <2>5. e[<<j, g[j - 1]>>] = f[<<n + 1 - j, g[j - 1]>>]
    BY <1>1, <2>2, <2>3
  <2> QED
    BY <2>2, <2>3, <2>4, <2>5
<1> HIDE DEF h
<1>6. DownLoop(h, S, n, x, f)
  BY <1>4, <1>5 DEF DownLoop
<1> QED
  BY <1>6

\* The elements a table of Z's is made of and multiplied up to.
Units == {a \in Fes : Fine(a, 2) /\ a.v # 0}
Inverts(a, b) == Cong(a.v * b.v, 1, P)

LEMMA UnitMul ==
  ASSUME NEW a \in Units, NEW b \in Units
  PROVE  /\ fe_mul(a, b) \in Units /\ Fine(fe_mul(a, b), 1)
         /\ a.v \in Int /\ b.v \in Int /\ a.v * b.v \in Int
         /\ fe_mul(a, b).v \in Int /\ Cong(fe_mul(a, b).v, a.v * b.v, P)
<1>1. /\ Fine(a, 2) /\ Fine(b, 2) /\ a.v \in 0 .. P-1 /\ b.v \in 0 .. P-1 /\ a.v # 0 /\ b.v # 0
      /\ 2 \in 0 .. 8 /\ 1 \in Nat /\ 2 \in Nat
  BY DEF Units, Fes
<1>2. /\ P \in Nat \ {0} /\ Prime(P) /\ a.v \in Int /\ b.v \in Int /\ a.v * b.v \in Int /\ 0 \in Int
  BY <1>1, FieldFacts
<1>3. PICK c : c = fe_mul(a, b)
  OBVIOUS
<1>4. Fine(c, 1) /\ Fine(c, 2) /\ c \in Fes
  <2>1. Fine(c, 1)
    BY <1>1, <1>3, FineMul
  <2> QED
    <3>1. Fine(c, 2)
      BY <1>1, <2>1, FineUp
    <3> QED
      BY <2>1, <3>1 DEF Fine
<1>5. c.v = (a.v * b.v) % P
  BY <1>3 DEF fe_mul, Elem
<1>6. c.v \in 0 .. P-1 /\ c.v \in Int /\ Cong(c.v, a.v * b.v, P)
  <2>1. PICK d \in Int : d = a.v * b.v
    BY <1>2
  <2>2. (d % P) \in 0 .. P-1 /\ (d % P) \in Int /\ Cong((d % P), d, P)
    BY <1>2, CongMod
  <2> QED
    BY <1>5, <2>1, <2>2
<1>7. c.v # 0
  <2>1. ~Cong(a.v, 0, P) /\ ~Cong(b.v, 0, P)
    BY <1>1, ResidueZero
  <2>2. ~Cong(a.v * b.v, 0, P)
    BY <1>2, <2>1, PrimeProduct
  <2>3. Cong(c.v, 0, P) => Cong(a.v * b.v, 0, P)
    BY <1>2, <1>6, CongEquivalence
  <2> QED
    BY <1>6, <2>2, <2>3, ResidueZero
<1> QED
  BY <1>2, <1>3, <1>4, <1>6, <1>7 DEF Units

LEMMA UnitInv ==
  ASSUME NEW a \in Units
  PROVE  fe_inv(a) \in Units /\ Fine(fe_inv(a), 1) /\ Inverts(a, fe_inv(a))
<1>1. Fine(a, 2) /\ a \in Fes /\ a.v \in 0 .. P-1 /\ a.v # 0 /\ 1 \in Nat /\ 2 \in Nat /\ 8 \in Nat
  BY DEF Units, Fes
<1>2. P \in Nat \ {0} /\ Prime(P) /\ a.v \in Int /\ a.v % P = a.v /\ ~Cong(a.v, 0, P)
  <2>1. P \in Nat \ {0} /\ Prime(P) /\ a.v \in Int
    BY <1>1, FieldFacts
  <2> QED
    BY <1>1, <2>1, ResidueZero
<1>3. PICK c : c = fe_inv(a)
  OBVIOUS
<1>4. Fine(c, 1) /\ Fine(c, 2) /\ c \in Fes
  <2>1. Fine(a, 8)
    BY <1>1, FineUp
  <2>2. Fine(c, 1)
    BY <1>3, <2>1, FineInv
  <2> QED
    <3>1. Fine(c, 2)
      BY <1>1, <2>2, FineUp
    <3> QED
      BY <2>2, <3>1 DEF Fine
<1>5. c.v = Inverse0[a.v]
  BY <1>3 DEF fe_inv, Elem
<1>6. c.v \in 1 .. P-1 /\ Cong(a.v * c.v, 1, P)
  BY <1>2, <1>5, InverseOf
<1> QED
  BY <1>2, <1>3, <1>4, <1>6 DEF Units, Inverts

\* A chain of products and inverses cancels.
LEMMA CancelsOn ==
  ASSUME NEW p \in Int, NEW q \in Int, NEW s \in Int, NEW u \in Int, NEW v \in Int,
         Cong(q, p * s, P), Cong(v, u * s, P), Cong(q * u, 1, P)
  PROVE  Cong(p * v, 1, P)
<1>1. P \in Nat \ {0} /\ 1 \in Int
  BY FieldFacts
<1>2. Cong(p, p, P) /\ Cong(u, u, P) /\ Cong(p * s, q, P)
  <2>1. p * s \in Int
    OBVIOUS
  <2> QED
    BY <1>1, <2>1, CongEquivalence
<1>3. Cong(p * v, p * (u * s), P)
  <2>1. u * s \in Int
    OBVIOUS
  <2> QED
    BY <1>1, <1>2, <2>1, CongArithmetic
<1>4. Cong((p * s) * u, q * u, P)
  <2>1. p * s \in Int
    OBVIOUS
  <2> QED
    BY <1>1, <1>2, <2>1, CongArithmetic
<1>5. PICK x \in Int, y \in Int, z \in Int : x = p * v /\ y = p * (u * s) /\ z = q * u
  OBVIOUS
<1>6. y = (p * s) * u
  BY <1>5
<1> QED
  BY <1>1, <1>3, <1>4, <1>5, <1>6, CongEquivalence

LEMMA CancelsAt ==
  ASSUME NEW p \in Int, NEW q \in Int, NEW s \in Int, NEW u \in Int, NEW v \in Int,
         Cong(q, p * s, P), Cong(v, p * u, P), Cong(q * u, 1, P)
  PROVE  Cong(s * v, 1, P)
<1>1. P \in Nat \ {0} /\ 1 \in Int /\ s \in Int
  BY FieldFacts
<1>2. p * s = s * p /\ p * u = u * p
  OBVIOUS
<1> QED
  BY <1>2, CancelsOn

LEMMA InvAllInverts ==
  ASSUME NEW n \in Nat \ {0}, NEW s \in [1..n -> Units], Len(s) = n, NEW j \in 1..n
  PROVE  Fine(fe_inv_all_var(s)[j], 1) /\ Inverts(s[j], fe_inv_all_var(s)[j])
<1> DEFINE prod == CHOOSE h : h = [i \in 1 .. n |->
                                    IF i = 1 THEN s[1] ELSE fe_mul(h[i-1], s[i])]
           u == CHOOSE h : h = [i \in 1 .. n |->
                                 IF i = n THEN fe_inv(prod[n]) ELSE fe_mul(h[i+1], s[i+1])]
<1>1. fe_inv_all_var(s) = [i \in 1 .. n |-> IF i = 1 THEN u[1] ELSE fe_mul(prod[i-1], u[i])]
  BY DEF fe_inv_all_var
<1>2. prod = [i \in 1 .. n |-> IF i = 1 THEN s[1] ELSE fe_mul(prod[i-1], s[i])]
  <2> DEFINE f == [p \in (1..n) \X Units |-> fe_mul(p[2], s[p[1]])]
  <2>1. Steps(f, Units, n)
    <3>1. \A p \in (1..n) \X Units : fe_mul(p[2], s[p[1]]) \in Units
      BY UnitMul
    <3> QED
      BY <3>1 DEF Steps
  <2>a. PICK h : UpLoop(h, Units, n, s[1], f)
    <3>1. s[1] \in Units
      OBVIOUS
    <3> HIDE DEF f
    <3> QED
      BY <2>1, <3>1, UpwardExists
  <2>2. h \in [1..n -> Units] /\ h[1] = s[1] /\ \A i \in 2..n : h[i] = f[<<i, h[i - 1]>>]
    BY <2>a DEF UpLoop
  <2>3. \A i \in 1..n : h[i] = IF i = 1 THEN s[1] ELSE fe_mul(h[i-1], s[i])
    <3> SUFFICES ASSUME NEW i \in 1..n, i # 1 PROVE h[i] = fe_mul(h[i-1], s[i])
      BY <2>2
    <3>1. i \in 2..n /\ <<i, h[i - 1]>> \in (1..n) \X Units
      BY <2>2
    <3> QED
      BY <2>2, <3>1
  <2>4. h = [i \in 1 .. n |-> IF i = 1 THEN s[1] ELSE fe_mul(h[i-1], s[i])]
    BY <2>2, <2>3
  <2> QED
    BY <2>4
<1> HIDE DEF prod
<1>3. /\ prod[1] = s[1]
      /\ \A i \in 2..n : prod[i] = fe_mul(prod[i-1], s[i])
  BY <1>2
<1>4. \A i \in 1..n : prod[i] \in Units
  <2> DEFINE I == {i \in 1..n : prod[i] \in Units}
  <2>1. 1 \in I
    BY <1>3
  <2>2. ASSUME NEW i \in 2..n, i - 1 \in I PROVE i \in I
    BY <1>3, <2>2, UnitMul
  <2>3. \A i \in 1..n : i \in I
    <3> HIDE DEF I
    <3> QED
      BY <2>1, <2>2, Upward
  <2> QED
    BY <2>3
<1>5. u = [i \in 1 .. n |-> IF i = n THEN fe_inv(prod[n]) ELSE fe_mul(u[i+1], s[i+1])]
  <2> DEFINE f == [p \in (1..n) \X Units |-> fe_mul(p[2], IF p[1] = n THEN s[1] ELSE s[p[1] + 1])]
  <2>1. Steps(f, Units, n)
    <3>1. \A p \in (1..n) \X Units : fe_mul(p[2], IF p[1] = n THEN s[1] ELSE s[p[1] + 1]) \in Units
      BY UnitMul
    <3> QED
      BY <3>1 DEF Steps
  <2>a. PICK h : DownLoop(h, Units, n, fe_inv(prod[n]), f)
    <3>1. fe_inv(prod[n]) \in Units
      BY <1>4, UnitInv
    <3> HIDE DEF f
    <3> QED
      BY <2>1, <3>1, DownwardExists
  <2>2. /\ h \in [1..n -> Units] /\ h[n] = fe_inv(prod[n])
        /\ \A i \in 1 .. n-1 : h[i] = f[<<i, h[i + 1]>>]
    BY <2>a DEF DownLoop
  <2>3. \A i \in 1..n : h[i] = IF i = n THEN fe_inv(prod[n]) ELSE fe_mul(h[i+1], s[i+1])
    <3> SUFFICES ASSUME NEW i \in 1..n, i # n PROVE h[i] = fe_mul(h[i+1], s[i+1])
      BY <2>2
    <3>1. i \in 1 .. n-1 /\ <<i, h[i + 1]>> \in (1..n) \X Units
      BY <2>2
    <3> QED
      BY <2>2, <3>1
  <2>4. h = [i \in 1 .. n |-> IF i = n THEN fe_inv(prod[n]) ELSE fe_mul(h[i+1], s[i+1])]
    BY <2>2, <2>3
  <2> QED
    BY <2>4
<1> HIDE DEF u
<1>6. /\ u[n] = fe_inv(prod[n])
      /\ \A i \in 1 .. n-1 : u[i] = fe_mul(u[i+1], s[i+1])
  BY <1>5
<1> DEFINE I == {i \in 1..n : u[i] \in Units /\ Fine(u[i], 1) /\ Inverts(prod[i], u[i])}
<1>7. n \in I
  BY <1>4, <1>6, UnitInv
<1>8. ASSUME NEW i \in 1 .. n-1, i + 1 \in I PROVE i \in I
  <2>1. /\ u[i+1] \in Units /\ s[i+1] \in Units /\ prod[i] \in Units /\ prod[i+1] \in Units
        /\ Inverts(prod[i+1], u[i+1])
    BY <1>4, <1>8
  <2>2. u[i] = fe_mul(u[i+1], s[i+1]) /\ prod[i+1] = fe_mul(prod[i], s[i+1])
    BY <1>3, <1>6
  <2>3. /\ u[i] \in Units /\ Fine(u[i], 1) /\ u[i+1].v \in Int /\ s[i+1].v \in Int /\ u[i].v \in Int
        /\ Cong(u[i].v, u[i+1].v * s[i+1].v, P)
    BY <2>1, <2>2, UnitMul
  <2>4. prod[i].v \in Int /\ prod[i+1].v \in Int /\ Cong(prod[i+1].v, prod[i].v * s[i+1].v, P)
    BY <2>1, <2>2, UnitMul
  <2>5. Cong(prod[i].v * u[i].v, 1, P)
    <3>1. PICK a \in Int, b \in Int, c \in Int, d \in Int, e \in Int :
            a = prod[i].v /\ b = prod[i+1].v /\ c = s[i+1].v /\ d = u[i+1].v /\ e = u[i].v
      BY <2>3, <2>4
    <3>2. Cong(b, a * c, P) /\ Cong(e, d * c, P) /\ Cong(b * d, 1, P)
      BY <2>1, <2>3, <2>4, <3>1 DEF Inverts
    <3>3. Cong(a * e, 1, P)
      BY <3>2, CancelsOn
    <3> QED
      BY <3>1, <3>3
  <2> QED
    BY <2>3, <2>5 DEF Inverts
<1>9. \A i \in 1..n : i \in I
  <2> HIDE DEF I
  <2> QED
    BY <1>7, <1>8, Downward
<1>10. u[j] \in Units /\ Fine(u[j], 1) /\ Inverts(prod[j], u[j])
  BY <1>9
<1>11. CASE j = 1
  BY <1>1, <1>3, <1>10, <1>11
<1>12. CASE j # 1
  <2>1. j \in 2..n /\ j - 1 \in 1..n
    BY <1>12
  <2>2. PICK r : r = fe_mul(prod[j-1], u[j])
    OBVIOUS
  <2>3. fe_inv_all_var(s)[j] = r
    BY <1>1, <1>12, <2>2
  <2>4. prod[j-1] \in Units /\ s[j] \in Units /\ prod[j] = fe_mul(prod[j-1], s[j])
    BY <1>3, <1>4, <2>1
  <2>5. /\ Fine(r, 1) /\ prod[j-1].v \in Int /\ u[j].v \in Int /\ r.v \in Int
        /\ Cong(r.v, prod[j-1].v * u[j].v, P)
    BY <1>10, <2>2, <2>4, UnitMul
  <2>6. s[j].v \in Int /\ prod[j].v \in Int /\ Cong(prod[j].v, prod[j-1].v * s[j].v, P)
    BY <2>4, UnitMul
  <2>7. Cong(s[j].v * r.v, 1, P)
    <3>1. PICK a \in Int, b \in Int, c \in Int, d \in Int, e \in Int :
            a = prod[j-1].v /\ b = prod[j].v /\ c = s[j].v /\ d = u[j].v /\ e = r.v
      BY <2>5, <2>6
    <3>2. Cong(b, a * c, P) /\ Cong(e, a * d, P) /\ Cong(b * d, 1, P)
      BY <1>10, <2>5, <2>6, <3>1 DEF Inverts
    <3>3. Cong(c * e, 1, P)
      BY <3>2, CancelsAt
    <3> QED
      BY <3>1, <3>3
  <2> QED
    BY <2>3, <2>5, <2>7 DEF Inverts
<1> QED
  BY <1>11, <1>12

-----------------------------------------------------------------------------
(* A table without infinities becomes affine.                              *)

LEMMA ScaleIsUnit ==
  ASSUME NEW a, GejFine(a), a.infinity = FALSE, NEW q, Stands(a, q)
  PROVE  a.z \in Units
<1>1. Fine(a.z, 2) /\ a.z \in Fes
  BY DEF GejFine
<1>2. PICK z \in Int, p1 \in 0 .. P-1, p2 \in 0 .. P-1 : At(a, z, p1, p2)
  BY DEF Stands
<1>3. Val(a.z, z) /\ ~Cong(z, 0, P)
  BY <1>2 DEF At
<1>4. a.z.v # 0
  BY <1>3, ValZero DEF fe_normalizes_to_zero
<1> QED
  BY <1>1, <1>4 DEF Units

\* Dividing by Z: any inverse of it will do.
LEMMA ByInverse ==
  ASSUME NEW a, GejFine(a), a.infinity = FALSE, NEW l \in Int, Stands(a, Mult(l)),
         NEW zi, Fine(zi, 1), Inverts(a.z, zi)
  PROVE  /\ GeFine(ge_set_gej_zinv(a, zi)) /\ GeStands(ge_set_gej_zinv(a, zi), Mult(l))
         /\ ge_set_gej_zinv(a, zi).infinity = FALSE
<1>1. Fine(a.x, 6) /\ Fine(a.y, 4) /\ a.infinity \in BOOLEAN /\ 1 \in 0 .. 8 /\ a.z \in Fes /\ zi \in Fes
  BY DEF GejFine, Fine
<1>2. GeFine(ge_set_gej_zinv(a, zi))
  BY <1>1, ZinvFine
<1>3. PICK z \in Int, p1 \in 0 .. P-1, p2 \in 0 .. P-1 : Mult(l) = <<p1, p2>> /\ At(a, z, p1, p2)
  BY DEF Stands
<1>4. PICK w \in Int : w = zi.v
  BY <1>1, FieldFacts DEF Fes
<1>5. P \in Nat \ {0} /\ 1 \in Int
  BY FieldFacts
<1>6. Val(zi, w)
  BY <1>1, <1>4, <1>5, CongEquivalence DEF Val, Fes
<1>7. Cong(z * w, 1, P)
  <2>1. PICK c \in Int : c = a.z.v
    BY <1>1, FieldFacts DEF Fes
  <2>2. Cong(c, z, P) /\ Cong(c * w, 1, P)
    BY <1>3, <1>4, <2>1 DEF At, Val, Inverts
  <2>3. Cong(z, c, P) /\ Cong(w, w, P)
    BY <1>5, <2>2, CongEquivalence
  <2>4. Cong(z * w, c * w, P)
    BY <1>5, <2>3, CongArithmetic
  <2>5. PICK x \in Int, y \in Int : x = z * w /\ y = c * w
    OBVIOUS
  <2> QED
    BY <1>5, <2>2, <2>4, <2>5, CongEquivalence
<1>8. GeStands(ge_set_gej_zinv(a, zi), <<p1, p2>>)
  BY <1>3, <1>6, <1>7, ZinvAt
<1>9. ge_set_gej_zinv(a, zi).infinity = FALSE
  BY DEF ge_set_gej_zinv, Ge
<1> QED
  BY <1>2, <1>3, <1>8, <1>9

AllFinite(s, n) ==
  /\ DOMAIN s = 1..n
  /\ \A i \in 1..n : /\ GejFine(s[i]) /\ s[i].infinity = FALSE
                     /\ \E l \in Int : Stands(s[i], Mult(l))

LEMMA AllAffine ==
  ASSUME NEW n \in Nat \ {0}, NEW s, AllFinite(s, n), NEW j \in 1..n, NEW l \in Int, Stands(s[j], Mult(l))
  PROVE  /\ GeFine(ge_set_all_gej_var(s)[j]) /\ GeStands(ge_set_all_gej_var(s)[j], Mult(l))
         /\ ge_set_all_gej_var(s)[j].infinity = FALSE
<1> DEFINE finite   == {i \in DOMAIN s : ~s[i].infinity}
           count(i) == Cardinality({m \in finite : m <= i})
           at(c)    == CHOOSE i \in finite : count(i) = c
           az       == [c \in 1 .. Cardinality(finite) |-> s[at(c)].z]
           azi      == fe_inv_all_var(az)
<1>1. /\ DOMAIN s = 1..n
      /\ \A i \in 1..n : /\ GejFine(s[i]) /\ s[i].infinity = FALSE
                         /\ \E k1 \in Int : Stands(s[i], Mult(k1))
  BY DEF AllFinite
<1>2. ge_set_all_gej_var(s)[j] = ge_set_gej_zinv(s[j], azi[count(j)])
  BY <1>1 DEF ge_set_all_gej_var
<1>3. finite = 1..n
  BY <1>1
<1>4. \A i \in 1..n : count(i) = i
  <2> SUFFICES ASSUME NEW i \in 1..n PROVE count(i) = i
    OBVIOUS
  <2>1. {m \in finite : m <= i} = 1..i
    BY <1>3
  <2>2. Cardinality(1..i) = i
    <3>1. 1 \in Int /\ i \in Int /\ i - 1 + 1 = i /\ ~(1 > i)
      OBVIOUS
    <3> QED
      BY <3>1, FS_Interval
  <2> QED
    BY <2>1, <2>2
<1>5. Cardinality(finite) = n
  <2>1. 1 \in Int /\ n \in Int /\ n - 1 + 1 = n /\ ~(1 > n)
    OBVIOUS
  <2> QED
    BY <1>3, <2>1, FS_Interval
<1> HIDE DEF count, finite
<1>6. \A c \in 1..n : at(c) = c
  BY <1>3, <1>4
<1> HIDE DEF at
<1>7. az = [c \in 1..n |-> s[c].z]
  <2>1. az = [c \in 1..n |-> s[at(c)].z]
    BY <1>5
  <2> QED
    BY <1>6, <2>1
<1> HIDE DEF az
<1>8. az \in [1..n -> Units]
  BY <1>1, <1>7, ScaleIsUnit
<1>9. Len(az) = n
  <2>1. az \in Seq(Units)
    BY <1>8
  <2>2. PICK m \in Nat : m = Len(az) /\ DOMAIN az = 1..m
    BY <2>1
  <2>3. 1..m = 1..n
    BY <1>8, <2>2
  <2>4. n \in 1..m
    BY <2>3
  <2>5. m \in 1..n
    BY <2>3, <2>4
  <2> QED
    BY <2>2, <2>4, <2>5
<1>10. Fine(azi[j], 1) /\ Inverts(az[j], azi[j])
  BY <1>8, <1>9, InvAllInverts
<1> HIDE DEF azi
<1>11. az[j] = s[j].z /\ count(j) = j
  BY <1>4, <1>7
<1>12. GejFine(s[j]) /\ s[j].infinity = FALSE
  BY <1>1
<1>13. PICK a, zi : a = s[j] /\ zi = azi[j]
  OBVIOUS
<1>14. /\ GeFine(ge_set_gej_zinv(a, zi)) /\ GeStands(ge_set_gej_zinv(a, zi), Mult(l))
       /\ ge_set_gej_zinv(a, zi).infinity = FALSE
  BY <1>10, <1>11, <1>12, <1>13, ByInverse
<1> QED
  BY <1>2, <1>11, <1>13, <1>14

\* Storage keeps a point.
LEMMA StorageKeeps ==
  ASSUME NEW a, GeFine(a), a.infinity = FALSE, NEW q, GeStands(a, q)
  PROVE  /\ GeFine(ge_from_storage(ge_to_storage(a)))
         /\ GeStands(ge_from_storage(ge_to_storage(a)), q)
         /\ ge_from_storage(ge_to_storage(a)).infinity = FALSE
<1>1. a.x \in Fes /\ a.y \in Fes /\ a.x.ok = TRUE /\ a.y.ok = TRUE
  BY DEF GeFine, Fine
<1> DEFINE b == ge_to_storage(a)
           r == ge_from_storage(b)
<1>2. /\ b.x.v = a.x.v /\ b.y.v = a.y.v /\ b.x.ok = TRUE /\ b.y.ok = TRUE
  BY <1>1 DEF ge_to_storage, fe_to_storage, fe_normalize, Check, Elem, Ge
<1> HIDE DEF b
<1>3. /\ r = [x |-> Elem(a.x.v, 1, TRUE, TRUE), y |-> Elem(a.y.v, 1, TRUE, TRUE), infinity |-> FALSE]
  BY <1>2 DEF ge_from_storage, fe_from_storage, Ge, Elem
<1> HIDE DEF r
<1>4. r.x.v = a.x.v /\ r.y.v = a.y.v /\ r.infinity = FALSE
  BY <1>3 DEF Elem
<1>5. GeFine(r)
  <2>1. Elem(a.x.v, 1, TRUE, TRUE) \in Fes /\ Elem(a.y.v, 1, TRUE, TRUE) \in Fes
    BY <1>1 DEF Elem, Fes
  <2> QED
    BY <1>3, <2>1 DEF GeFine, Fine, Elem
<1>6. GeStands(r, q)
  BY <1>4 DEF GeStands
<1> QED
  BY <1>4, <1>5, <1>6 DEF r, b

\* Every entry of the comb is the multiple of G it should be.
LEMMA PrecStands ==
  ASSUME NEW j \in 0 .. GenRows-1, NEW i \in 0 .. 2^GenBits - 1
  PROVE  /\ GeFine(ge_from_storage(Prec[j][i])) /\ ge_from_storage(Prec[j][i]).infinity = FALSE
         /\ EntryLog(j, i) \in Int /\ GeStands(ge_from_storage(Prec[j][i]), Mult(EntryLog(j, i)))
<1>1. PICK n \in Nat \ {0} : n = GenRows * 2^GenBits
  <2>1. PICK w \in Nat \ {0} : w = 2^GenBits
    BY CombSizes
  <2>2. GenRows \in Nat \ {0}
    BY CombSizes
  <2>3. GenRows * w \in Nat /\ GenRows * w >= w
    BY <2>2, MultipleFar
  <2> QED
    BY <2>1, <2>3
<1>2. AllFinite(PrecJ, n)
  <2>1. DOMAIN PrecJ = 1..n
    BY <1>1 DEF PrecJ
  <2>2. ASSUME NEW m \in 1..n
        PROVE  /\ GejFine(PrecJ[m]) /\ PrecJ[m].infinity = FALSE
               /\ \E l \in Int : Stands(PrecJ[m], Mult(l))
    <3>1. PICK r \in 0 .. GenRows-1, c \in 0 .. 2^GenBits - 1 : m = Index(r, c)
      BY <1>1, Indices
    <3> QED
      BY <3>1, PrecJStands
  <2> QED
    BY <2>1, <2>2 DEF AllFinite
<1>3. Index(j, i) \in 1..n /\ EntryLog(j, i) \in Int /\ Stands(PrecJ[Index(j, i)], Mult(EntryLog(j, i)))
  BY <1>1, Indices, PrecJStands
<1>4. PICK m \in 1..n, l \in Int : m = Index(j, i) /\ l = EntryLog(j, i)
  BY <1>3
<1>5. PICK a : a = ge_set_all_gej_var(PrecJ)[m]
  OBVIOUS
<1>6. GeFine(a) /\ GeStands(a, Mult(l)) /\ a.infinity = FALSE
  BY <1>2, <1>3, <1>4, <1>5, AllAffine
<1>7. Prec[j][i] = ge_to_storage(a)
  BY <1>4, <1>5 DEF Prec, Index
<1> QED
  BY <1>4, <1>6, <1>7, StorageKeeps

-----------------------------------------------------------------------------
(* The comb adds up to the scalar.                                         *)

\* The next digit of a number.
LEMMA DigitUp ==
  ASSUME NEW a \in Nat, NEW b \in Nat \ {0}, NEW c \in Nat \ {0}
  PROVE  /\ (a % (b * c)) = (a % b) + ((a \div b) % c) * b
         /\ ((a \div b) % c) \in 0 .. c-1
<1>1. (a % b) \in 0 .. b-1 /\ (a \div b) \in Int /\ a = (a \div b) * b + (a % b)
  OBVIOUS
<1>2. PICK q \in Int, r \in 0 .. b-1 : q = a \div b /\ r = (a % b) /\ a = q * b + r
  BY <1>1
<1>3. q \in Nat
  <2>1. CASE q <= -1
    <3>1. q * b <= -b
      BY <2>1, MultipleFar
    <3>2. PICK t \in Int : t = q * b
      OBVIOUS
    <3> QED
      BY <1>2, <3>1, <3>2
  <2> QED
    BY <2>1
<1>4. (q % c) \in 0 .. c-1 /\ (q \div c) \in Nat /\ q = (q \div c) * c + (q % c)
  BY <1>3
<1>5. PICK p \in Nat, d \in 0 .. c-1 : d = (q % c) /\ q = p * c + d
  BY <1>4
<1>6. PICK w \in Nat \ {0}, x \in Nat : w = b * c /\ x = d * b
  <2>1. b * c >= b /\ b * c \in Nat
    <3>1. c \in Int /\ c >= 1
      OBVIOUS
    <3>2. c * b >= b
      BY <3>1, MultipleFar
    <3> QED
      BY <3>2
  <2>2. d * b \in Nat
    OBVIOUS
  <2> QED
    BY <2>1, <2>2
<1>7. x + r \in 0 .. w-1
  <2>1. (c - d) * b >= b
    <3>1. c - d \in Int /\ c - d >= 1
      OBVIOUS
    <3> QED
      BY <3>1, MultipleFar
  <2>2. (c - d) * b = c * b - d * b /\ c * b = b * c
    OBVIOUS
  <2>3. w - x >= b
    <3>1. PICK y \in Int : y = (c - d) * b
      OBVIOUS
    <3>2. y = w - x
      BY <1>6, <2>2, <3>1
    <3> QED
      BY <2>1, <3>1, <3>2
  <2> QED
    BY <2>3
<1>8. a = p * w + (x + r)
  <2>1. q * b = (p * c) * b + d * b /\ (p * c) * b = p * (b * c)
    <3>1. (p * c + d) * b = (p * c) * b + d * b
      OBVIOUS
    <3>2. (p * c) * b = p * (b * c)
      OBVIOUS
    <3> QED
      BY <1>5, <3>1, <3>2
  <2>2. PICK y \in Int : y = p * w
    OBVIOUS
  <2>3. q * b = y + x
    BY <1>6, <2>1, <2>2
  <2> QED
    BY <1>2, <2>2, <2>3
<1>9. (a % w) = x + r
  <2>1. PICK i \in 0 .. w-1 : i = x + r
    BY <1>7
  <2>2. (p * w + i) % w = i
    BY RowAndColumn
  <2> QED
    BY <1>8, <2>1, <2>2
<1>10. ((a \div b) % c) = d /\ (a % b) = r
  BY <1>2, <1>5
<1> QED
  BY <1>6, <1>9, <1>10

\* What is left of the rows' offsets after the first j rows.
OffsetSum(j) == IF j < GenRows THEN Two(j) - 1 ELSE 0

LEMMA OffsetsAddUp ==
  ASSUME NEW j \in 0 .. GenRows-1
  PROVE  /\ Offset(j) \in Int /\ OffsetSum(j) \in Int /\ OffsetSum(0) = 0 /\ OffsetSum(GenRows) = 0
         /\ OffsetSum(j + 1) = OffsetSum(j) + Offset(j)
<1>1. j \in Nat /\ GenRows \in Nat \ {0}
  BY CombSizes
<1>2. PICK t \in Nat : t = Two(j) /\ Two(j + 1) = 2 * t
  BY <1>1, TwoLaws
<1>3. OffsetSum(0) = 0 /\ OffsetSum(GenRows) = 0
  BY <1>1, TwoLaws DEF OffsetSum
<1>4. OffsetSum(j) = t - 1
  BY <1>1, <1>2 DEF OffsetSum
<1>5. CASE j < GenRows - 1
  <2>1. Offset(j) = t /\ OffsetSum(j + 1) = 2 * t - 1
    BY <1>1, <1>2, <1>5 DEF Offset, OffsetSum
  <2> QED
    BY <1>3, <1>4, <2>1
<1>6. CASE ~(j < GenRows - 1)
  <2>1. Offset(j) = 1 - t /\ OffsetSum(j + 1) = 0
    BY <1>1, <1>2, <1>6 DEF Offset, OffsetSum
  <2> QED
    BY <1>3, <1>4, <2>1
<1> QED
  BY <1>5, <1>6

\* The multiple of G that the first j rows add for the number g.
CombSum(g, j) == OffsetSum(j) * NumsLog + (g % Two(GenBits * j))

LEMMA CombSumNext ==
  ASSUME NEW g \in Nat, NEW j \in 0 .. GenRows-1
  PROVE  /\ Bits(g, j * GenBits, GenBits) \in 0 .. 2^GenBits - 1
         /\ CombSum(g, j) \in Int
         /\ CombSum(g, j + 1) = CombSum(g, j) + EntryLog(j, Bits(g, j * GenBits, GenBits))
<1>1. j \in Nat /\ GenBits \in Nat /\ GenBits * j \in Nat /\ j * GenBits = GenBits * j
      /\ GenBits * (j + 1) = GenBits * j + GenBits /\ NumsLog \in Int
  BY CombSizes, NumsLogIs
<1>2. PICK b \in Nat \ {0}, c \in Nat \ {0} : b = Two(GenBits * j) /\ c = Two(GenBits)
  BY <1>1, TwoLaws
<1>3. Two(GenBits * (j + 1)) = b * c
  BY <1>1, <1>2, TwoSum
<1>4. 2^(j * GenBits) = b /\ 2^GenBits = c
  BY <1>1, <1>2 DEF Two
<1>5. PICK d \in 0 .. c-1 : d = ((g \div b) % c)
  BY DigitUp
<1>6. Bits(g, j * GenBits, GenBits) = d
  BY <1>4, <1>5 DEF Bits
<1>7. PICK r \in Int : r = (g % b)
  OBVIOUS
<1>8. (g % (b * c)) = r + d * b
  BY <1>5, <1>7, DigitUp
<1>9. PICK o \in Int, s \in Int : o = Offset(j) /\ s = OffsetSum(j)
  BY OffsetsAddUp
<1>10. OffsetSum(j + 1) = s + o
  BY <1>9, OffsetsAddUp
<1>11. CombSum(g, j) = s * NumsLog + r
  BY <1>2, <1>7, <1>9 DEF CombSum
<1>12. EntryLog(j, d) = o * NumsLog + d * b
  BY <1>2, <1>9 DEF EntryLog
<1>13. CombSum(g, j + 1) = (s + o) * NumsLog + (r + d * b)
  BY <1>3, <1>8, <1>10 DEF CombSum
<1>14. PICK x \in Int, y \in Int, z \in Int : x = s * NumsLog /\ y = o * NumsLog /\ z = d * b
  BY <1>1
<1>15. (s + o) * NumsLog = x + y
  BY <1>1, <1>14
<1> QED
  BY <1>4, <1>6, <1>11, <1>12, <1>13, <1>14, <1>15

LEMMA CombSumEnds ==
  ASSUME NEW g \in 0 .. Order-1
  PROVE  CombSum(g, 0) = 0 /\ CombSum(g, GenRows) = g
<1>1. /\ GenRows \in Nat \ {0} /\ GenBits \in Nat \ {0} /\ NumsLog \in Int /\ Order \in Nat \ {0}
      /\ ScalarBits \in Nat /\ GenBits * 0 = 0 /\ GenBits * GenRows = GenRows * GenBits
      /\ GenRows * GenBits \in Nat /\ 0 \in 0 .. GenRows-1
  BY CombSizes, NumsLogIs, OrderFacts
<1>2. OffsetSum(0) * NumsLog = 0 /\ OffsetSum(GenRows) * NumsLog = 0
  <2>1. OffsetSum(0) = 0 /\ OffsetSum(GenRows) = 0
    BY <1>1, OffsetsAddUp
  <2> QED
    BY <1>1, <2>1
<1>3. CombSum(g, 0) = 0
  <2>1. g % 1 = 0
    BY <1>1
  <2> QED
    BY <1>1, <1>2, <2>1, TwoLaws DEF CombSum
<1>4. PICK w \in Nat \ {0} : w = Two(GenBits * GenRows) /\ g < w
  <2>1. Two(ScalarBits) <= Two(GenRows * GenBits)
    BY <1>1, CombSizes, TwoGrows
  <2>2. Order < Two(ScalarBits) /\ Two(ScalarBits) \in Nat /\ Two(GenRows * GenBits) \in Nat \ {0}
    BY <1>1, CombSizes, TwoLaws
  <2> QED
    BY <1>1, <2>1, <2>2
<1>5. (g % w) = g
  BY <1>1, <1>4
<1>6. CombSum(g, GenRows) = 0 + (g % w)
  BY <1>2, <1>4 DEF CombSum
<1> QED
  BY <1>1, <1>3, <1>5, <1>6

\* The blinding pair cancels.
Cancels(ctx) ==
  ctx.blind \in Int /\ GejFine(ctx.initial) /\ Stands(ctx.initial, Mult(-ctx.blind))

LEMMA GenStands ==
  ASSUME NEW ctx, Cancels(ctx), NEW gn \in Int
  PROVE  GejFine(ecmult_gen(ctx, gn)) /\ Stands(ecmult_gen(ctx, gn), Mult(gn))
<1>1. PICK l \in Int : l = -ctx.blind /\ ctx.blind = -l /\ gn + ctx.blind \in Int
  BY DEF Cancels
<1>2. GejFine(ctx.initial) /\ Stands(ctx.initial, Mult(l)) /\ Order \in Nat \ {0} /\ GenRows \in Nat \ {0}
  BY <1>1, OrderFacts, CombSizes DEF Cancels
<1>3. PICK g \in 0 .. Order-1 : g = (gn + ctx.blind) % Order /\ Cong(g, gn + ctx.blind, Order)
  <2>1. PICK x \in Int : x = gn + ctx.blind
    BY <1>1
  <2>2. (x % Order) \in 0 .. Order-1 /\ Cong((x % Order), x, Order)
    BY <1>2, CongMod
  <2> QED
    BY <2>1, <2>2
<1> DEFINE r == CHOOSE h : h = [j \in 0 .. GenRows |->
                  IF j = 0 THEN ctx.initial ELSE GenStep(h[j-1], (gn + ctx.blind) % Order, j - 1)]
           f == [p \in (1..GenRows) \X Gejs |-> GenStep(p[2], g, p[1] - 1)]
<1>4. ASSUME NEW j \in 0 .. GenRows-1, NEW a, GejFine(a), NEW k1 \in Int
      PROVE  /\ GejFine(GenStep(a, g, j))
             /\ Stands(a, Mult(k1)) =>
                  Stands(GenStep(a, g, j), Mult(k1 + EntryLog(j, Bits(g, j * GenBits, GenBits))))
  <2>1. g \in Nat
    BY <1>2
  <2>2. PICK i \in 0 .. 2^GenBits - 1 : i = Bits(g, j * GenBits, GenBits)
    BY <2>1, CombSumNext
  <2>a. PICK b : b = ge_from_storage(Prec[j][i])
    OBVIOUS
  <2>3. PICK e \in Int : b = ge_from_storage(Prec[j][i]) /\ e = EntryLog(j, i)
    BY <2>a, PrecStands
  <2>4. GeFine(b) /\ b.infinity = FALSE /\ GeStands(b, Mult(e))
    BY <2>3, PrecStands
  <2>5. GenStep(a, g, j) = gej_add_ge(a, b)
    BY <2>2, <2>3 DEF GenStep
  <2>6. GejFine(gej_add_ge(a, b))
    BY <1>4, <2>4, AddGeFine
  <2>7. ASSUME Stands(a, Mult(k1)) PROVE Stands(gej_add_ge(a, b), Mult(k1 + e))
    BY <1>4, <2>4, <2>7, AddGeStands
  <2> QED
    BY <2>2, <2>3, <2>5, <2>6, <2>7
<1>5. Steps(f, Gejs, GenRows)
  <2>1. ASSUME NEW p \in (1..GenRows) \X Gejs PROVE GenStep(p[2], g, p[1] - 1) \in Gejs
    <3>1. PICK i \in 1..GenRows, a \in Gejs : p = <<i, a>>
      OBVIOUS
    <3>2. i - 1 \in 0 .. GenRows-1 /\ GejFine(a) /\ 0 \in Int
      BY <1>2, GejsAre
    <3>3. GejFine(GenStep(a, g, i - 1))
      BY <1>4, <3>2
    <3> QED
      BY <3>1, <3>3, GejsAre
  <2> QED
    BY <2>1 DEF Steps
<1>6. PICK h : LoopOf(h, Gejs, GenRows, ctx.initial, f)
  <2>1. ctx.initial \in Gejs /\ GenRows \in Nat
    BY <1>2, GejsAre
  <2> HIDE DEF f
  <2> QED
    BY <1>5, <2>1, LoopExists
<1>7. h \in [0..GenRows -> Gejs] /\ h[0] = ctx.initial /\ \A j \in 1..GenRows : h[j] = f[<<j, h[j - 1]>>]
  BY <1>6 DEF LoopOf
<1>8. \A j \in 0..GenRows : h[j] = IF j = 0 THEN ctx.initial ELSE GenStep(h[j-1], g, j - 1)
  <2> SUFFICES ASSUME NEW j \in 0..GenRows, j # 0 PROVE h[j] = GenStep(h[j-1], g, j - 1)
    BY <1>7
  <2>1. j \in 1..GenRows /\ <<j, h[j - 1]>> \in (1..GenRows) \X Gejs
    BY <1>2, <1>7
  <2> QED
    BY <1>7, <2>1
<1>9. h = [j \in 0 .. GenRows |-> IF j = 0 THEN ctx.initial ELSE GenStep(h[j-1], (gn + ctx.blind) % Order, j - 1)]
  BY <1>3, <1>7, <1>8
<1>10. r = [j \in 0 .. GenRows |-> IF j = 0 THEN ctx.initial ELSE GenStep(r[j-1], (gn + ctx.blind) % Order, j - 1)]
  BY <1>9
<1>11. ecmult_gen(ctx, gn) = r[GenRows]
  BY DEF ecmult_gen
<1> HIDE DEF r
<1>12. \A j \in 0 .. GenRows : r[j] = IF j = 0 THEN ctx.initial ELSE GenStep(r[j-1], g, j - 1)
  BY <1>3, <1>10
<1> DEFINE T == {j \in Nat : j <= GenRows => GejFine(r[j]) /\ CombSum(g, j) \in Int /\ Stands(r[j], Mult(l + CombSum(g, j)))}
<1>13. 0 \in T
  <2>1. r[0] = ctx.initial
    BY <1>2, <1>12
  <2>2. CombSum(g, 0) = 0 /\ l + 0 = l /\ CombSum(g, 0) \in Int
    BY CombSumEnds
  <2> QED
    BY <1>2, <2>1, <2>2
<1>14. ASSUME NEW j \in Nat, j \in T PROVE j + 1 \in T
  <2> SUFFICES ASSUME j + 1 <= GenRows
               PROVE  /\ GejFine(r[j + 1]) /\ CombSum(g, j + 1) \in Int
                      /\ Stands(r[j + 1], Mult(l + CombSum(g, j + 1)))
    OBVIOUS
  <2>1. j \in 0 .. GenRows-1 /\ j + 1 \in 0 .. GenRows /\ j + 1 # 0 /\ (j + 1) - 1 = j /\ j <= GenRows
    BY <1>2
  <2>2. r[j + 1] = GenStep(r[j], g, j)
    BY <1>12, <2>1
  <2>3. PICK c \in Int : c = CombSum(g, j)
    BY <1>14, <2>1
  <2>4. GejFine(r[j]) /\ Stands(r[j], Mult(l + c))
    BY <1>14, <2>1, <2>3
  <2>5. g \in Nat
    BY <1>2
  <2>6. Bits(g, j * GenBits, GenBits) \in 0 .. 2^GenBits - 1
    BY <2>1, <2>5, CombSumNext
  <2>7. PICK e \in Int : e = EntryLog(j, Bits(g, j * GenBits, GenBits))
    BY <2>1, <2>6, PrecStands
  <2>8. CombSum(g, j + 1) = c + e /\ c + e \in Int
    BY <2>1, <2>3, <2>5, <2>7, CombSumNext
  <2>9. l + c \in Int /\ (l + c) + e = l + (c + e)
    OBVIOUS
  <2>10. GejFine(GenStep(r[j], g, j)) /\ Stands(GenStep(r[j], g, j), Mult((l + c) + e))
    BY <1>4, <2>1, <2>4, <2>7, <2>9
  <2> QED
    BY <2>2, <2>8, <2>9, <2>10
<1>15. Nat \subseteq T
  <2> HIDE DEF T
  <2> QED
    BY <1>13, <1>14, NatInductive
<1>16. GejFine(r[GenRows]) /\ Stands(r[GenRows], Mult(l + g))
  <2>1. GenRows \in T /\ CombSum(g, GenRows) = g
    BY <1>2, <1>15, CombSumEnds
  <2> QED
    BY <1>2, <2>1
<1>17. Mult(l + g) = Mult(gn)
  <2>1. PICK q \in Int : g - (gn + ctx.blind) = q * Order
    BY <1>3 DEF Cong
  <2>2. g \in Int /\ (l + g) - gn = g - (gn + ctx.blind) /\ l + g \in Int
    BY <1>1, <1>2
  <2>3. Cong(l + g, gn, Order)
    BY <2>1, <2>2 DEF Cong
  <2> QED
    BY <2>2, <2>3, MultCong
<1> QED
  BY <1>11, <1>16, <1>17

-----------------------------------------------------------------------------
(* The context through any sequence of buildings, blindings and clearings. *)

\* A new pair cancels when the old one did: the old pair computes the new.
LEMMA ReblindedCancels ==
  ASSUME NEW ctx \in [prec : BOOLEAN, blind : Int, initial : Gejs], Cancels(ctx),
         NEW z \in 1 .. P-1, NEW b \in 1 .. Order-1
  PROVE  LET r == Reblinded(ctx, fe_set_int(z), b)
         IN  r \in [prec : BOOLEAN, blind : Int, initial : Gejs] /\ Cancels(r) /\ r.prec = ctx.prec
<1>1. ctx.blind \in Int /\ GejFine(ctx.initial) /\ -ctx.blind \in Int /\ Stands(ctx.initial, Mult(-ctx.blind))
  BY DEF Cancels
<1>2. PICK a : a = gej_rescale(ctx.initial, fe_set_int(z))
  OBVIOUS
<1>3. GejFine(a) /\ Stands(a, Mult(-ctx.blind))
  BY <1>1, <1>2, RescaleFine, RescaleStands
<1>4. PICK c : c = [ctx EXCEPT !.initial = a]
  OBVIOUS
<1>5. c.blind = ctx.blind /\ c.initial = a
  BY <1>4
<1>6. Cancels(c)
  BY <1>1, <1>3, <1>5 DEF Cancels
<1>7. b \in Int /\ Order \in Nat \ {0} /\ -b \in Int
  BY OrderFacts
<1>8. PICK i : i = ecmult_gen(c, b)
  OBVIOUS
<1>9. GejFine(i) /\ Stands(i, Mult(b)) /\ i \in Gejs
  BY <1>6, <1>7, <1>8, GenStands, GejsAre
<1>10. PICK m \in Int : m = (-b) % Order /\ Cong(m, -b, Order)
  <2>1. PICK x \in Int : x = -b
    BY <1>7
  <2>2. (x % Order) \in Int /\ Cong((x % Order), x, Order)
    BY <1>7, CongMod
  <2> QED
    BY <2>1, <2>2
<1>11. Mult(-m) = Mult(b)
  <2>1. PICK q \in Int : m - (-b) = q * Order
    BY <1>10 DEF Cong
  <2>2. -m \in Int /\ -q \in Int /\ (-m) - b = (-q) * Order
    BY <1>7, <2>1
  <2>3. Cong(-m, b, Order)
    BY <2>2 DEF Cong
  <2> QED
    BY <1>7, <2>2, <2>3, MultCong
<1>12. Reblinded(ctx, fe_set_int(z), b) = [ctx EXCEPT !.blind = m, !.initial = i]
  BY <1>2, <1>4, <1>8, <1>10 DEF Reblinded
<1>13. PICK r : r = [ctx EXCEPT !.blind = m, !.initial = i]
  OBVIOUS
<1>14. /\ r \in [prec : BOOLEAN, blind : Int, initial : Gejs]
       /\ r.blind = m /\ r.initial = i /\ r.prec = ctx.prec
  BY <1>9, <1>13
<1>15. Cancels(r)
  BY <1>9, <1>11, <1>14 DEF Cancels
<1> QED
  BY <1>12, <1>13, <1>14, <1>15

\* Without a seed the pair starts over from minus G and one.
LEMMA UnseededCancels ==
  ASSUME NEW ctx \in [prec : BOOLEAN, blind : Int, initial : Gejs]
  PROVE  /\ Unseeded(ctx) \in [prec : BOOLEAN, blind : Int, initial : Gejs]
         /\ Cancels(Unseeded(ctx)) /\ Unseeded(ctx).prec = ctx.prec
<1>1. PICK a : a = gej_neg(gej_set_ge(G))
  OBVIOUS
<1>2. GejFine(a) /\ Stands(a, Mult(-1)) /\ a \in Gejs
  <2>1. PICK d : d = gej_set_ge(G)
    OBVIOUS
  <2>2. GejFine(d) /\ Stands(d, Mult(1)) /\ 1 \in Int
    BY <2>1, GStands, SetGeFine, SetGeStands
  <2>3. GejFine(gej_neg(d)) /\ Stands(gej_neg(d), Mult(-1))
    BY <2>2, NegFine, NegStands
  <2> QED
    BY <1>1, <2>1, <2>3, GejsAre
<1>3. PICK r : r = [ctx EXCEPT !.initial = a, !.blind = 1]
  OBVIOUS
<1>4. Unseeded(ctx) = r
  BY <1>1, <1>3 DEF Unseeded
<1>5. /\ r \in [prec : BOOLEAN, blind : Int, initial : Gejs]
      /\ r.blind = 1 /\ r.initial = a /\ r.prec = ctx.prec
  <2>1. r = [prec |-> ctx.prec, blind |-> 1, initial |-> a]
    BY <1>3
  <2>2. ctx.prec \in BOOLEAN
    OBVIOUS
  <2> QED
    BY <1>2, <2>1, <2>2
<1>6. Cancels(r)
  BY <1>2, <1>5 DEF Cancels
<1> QED
  BY <1>4, <1>5, <1>6

\* The inductive invariant: a built context holds a pair that cancels.
ContextSound ==
  /\ gctx \in [prec : BOOLEAN, blind : Int, initial : Gejs]
  /\ gctx.prec => Cancels(gctx)

LEMMA BlindCancels ==
  ASSUME NEW ctx \in [prec : BOOLEAN, blind : Int, initial : Gejs], NEW seeded \in BOOLEAN,
         seeded => Cancels(ctx), NEW z \in Zs, NEW b \in Blinds
  PROVE  LET r == ecmult_gen_blind(ctx, seeded, fe_set_int(z), b)
         IN  r \in [prec : BOOLEAN, blind : Int, initial : Gejs] /\ Cancels(r)
<1>1. z \in 1 .. P-1 /\ b \in 1 .. Order-1
  BY GroupAssumption, EcmultAssumption
<1>2. PICK c : c = IF seeded THEN ctx ELSE Unseeded(ctx)
  OBVIOUS
<1>3. c \in [prec : BOOLEAN, blind : Int, initial : Gejs] /\ Cancels(c)
  <2>1. CASE seeded
    BY <1>2, <2>1
  <2>2. CASE ~seeded
    BY <1>2, <2>2, UnseededCancels
  <2> QED
    BY <2>1, <2>2
<1>4. ecmult_gen_blind(ctx, seeded, fe_set_int(z), b) = Reblinded(c, fe_set_int(z), b)
  BY <1>2 DEF ecmult_gen_blind
<1> QED
  BY <1>1, <1>3, <1>4, ReblindedCancels

LEMMA ClearFine == gej_clear \in Gejs
<1>1. fe_clear = [v |-> 0, m |-> 0, normal |-> TRUE, ok |-> TRUE] /\ 0 \in 0 .. P-1
  BY FieldFacts DEF fe_clear, Elem
<1>2. fe_clear \in Fes /\ fe_clear.ok = TRUE /\ fe_clear.m = 0
  BY <1>1 DEF Fes
<1>3. \A n \in Nat : Fine(fe_clear, n)
  BY <1>2 DEF Fine
<1>4. GejFine(gej_clear)
  BY <1>2, <1>3 DEF gej_clear, Gej, GejFine
<1> QED
  BY <1>4, GejsAre

LEMMA ContextInit == Init => ContextSound
<1>1. SUFFICES ASSUME Init PROVE ContextSound
  OBVIOUS
<1>2. gctx = [prec |-> FALSE, blind |-> 0, initial |-> gej_clear]
  BY <1>1 DEF Init, ecmult_gen_context_init
<1> QED
  BY <1>2, ClearFine DEF ContextSound

LEMMA ContextStep == ContextSound /\ [Next]_vars => ContextSound'
<1>1. SUFFICES ASSUME ContextSound, [Next]_vars PROVE ContextSound'
  OBVIOUS
<1>2. gctx \in [prec : BOOLEAN, blind : Int, initial : Gejs] /\ (gctx.prec => Cancels(gctx))
  BY <1>1 DEF ContextSound
<1>3. CASE UNCHANGED gctx
  BY <1>2, <1>3 DEF ContextSound
<1>4. CASE gctx' = ecmult_gen_context_init
  BY <1>4, ClearFine DEF ContextSound, ecmult_gen_context_init
<1>5. ASSUME NEW ctx \in [prec : BOOLEAN, blind : Int, initial : Gejs], NEW seeded \in BOOLEAN,
             seeded => Cancels(ctx), NEW z \in Zs, NEW b \in Blinds,
             gctx' = ecmult_gen_blind(ctx, seeded, fe_set_int(z), b)
      PROVE  ContextSound'
  <2>1. gctx' \in [prec : BOOLEAN, blind : Int, initial : Gejs] /\ Cancels(gctx')
    BY <1>5, BlindCancels
  <2> QED
    BY <2>1 DEF ContextSound, Cancels
<1>6. CASE ContextBuild
  <2>1. CASE gctx.prec
    BY <1>3, <1>6, <2>1 DEF ContextBuild
  <2>2. CASE ~gctx.prec
    <3>1. PICK z \in Zs, b \in Blinds :
            gctx' = ecmult_gen_blind([gctx EXCEPT !.prec = TRUE], FALSE, fe_set_int(z), b)
      BY <1>6, <2>2 DEF ContextBuild
    <3>2. PICK ctx : ctx = [gctx EXCEPT !.prec = TRUE]
      OBVIOUS
    <3>3. PICK seeded \in BOOLEAN : seeded = FALSE
      OBVIOUS
    <3>4. ctx \in [prec : BOOLEAN, blind : Int, initial : Gejs]
      BY <1>2, <3>2
    <3>5. gctx' = ecmult_gen_blind(ctx, seeded, fe_set_int(z), b) /\ (seeded => Cancels(ctx))
      BY <3>1, <3>2, <3>3, Zenon
    <3> QED
      BY <1>5, <3>4, <3>5, Zenon
  <2> QED
    BY <2>1, <2>2
<1>7. CASE ContextBlind
  <2>1. PICK seeded \in BOOLEAN, z \in Zs, b \in Blinds :
          gctx' = ecmult_gen_blind(gctx, seeded, fe_set_int(z), b)
    BY <1>7 DEF ContextBlind
  <2>2. gctx.prec
    BY <1>7 DEF ContextBlind
  <2> QED
    BY <1>2, <1>5, <2>1, <2>2
<1>8. CASE Ecmult \/ EcmultConst \/ EcmultGen \/ GroupOp
  BY <1>3, <1>8 DEF Ecmult, EcmultConst, EcmultGen, GroupOp
<1>9. CASE ContextClear
  BY <1>4, <1>9 DEF ContextClear
<1>10. CASE UNCHANGED vars
  BY <1>3, <1>10 DEF vars
<1> QED
  BY <1>1, <1>6, <1>7, <1>8, <1>9, <1>10 DEF Next

\* BlindingCancels of every reachable state (ecmult_gen_blind of
\* ecmult_gen_impl.h): whatever the comb and the blindings drawn, the starting
\* point of a built context is minus its blinding value times G, and no
\* VERIFY_CHECK failed on the way to it.
THEOREM BlindingAlwaysCancels == Spec => []BlindingCancels
<1>1. ContextSound => BlindingCancels
  <2>1. SUFFICES ASSUME ContextSound, gctx.prec
                 PROVE  AffineOf(gctx.initial) = Mult(-gctx.blind) /\ Ok(gctx.initial)
    BY DEF BlindingCancels
  <2>2. -gctx.blind \in Int /\ GejFine(gctx.initial) /\ Stands(gctx.initial, Mult(-gctx.blind))
    BY <2>1 DEF ContextSound, Cancels
  <2> QED
    BY <2>2, AffineOfStands DEF GejFine, Fine, Ok
<1> QED
  BY <1>1, ContextInit, ContextStep, PTL DEF Spec

\* While the context is built, ecmult_gen gives n * G for every scalar n, with no
\* VERIFY_CHECK failed: the offsets of the comb's rows and the blinding leave no
\* trace in what is signed with.
GenIsExact ==
  gctx.prec => \A n \in Scalars : AffineOf(ecmult_gen(gctx, n)) = Mult(n) /\ Ok(ecmult_gen(gctx, n))

\* ecmult_gen of ecmult_gen_impl.h computes n * G in every reachable state.
THEOREM GenAlwaysExact == Spec => []GenIsExact
<1>1. ContextSound => GenIsExact
  <2>1. SUFFICES ASSUME ContextSound, gctx.prec, NEW n \in Scalars
                 PROVE  AffineOf(ecmult_gen(gctx, n)) = Mult(n) /\ Ok(ecmult_gen(gctx, n))
    BY DEF GenIsExact
  <2>2. Cancels(gctx) /\ n \in Int
    BY <2>1, OrderFacts DEF ContextSound, Scalars
  <2>3. PICK r : r = ecmult_gen(gctx, n)
    OBVIOUS
  <2>4. GejFine(r) /\ Stands(r, Mult(n))
    BY <2>2, <2>3, GenStands
  <2> QED
    BY <2>2, <2>3, <2>4, AffineOfStands DEF GejFine, Fine, Ok
<1> QED
  BY <1>1, ContextInit, ContextStep, PTL DEF Spec

-----------------------------------------------------------------------------
(* What digits stand for.                                                  *)

LEMMA LengthOf ==
  ASSUME NEW n \in Nat, NEW S, NEW d \in [1..n -> S]
  PROVE  Len(d) = n
<1>1. d \in Seq(S)
  OBVIOUS
<1>2. PICK m \in Nat : m = Len(d) /\ DOMAIN d = 1..m
  BY <1>1
<1>3. 1..m = 1..n
  BY <1>2
<1>4. CASE m < n
  <2>1. n \in 1..n /\ ~(n \in 1..m)
    BY <1>4
  <2> QED
    BY <1>3, <2>1
<1>5. CASE m > n
  <2>1. m \in 1..m /\ ~(m \in 1..n)
    BY <1>5
  <2> QED
    BY <1>3, <2>1
<1> QED
  BY <1>2, <1>4, <1>5

\* The sum from each digit on.
Horner(h, d, n, base) ==
  h \in [1 .. n+1 -> Int] /\ h[n + 1] = 0 /\ \A i \in 1..n : h[i] = d[i] + base * h[i + 1]

LEMMA HornerExists ==
  ASSUME NEW n \in Nat, NEW d \in [1..n -> Int], NEW base \in Int
  PROVE  \E h : Horner(h, d, n, base) /\ DigitSum(d, base) = h[1]
<1>1. Len(d) = n /\ n + 1 \in Nat \ {0} /\ (n + 1) - 1 = n
  BY LengthOf
<1> DEFINE f == [p \in (1 .. n+1) \X Int |-> (IF p[1] \in 1..n THEN d[p[1]] ELSE 0) + base * p[2]]
           s == CHOOSE h : h = [i \in 1 .. n+1 |-> IF i > n THEN 0 ELSE d[i] + base * h[i + 1]]
<1>2. Steps(f, Int, n + 1)
  BY DEF Steps
<1>3. PICK g : DownLoop(g, Int, n + 1, 0, f)
  <2>1. 0 \in Int
    OBVIOUS
  <2> HIDE DEF f
  <2> QED
    BY <1>1, <1>2, <2>1, DownwardExists
<1>4. g \in [1 .. n+1 -> Int] /\ g[n + 1] = 0 /\ \A i \in 1..n : g[i] = f[<<i, g[i + 1]>>]
  BY <1>1, <1>3 DEF DownLoop
<1>5. \A i \in 1..n : g[i] = d[i] + base * g[i + 1]
  <2> SUFFICES ASSUME NEW i \in 1..n PROVE g[i] = d[i] + base * g[i + 1]
    OBVIOUS
  <2>1. <<i, g[i + 1]>> \in (1 .. n+1) \X Int
    BY <1>4
  <2> QED
    BY <1>4, <2>1
<1>6. g = [i \in 1 .. n+1 |-> IF i > n THEN 0 ELSE d[i] + base * g[i + 1]]
  <2>1. \A i \in 1 .. n+1 : g[i] = IF i > n THEN 0 ELSE d[i] + base * g[i + 1]
    BY <1>4, <1>5
  <2> QED
    BY <1>4, <2>1
<1>7. s = [i \in 1 .. n+1 |-> IF i > n THEN 0 ELSE d[i] + base * s[i + 1]]
  BY <1>6
<1>8. DigitSum(d, base) = s[1]
  BY <1>1 DEF DigitSum
<1> HIDE DEF s
<1>9. s[n + 1] = 0 /\ \A i \in 1..n : s[i] = d[i] + base * s[i + 1]
  <2>1. n + 1 \in 1 .. n+1 /\ n + 1 > n
    OBVIOUS
  <2>2. \A i \in 1..n : i \in 1 .. n+1 /\ ~(i > n)
    OBVIOUS
  <2> QED
    BY <1>7, <2>1, <2>2
<1>10. \A i \in 1 .. n+1 : s[i] \in Int
  <2> DEFINE I == {i \in 1 .. n+1 : s[i] \in Int}
  <2>1. n + 1 \in I
    BY <1>9
  <2>2. ASSUME NEW i \in 1 .. (n + 1) - 1, i + 1 \in I PROVE i \in I
    <3>1. i \in 1..n /\ s[i + 1] \in Int /\ d[i] \in Int
      BY <1>1, <2>2
    <3>2. PICK y \in Int : y = base * s[i + 1]
      BY <3>1
    <3> QED
      BY <1>9, <3>1, <3>2
  <2>3. \A i \in 1 .. n+1 : i \in I
    <3> HIDE DEF I
    <3> QED
      BY <1>1, <2>1, <2>2, Downward
  <2> QED
    BY <2>3
<1>11. s \in [1 .. n+1 -> Int]
  BY <1>7, <1>10
<1>12. Horner(s, d, n, base)
  BY <1>9, <1>11 DEF Horner
<1> QED
  BY <1>8, <1>12

\* What another x at place m adds to the sum from digit i on.
Change(x, m, i) == IF i > m THEN 0 ELSE x * Two(m - i)

LEMMA ChangeNext ==
  ASSUME NEW x \in Int, NEW m \in Nat \ {0}, NEW i \in 1..m
  PROVE  /\ Change(x, m, i) \in Int /\ Change(x, m, i + 1) \in Int
         /\ Change(x, m, i) = (IF i = m THEN x ELSE 0) + 2 * Change(x, m, i + 1)
<1>1. CASE i = m
  <2>1. m - i = 0 /\ i + 1 > m /\ ~(i > m) /\ Two(0) = 1
    BY <1>1, TwoLaws
  <2>2. Change(x, m, i) = x * 1 /\ Change(x, m, i + 1) = 0
    BY <2>1 DEF Change
  <2> QED
    BY <1>1, <2>2
<1>2. CASE i < m
  <2>1. PICK j \in Nat : j = m - (i + 1) /\ m - i = j + 1
    BY <1>2
  <2>2. Two(j) \in Nat /\ Two(j + 1) = 2 * Two(j)
    BY TwoLaws
  <2>3. Change(x, m, i) = x * Two(j + 1) /\ Change(x, m, i + 1) = x * Two(j)
    BY <1>2, <2>1 DEF Change
  <2>4. PICK u \in Int : u = Two(j) /\ Two(j + 1) = 2 * u
    BY <2>2
  <2>5. x * u \in Int /\ x * (2 * u) = 2 * (x * u)
    OBVIOUS
  <2>6. PICK t \in Int : t = x * u /\ x * (2 * u) = 2 * t
    BY <2>5
  <2>7. Change(x, m, i) = 2 * t /\ Change(x, m, i + 1) = t
    BY <2>3, <2>4, <2>6
  <2> QED
    BY <1>2, <2>7
<1> QED
  BY <1>1, <1>2

\* Another digit at one place.
LEMMA HornerChanges ==
  ASSUME NEW n \in Nat, NEW d \in [1..n -> Int], NEW m \in 1..n, NEW x \in Int
  PROVE  DigitSum([d EXCEPT ![m] = @ + x], 2) = DigitSum(d, 2) + x * Two(m - 1)
<1> DEFINE e == [d EXCEPT ![m] = @ + x]
<1>1. e \in [1..n -> Int] /\ 2 \in Int
  OBVIOUS
<1>2. PICK g : Horner(g, d, n, 2) /\ DigitSum(d, 2) = g[1]
  BY <1>1, HornerExists
<1>5. \A i \in 1..n : e[i] = d[i] + (IF i = m THEN x ELSE 0)
  OBVIOUS
<1> HIDE DEF e
<1>3. PICK h : Horner(h, e, n, 2) /\ DigitSum(e, 2) = h[1]
  BY <1>1, HornerExists
<1>4. /\ g \in [1 .. n+1 -> Int] /\ g[n + 1] = 0 /\ \A i \in 1..n : g[i] = d[i] + 2 * g[i + 1]
      /\ h \in [1 .. n+1 -> Int] /\ h[n + 1] = 0 /\ \A i \in 1..n : h[i] = e[i] + 2 * h[i + 1]
  BY <1>2, <1>3 DEF Horner
<1> DEFINE I == {i \in 1 .. n+1 : h[i] = g[i] + Change(x, m, i)}
<1>6. n + 1 \in I
  <2>1. n + 1 > m /\ n + 1 \in 1 .. n+1
    OBVIOUS
  <2>2. Change(x, m, n + 1) = 0
    BY <2>1 DEF Change
  <2> QED
    BY <1>4, <2>1, <2>2
<1>7. ASSUME NEW i \in 1 .. (n + 1) - 1, i + 1 \in I PROVE i \in I
  <2>1. i \in 1..n /\ i \in 1 .. n+1 /\ i + 1 \in 1 .. n+1
    OBVIOUS
  <2>2. /\ g[i + 1] \in Int /\ d[i] \in Int /\ g[i] = d[i] + 2 * g[i + 1]
        /\ h[i] = e[i] + 2 * h[i + 1] /\ e[i] = d[i] + (IF i = m THEN x ELSE 0)
    BY <1>4, <1>5, <2>1
  <2>3. /\ Change(x, m, i) \in Int /\ Change(x, m, i + 1) \in Int
        /\ Change(x, m, i) = (IF i = m THEN x ELSE 0) + 2 * Change(x, m, i + 1)
    <3>1. CASE i > m
      BY <3>1 DEF Change
    <3>2. CASE i <= m
      <4>1. m \in Nat \ {0} /\ i \in 1..m
        BY <3>2
      <4> QED
        BY <4>1, ChangeNext
    <3> QED
      BY <3>1, <3>2
  <2>4. h[i + 1] = g[i + 1] + Change(x, m, i + 1)
    BY <1>7
  <2>5. PICK z \in Int : z = (IF i = m THEN x ELSE 0)
    OBVIOUS
  <2>6. PICK G1 \in Int, C1 \in Int, d1 \in Int :
          G1 = g[i + 1] /\ C1 = Change(x, m, i + 1) /\ d1 = d[i]
    BY <2>2, <2>3
  <2>7. g[i] = d1 + 2 * G1 /\ Change(x, m, i) = z + 2 * C1 /\ h[i] = (d1 + z) + 2 * (G1 + C1)
    BY <2>2, <2>3, <2>4, <2>5, <2>6, Zenon
  <2>8. h[i] = g[i] + Change(x, m, i)
    BY <2>7
  <2> QED
    BY <2>1, <2>8
<1>8. \A i \in 1 .. n+1 : i \in I
  <2>1. n + 1 \in Nat \ {0}
    OBVIOUS
  <2> HIDE DEF I
  <2> QED
    BY <1>6, <1>7, <2>1, Downward
<1>9. h[1] = g[1] + x * Two(m - 1)
  <2>1. 1 \in 1 .. n+1 /\ ~(1 > m)
    OBVIOUS
  <2> QED
    BY <1>8, <2>1 DEF Change
<1> QED
  BY <1>2, <1>3, <1>9 DEF e

\* All digits multiplied.
Scaled(e, d, n, c) ==
  d \in [1..n -> Int] /\ e \in [1..n -> Int] /\ \A i \in 1..n : e[i] = c * d[i]

LEMMA HornerScales ==
  ASSUME NEW n \in Nat, NEW base \in Int, NEW c \in Int, NEW d, NEW e, Scaled(e, d, n, c)
  PROVE  /\ DigitSum(e, base) = c * DigitSum(d, base)
         /\ DigitSum(d, base) \in Int
<1>1. d \in [1..n -> Int] /\ e \in [1..n -> Int] /\ \A i \in 1..n : e[i] = c * d[i]
  BY DEF Scaled
<1>2. PICK g : Horner(g, d, n, base) /\ DigitSum(d, base) = g[1]
  BY <1>1, HornerExists
<1>3. PICK h : Horner(h, e, n, base) /\ DigitSum(e, base) = h[1]
  BY <1>1, HornerExists
<1>4. /\ g \in [1 .. n+1 -> Int] /\ g[n + 1] = 0 /\ \A i \in 1..n : g[i] = d[i] + base * g[i + 1]
      /\ h \in [1 .. n+1 -> Int] /\ h[n + 1] = 0 /\ \A i \in 1..n : h[i] = e[i] + base * h[i + 1]
  BY <1>2, <1>3 DEF Horner
<1> DEFINE I == {i \in 1 .. n+1 : h[i] = c * g[i]}
<1>5. n + 1 \in I
  BY <1>4
<1>6. ASSUME NEW i \in 1 .. (n + 1) - 1, i + 1 \in I PROVE i \in I
  <2>1. i \in 1..n /\ i \in 1 .. n+1 /\ i + 1 \in 1 .. n+1
    OBVIOUS
  <2>2. PICK b \in Int, x \in Int : b = g[i + 1] /\ x = d[i]
    BY <1>1, <1>4, <2>1
  <2>3. h[i] = c * x + base * (c * b) /\ g[i] = x + base * b
    BY <1>1, <1>4, <1>6, <2>1, <2>2
  <2>4. c * x + base * (c * b) = c * (x + base * b)
    OBVIOUS
  <2> QED
    BY <2>1, <2>3, <2>4
<1>7. \A i \in 1 .. n+1 : i \in I
  <2>1. n + 1 \in Nat \ {0}
    OBVIOUS
  <2> HIDE DEF I
  <2> QED
    BY <1>5, <1>6, <2>1, Downward
<1>8. h[1] = c * g[1] /\ g[1] \in Int
  BY <1>4, <1>7
<1> QED
  BY <1>2, <1>3, <1>8

LEMMA HornerZero ==
  ASSUME NEW n \in Nat, NEW d \in [1..n -> Int], \A i \in 1..n : d[i] = 0, NEW base \in Int
  PROVE  DigitSum(d, base) = 0
<1>1. PICK c \in Int : c = 0
  OBVIOUS
<1>2. DigitSum(d, base) = c * DigitSum(d, base) /\ DigitSum(d, base) \in Int
  <2>1. Scaled(d, d, n, c)
    BY <1>1 DEF Scaled
  <2> QED
    BY <2>1, HornerScales
<1>3. PICK t \in Int : t = DigitSum(d, base) /\ t = 0 * t
  BY <1>1, <1>2
<1> QED
  BY <1>3

-----------------------------------------------------------------------------
(* Signed windows.                                                         *)

\* The bits of a window, with those below it.
LEMMA BitsUp ==
  ASSUME NEW s \in Nat, NEW bit \in Nat, NEW now \in Nat
  PROVE  /\ Bits(s, bit, now) \in 0 .. Two(now) - 1
         /\ (s % Two(bit + now)) = (s % Two(bit)) + Bits(s, bit, now) * Two(bit)
         /\ (s % Two(bit)) \in 0 .. Two(bit) - 1
<1>1. Two(bit) \in Nat \ {0} /\ Two(now) \in Nat \ {0} /\ Two(bit + now) = Two(bit) * Two(now)
  BY TwoLaws, TwoSum
<1>2. Bits(s, bit, now) = ((s \div Two(bit)) % Two(now))
  BY DEF Bits, Two
<1>3. PICK b \in Nat \ {0}, c \in Nat \ {0} : b = Two(bit) /\ c = Two(now)
  BY <1>1
<1>4. /\ (s % (b * c)) = (s % b) + ((s \div b) % c) * b
      /\ ((s \div b) % c) \in 0 .. c-1
  BY DigitUp
<1>5. (s % b) \in 0 .. b-1
  OBVIOUS
<1> QED
  BY <1>1, <1>2, <1>3, <1>4, <1>5

\* The lowest bit of a window.
LEMMA LowestBit ==
  ASSUME NEW s \in Nat, NEW bit \in Nat, NEW now \in Nat \ {0}
  PROVE  Bits(s, bit, 1) = (Bits(s, bit, now) % 2) /\ Bits(s, bit, 1) \in {0, 1}
<1>1. PICK m \in Nat : m = now - 1 /\ now = m + 1
  OBVIOUS
<1>2. PICK h \in Nat \ {0} : h = Two(m) /\ Two(now) = 2 * h
  BY <1>1, TwoLaws
<1>3. Two(1) = 2 /\ Two(bit) \in Nat \ {0}
  <2>1. Two(0) = 1 /\ Two(0 + 1) = 2 * Two(0) /\ 0 + 1 = 1
    BY TwoLaws
  <2> QED
    BY <2>1, TwoLaws
<1>4. PICK q \in Int : q = s \div Two(bit)
  BY <1>3
<1>5. Bits(s, bit, 1) = (q % 2) /\ Bits(s, bit, now) = (q % (2 * h))
  BY <1>2, <1>3, <1>4 DEF Bits, Two
<1>6. PICK g \in Nat \ {0} : g = 2 * h
  OBVIOUS
<1>7. PICK t \in Int, r \in Int : t = q \div g /\ r = (q % g) /\ q = t * g + r
  <2>1. (q \div g) \in Int /\ (q % g) \in Int /\ q = (q \div g) * g + (q % g)
    OBVIOUS
  <2> QED
    BY <2>1
<1>8. PICK y \in Int : y = t * h /\ t * g = 2 * y
  <2>1. t * h \in Int /\ t * (2 * h) = 2 * (t * h)
    OBVIOUS
  <2> QED
    BY <1>6, <2>1
<1>9. (q % 2) = (r % 2)
  BY <1>7, <1>8
<1>10. (q % 2) \in {0, 1}
  OBVIOUS
<1> QED
  BY <1>5, <1>6, <1>7, <1>9, <1>10

\* The digit a window is replaced by, and the carry.
LEMMA NewDigit ==
  ASSUME NEW w \in Nat, w >= 2, NEW now \in Nat \ {0}, now <= w,
         NEW B \in 0 .. Two(now) - 1, NEW carry \in {0, 1}, (B % 2) # carry,
         NEW up, up = (((B + carry) \div Two(w - 1)) % 2)
  PROVE  /\ up \in {0, 1}
         /\ DigitOk((B + carry) - up * Two(w), w)
         /\ up = 1 => now = w /\ 2 * B >= Two(w)
         /\ B >= 1 \/ carry = 1
<1>1. PICK h \in Nat \ {0} : Two(w - 1) = 2 * h /\ Two(w) = 4 * h
  <2>1. w - 2 \in Nat /\ w - 1 = (w - 2) + 1 /\ w = (w - 1) + 1 /\ w - 1 \in Nat
    OBVIOUS
  <2>2. Two(w - 2) \in Nat \ {0} /\ Two(w - 1) = 2 * Two(w - 2) /\ Two(w) = 2 * Two(w - 1)
    BY <2>1, TwoLaws
  <2> QED
    BY <2>2
<1>2. PICK V \in Nat \ {0} : V = Two(w - 1) /\ V = 2 * h /\ Two(w) = 2 * V
  BY <1>1
<1>3. PICK T \in Nat \ {0} : T = Two(now) /\ T <= 2 * V /\ (now < w => T <= V)
  <2>1. Two(now) \in Nat \ {0} /\ Two(now) <= Two(w)
    BY TwoLaws, TwoGrows
  <2>2. CASE now < w
    <3>1. w - 1 \in Nat /\ now <= w - 1
      BY <2>2
    <3>2. Two(now) <= Two(w - 1)
      BY <3>1, TwoGrows
    <3> QED
      BY <1>2, <2>1, <3>2
  <2>3. CASE ~(now < w)
    BY <1>2, <2>1, <2>3
  <2> QED
    BY <2>2, <2>3
<1>4. PICK word \in Nat : word = B + carry /\ word <= T /\ (word % 2) = 1
  BY <1>3
<1>5. B >= 1 \/ carry = 1
  OBVIOUS
<1>6. word <= 2 * V - 1 /\ (now < w => word < V)
  BY <1>2, <1>3, <1>4
<1>7. CASE word < V
  <2>1. (word \div V) = 0
    BY <1>7
  <2>2. up = 0
    BY <1>2, <1>4, <2>1
  <2>3. word - up * Two(w) = word
    BY <1>2, <2>2
  <2>4. DigitOk(word, w)
    <3>1. 2^(w-1) = V
      BY <1>2 DEF Two
    <3>2. word >= -(V - 1) /\ word <= V - 1
      BY <1>7
    <3> QED
      BY <1>4, <3>1, <3>2 DEF DigitOk
  <2>5. (B + carry) - up * Two(w) = word
    BY <1>4, <2>3, Zenon
  <2>6. DigitOk((B + carry) - up * Two(w), w)
    BY <2>4, <2>5, Zenon
  <2>7. ~(up = 1) /\ up \in {0, 1}
    BY <2>2
  <2> QED
    BY <1>5, <2>6, <2>7
<1>8. CASE word >= V
  <2>1. (word \div V) = 1
    <3>1. word = 1 * V + (word - V) /\ word - V \in 0 .. V-1
      BY <1>6, <1>8
    <3> QED
      BY <1>6, <1>8, <3>1
  <2>2. up = 1
    BY <1>2, <1>4, <2>1
  <2>3. word - up * Two(w) = word - 2 * V
    BY <1>2, <2>2
  <2>4. word >= V + 1
    BY <1>2, <1>4, <1>8
  <2>5. DigitOk(word - 2 * V, w)
    <3>1. 2^(w-1) = V
      BY <1>2 DEF Two
    <3>2. ((word - 2 * V) % 2) = 1
      BY <1>4
    <3>3. word - 2 * V >= -(V - 1) /\ word - 2 * V <= V - 1
      BY <1>6, <2>4
    <3> QED
      BY <3>1, <3>2, <3>3 DEF DigitOk
  <2>6. now = w /\ 2 * B >= Two(w)
    <3>1. B >= V
      BY <1>4, <2>4
    <3> QED
      BY <1>2, <1>6, <1>8, <3>1
  <2>7. (B + carry) - up * Two(w) = word - 2 * V
    BY <1>4, <2>3, Zenon
  <2>8. DigitOk((B + carry) - up * Two(w), w)
    BY <2>5, <2>7, Zenon
  <2>9. up \in {0, 1}
    BY <2>2
  <2> QED
    BY <1>5, <2>6, <2>8, <2>9
<1> QED
  BY <1>4, <1>7, <1>8

\* Digits by place, and what they are worth together.
Places(d, n) == [i \in 1..n |-> d[i-1]]
Worth(d, n) == DigitSum(Places(d, n), 2)

Blank(d, n, m) == n \in Nat /\ m \in 0 .. n-1 /\ d \in [0 .. n-1 -> Int] /\ d[m] = 0

LEMMA WorthChanges ==
  ASSUME NEW n, NEW d, NEW m, NEW x \in Int, Blank(d, n, m)
  PROVE  /\ Worth([d EXCEPT ![m] = x], n) = Worth(d, n) + x * Two(m)
         /\ Worth(d, n) \in Int
<1>0. n \in Nat /\ m \in 0 .. n-1 /\ d \in [0 .. n-1 -> Int] /\ d[m] = 0
  BY DEF Blank
<1>1. Places(d, n) \in [1..n -> Int] /\ m + 1 \in 1..n /\ (m + 1) - 1 = m
  BY <1>0 DEF Places
<1>2. Places([d EXCEPT ![m] = x], n) = [Places(d, n) EXCEPT ![m + 1] = @ + x]
  <2>1. \A i \in 1..n : [d EXCEPT ![m] = x][i - 1] = IF i = m + 1 THEN d[i - 1] + x ELSE d[i - 1]
    <3> SUFFICES ASSUME NEW i \in 1..n
                 PROVE  [d EXCEPT ![m] = x][i - 1] = IF i = m + 1 THEN d[i - 1] + x ELSE d[i - 1]
      OBVIOUS
    <3>1. i - 1 \in 0 .. n-1 /\ (i = m + 1 <=> i - 1 = m)
      BY <1>0
    <3>2. CASE i - 1 = m
      BY <1>0, <3>1, <3>2
    <3>3. CASE i - 1 # m
      BY <1>0, <3>1, <3>3
    <3> QED
      BY <3>2, <3>3
  <2> QED
    BY <1>0, <1>1, <2>1 DEF Places
<1>3. DigitSum([Places(d, n) EXCEPT ![m + 1] = @ + x], 2) = DigitSum(Places(d, n), 2) + x * Two((m + 1) - 1)
  BY <1>0, <1>1, HornerChanges
<1>4. DigitSum(Places(d, n), 2) \in Int
  <2>1. PICK one \in Int : one = 1
    OBVIOUS
  <2>2. Scaled(Places(d, n), Places(d, n), n, one) /\ 2 \in Int
    BY <1>0, <1>1, <2>1 DEF Scaled
  <2> QED
    BY <1>0, <2>2, HornerScales
<1> QED
  BY <1>0, <1>1, <1>2, <1>3, <1>4 DEF Worth

\* The loop's state.  The digits so far and the carry are worth the bits below
\* the next position to read.
WnafStates(len) == [d : [0 .. len-1 -> Int], carry : {0, 1}, next : Nat, last : Int]
Position(st, b) == IF st.next > b THEN st.next ELSE b
Adds(s, len, d, carry, c) == Worth(d, len) = (s % Two(c)) - carry * Two(c)
Spaced(d, len, w, last) ==
    \A i \in 0 .. len-1 : d[i] # 0 =>
       i <= last /\ DigitOk(d[i], w) /\ \A j \in i+1 .. len-1 : d[j] # 0 => j >= i + w
Carried(s, carry, c) == carry = 1 => 2 * (s % Two(c)) >= Two(c)
Reaches(s, last, c) == last # -1 => 2 * (s % Two(c)) >= Two(last)
NextOf(len, w, last) == IF last = -1 THEN 0 ELSE IF last + w > len THEN len ELSE last + w

WnafSound(s, len, w, st, b) ==
  /\ st \in WnafStates(len) /\ st.last \in -1 .. b-1 /\ st.next = NextOf(len, w, st.last)
  /\ Spaced(st.d, len, w, st.last)
  /\ Adds(s, len, st.d, st.carry, Position(st, b))
  /\ Carried(s, st.carry, Position(st, b))
  /\ Reaches(s, st.last, Position(st, b))

\* Nothing happens at a position a digit has consumed.
LEMMA WnafWaits ==
  ASSUME NEW s, NEW len, NEW w, NEW st, NEW b \in Nat, WnafSound(s, len, w, st, b), b < st.next
  PROVE  WnafSound(s, len, w, st, b + 1)
<1>1. Position(st, b + 1) = Position(st, b) /\ st.last \in -1 .. (b+1)-1
  BY DEF Position, WnafSound, WnafStates
<1> QED
  BY <1>1 DEF WnafSound

\* A bit equal to the carry takes the carry on.
LEMMA WnafSkips ==
  ASSUME NEW s \in Nat, NEW len, NEW w, NEW st, NEW b \in Nat, WnafSound(s, len, w, st, b),
         b >= st.next, Bits(s, b, 1) = st.carry
  PROVE  WnafSound(s, len, w, st, b + 1)
<1>1. st \in WnafStates(len) /\ st.next \in Nat /\ st.carry \in {0, 1}
  BY DEF WnafSound, WnafStates
<1>2. Position(st, b) = b /\ Position(st, b + 1) = b + 1 /\ st.last \in -1 .. (b+1)-1
  BY <1>1 DEF Position, WnafSound
<1>3. PICK T \in Nat \ {0} : T = Two(b) /\ Two(b + 1) = 2 * T
  BY TwoLaws
<1>4. PICK r \in Nat : r = (s % Two(b)) /\ (s % Two(b + 1)) = r + st.carry * T
  <2>1. 1 \in Nat
    OBVIOUS
  <2>2. /\ (s % Two(b + 1)) = (s % Two(b)) + Bits(s, b, 1) * Two(b)
        /\ (s % Two(b)) \in 0 .. Two(b) - 1
    BY <2>1, BitsUp, Zenon
  <2>3. (s % Two(b)) \in 0 .. T-1 /\ (s % Two(b + 1)) = (s % Two(b)) + st.carry * T
    BY <1>3, <2>2, Zenon
  <2>4. (s % Two(b)) \in Nat
    BY <2>3
  <2> QED
    BY <2>3, <2>4, Zenon
<1>5. Adds(s, len, st.d, st.carry, b + 1)
  <2>1. Worth(st.d, len) = r - st.carry * T
    BY <1>2, <1>3, <1>4 DEF WnafSound, Adds
  <2>2. r - st.carry * T = (r + st.carry * T) - st.carry * (2 * T)
    <3>1. CASE st.carry = 0
      BY <3>1
    <3>2. CASE st.carry = 1
      BY <3>2
    <3> QED
      BY <1>1, <3>1, <3>2
  <2> QED
    BY <1>3, <1>4, <2>1, <2>2 DEF Adds
<1>6. Carried(s, st.carry, b + 1)
  <2> SUFFICES ASSUME st.carry = 1 PROVE 2 * (s % Two(b + 1)) >= Two(b + 1)
    BY DEF Carried
  <2>1. (s % Two(b + 1)) = r + T
    BY <1>4
  <2> QED
    BY <1>3, <2>1
<1>7. Reaches(s, st.last, b + 1)
  <2> SUFFICES ASSUME st.last # -1 PROVE 2 * (s % Two(b + 1)) >= Two(st.last)
    BY DEF Reaches
  <2>1. 2 * r >= Two(st.last)
    BY <1>2, <1>4 DEF WnafSound, Reaches
  <2>2. PICK m \in Nat : m = Two(st.last)
    <3>1. st.last \in Nat
      BY DEF WnafSound
    <3> QED
      BY <3>1, TwoLaws
  <2>3. (s % Two(b + 1)) \in Nat /\ (s % Two(b + 1)) >= r
    <3>1. CASE st.carry = 0
      BY <1>4, <3>1
    <3>2. CASE st.carry = 1
      BY <1>4, <3>2
    <3> QED
      BY <1>1, <3>1, <3>2
  <2> QED
    BY <2>1, <2>2, <2>3
<1> QED
  BY <1>2, <1>5, <1>6, <1>7 DEF WnafSound

\* A window: the digit at b takes the carry and the bits up to now.
LEMMA WnafTakes ==
  ASSUME NEW len \in Nat \ {0}, NEW s \in Nat, s < Two(len - 1), NEW w \in Nat, w >= 2,
         NEW st, NEW b \in 0 .. len-1, WnafSound(s, len, w, st, b),
         b >= st.next, Bits(s, b, 1) # st.carry,
         NEW now \in Nat, now = IF w > len - b THEN len - b ELSE w
  PROVE  WnafSound(s, len, w, WnafDigit(s, b, now, w, st), b + 1)
<1>1. /\ st \in WnafStates(len) /\ st.next \in Nat /\ st.carry \in {0, 1} /\ st.d \in [0 .. len-1 -> Int]
      /\ Position(st, b) = b /\ b \in Nat /\ st.last \in -1 .. b-1 /\ st.next = NextOf(len, w, st.last)
  BY DEF WnafSound, WnafStates, Position
<1>2. now \in Nat \ {0} /\ now <= w /\ b + now <= len /\ (now < w => b + now = len)
  <2>1. CASE w > len - b
    BY <2>1
  <2>2. CASE ~(w > len - b)
    BY <2>2
  <2> QED
    BY <2>1, <2>2
<1>29. /\ Bits(s, b, now) \in 0 .. Two(now) - 1
       /\ (s % Two(b + now)) = (s % Two(b)) + Bits(s, b, now) * Two(b)
       /\ (s % Two(b)) \in 0 .. Two(b) - 1
  <2>1. b \in Nat /\ now \in Nat /\ s \in Nat
    BY <1>1
  <2> QED
    BY <2>1, BitsUp, ZenonT(60)
<1>3. PICK B \in Nat : B = Bits(s, b, now) /\ B \in 0 .. Two(now) - 1
  <2>1. PICK n \in Nat : n = Two(now)
    BY TwoLaws
  <2>2. Bits(s, b, now) \in 0 .. n-1
    BY <1>29, <2>1, Zenon
  <2> QED
    BY <2>1, <2>2
<1>4. PICK c0 \in {0, 1} : c0 = st.carry
  BY <1>1
<1>5. (B % 2) # c0
  BY <1>1, <1>2, <1>3, <1>4, LowestBit
<1>6. PICK up : up = (((B + c0) \div Two(w - 1)) % 2)
  OBVIOUS
<1>7. /\ up \in {0, 1} /\ DigitOk((B + c0) - up * Two(w), w)
      /\ up = 1 => now = w /\ 2 * B >= Two(w)
      /\ B >= 1 \/ c0 = 1
  BY <1>2, <1>3, <1>4, <1>5, <1>6, NewDigit
<1>8. PICK W \in Nat \ {0} : W = Two(w)
  BY TwoLaws
<1>9. PICK x \in Int : x = (B + c0) - up * W
  BY <1>4, <1>7
<1>10. WnafDigit(s, b, now, w, st)
         = [d |-> [st.d EXCEPT ![b] = x], carry |-> up, next |-> b + now, last |-> b]
  BY <1>3, <1>4, <1>6, <1>8, <1>9 DEF WnafDigit, Two
<1>11. PICK t : t = WnafDigit(s, b, now, w, st)
  OBVIOUS
<1>12. t.d = [st.d EXCEPT ![b] = x] /\ t.carry = up /\ t.next = b + now /\ t.last = b
  BY <1>10, <1>11
<1>13. t \in WnafStates(len) /\ t.last \in -1 .. (b+1)-1 /\ Position(t, b + 1) = b + now
  <2>1. [st.d EXCEPT ![b] = x] \in [0 .. len-1 -> Int]
    BY <1>1
  <2>2. t = [d |-> [st.d EXCEPT ![b] = x], carry |-> up, next |-> b + now, last |-> b]
    BY <1>10, <1>11
  <2>3. t \in WnafStates(len)
    BY <1>1, <1>2, <1>7, <2>1, <2>2 DEF WnafStates
  <2> QED
    BY <1>1, <1>2, <1>12, <2>3 DEF Position
<1>14. t.next = NextOf(len, w, t.last)
  BY <1>1, <1>2, <1>12 DEF NextOf
<1>15. st.last = -1 \/ st.last + w <= b
  BY <1>1 DEF NextOf
<1>16. \A i \in 0 .. len-1 : st.d[i] # 0 => i + w <= b
  <2> SUFFICES ASSUME NEW i \in 0 .. len-1, st.d[i] # 0 PROVE i + w <= b
    OBVIOUS
  <2>1. i <= st.last
    BY DEF WnafSound, Spaced
  <2> QED
    BY <1>1, <1>15, <2>1
<1>17. st.d[b] = 0
  BY <1>1, <1>16
<1>18. Spaced(t.d, len, w, t.last)
  <2> SUFFICES ASSUME NEW i \in 0 .. len-1, t.d[i] # 0
               PROVE  i <= b /\ DigitOk(t.d[i], w) /\ \A j \in i+1 .. len-1 : t.d[j] # 0 => j >= i + w
    BY <1>12 DEF Spaced
  <2>1. \A j \in 0 .. len-1 : t.d[j] = IF j = b THEN x ELSE st.d[j]
    BY <1>1, <1>12
  <2>2. \A j \in 0 .. len-1 : t.d[j] # 0 => j <= b
    <3> SUFFICES ASSUME NEW j \in 0 .. len-1, t.d[j] # 0 PROVE j <= b
      OBVIOUS
    <3>1. CASE j # b
      <4>1. j + w <= b
        BY <1>16, <2>1, <3>1
      <4> QED
        BY <1>1, <4>1
    <3> QED
      BY <3>1
  <2>3. CASE i = b
    <3>1. DigitOk(t.d[i], w)
      BY <1>7, <1>8, <1>9, <2>1, <2>3
    <3>2. \A j \in i+1 .. len-1 : ~(j <= b) /\ j \in 0 .. len-1
      BY <2>3
    <3> QED
      BY <2>2, <2>3, <3>1, <3>2
  <2>4. CASE i # b
    <3>1. t.d[i] = st.d[i] /\ st.d[i] # 0
      BY <2>1, <2>4
    <3>2. i + w <= b
      BY <1>16, <3>1
    <3>3. DigitOk(t.d[i], w) /\ \A j \in i+1 .. len-1 : st.d[j] # 0 => j >= i + w
      BY <3>1 DEF WnafSound, Spaced
    <3>4. \A j \in i+1 .. len-1 : t.d[j] # 0 => j >= i + w
      <4> SUFFICES ASSUME NEW j \in i+1 .. len-1, t.d[j] # 0 PROVE j >= i + w
        OBVIOUS
      <4>1. CASE j = b
        BY <3>2, <4>1
      <4>2. CASE j # b
        BY <2>1, <3>3, <4>2
      <4> QED
        BY <4>1, <4>2
    <3> QED
      BY <2>2, <3>3, <3>4
  <2> QED
    BY <2>3, <2>4
<1>19. PICK T \in Nat \ {0} : T = Two(b)
  BY <1>1, TwoLaws
<1>20. PICK r \in Nat : r = (s % Two(b)) /\ (s % Two(b + now)) = r + B * T
  <2>1. (s % Two(b)) \in 0 .. T-1
    BY <1>19, <1>29, Zenon
  <2>2. (s % Two(b)) \in Nat
    BY <2>1
  <2>3. (s % Two(b + now)) = (s % Two(b)) + B * T
    BY <1>3, <1>19, <1>29, Zenon
  <2> QED
    BY <2>2, <2>3
<1>21. up = 1 => Two(b + now) = W * T
  <2> SUFFICES ASSUME up = 1 PROVE Two(b + now) = W * T
    OBVIOUS
  <2>1. Two(b + w) = Two(b) * Two(w)
    BY <1>1, TwoSum
  <2>2. T * W = W * T
    OBVIOUS
  <2> QED
    BY <1>7, <1>8, <1>19, <2>1, <2>2
<1>22. PICK V \in Nat \ {0} : V = Two(b + now)
  <2>1. b + now \in Nat
    BY <1>1, <1>2
  <2> QED
    BY <2>1, TwoLaws
<1>23. PICK y \in Nat : y = B * T /\ (B >= 1 => y >= T) /\ (2 * B >= W => 2 * y >= W * T)
  <2>1. B * T \in Nat
    BY <1>3, <1>19
  <2>2. B >= 1 => B * T >= T
    BY <1>3, <1>19, MultipleFar
  <2>3. 2 * B >= W => 2 * (B * T) >= W * T
    <3> SUFFICES ASSUME 2 * B >= W PROVE 2 * (B * T) >= W * T
      OBVIOUS
    <3>1. PICK e \in Nat : 2 * B = W + e
      <4>1. 2 * B - W \in Nat /\ 2 * B = W + (2 * B - W)
        OBVIOUS
      <4> QED
        BY <4>1
    <3>2. (2 * B) * T = 2 * (B * T) /\ (W + e) * T = W * T + e * T /\ e * T \in Nat
      OBVIOUS
    <3> QED
      BY <3>1, <3>2
  <2> QED
    BY <2>1, <2>2, <2>3
<1>24. PICK q \in Nat : q = W * T
  OBVIOUS
<1>25. x * T = (y + c0 * T) - up * q
  <2>1. ((B + c0) - up * W) * T = (B * T + c0 * T) - up * (W * T)
    BY <1>4, <1>7
  <2> QED
    BY <1>9, <1>23, <1>24, <2>1
<1>26. Adds(s, len, t.d, t.carry, b + now)
  <2>1. Worth(st.d, len) = r - c0 * T
    <3>1. Worth(st.d, len) = (s % Two(b)) - st.carry * Two(b)
      BY <1>1, Zenon DEF WnafSound, Adds
    <3> QED
      BY <1>4, <1>19, <1>20, <3>1, Zenon
  <2>2. Worth(t.d, len) = Worth(st.d, len) + x * T
    <3>1. PICK e \in [0 .. len-1 -> Int] : e = st.d /\ e[b] = 0
      BY <1>1, <1>17
    <3>2. Worth([e EXCEPT ![b] = x], len) = Worth(e, len) + x * Two(b)
      <4>1. Blank(e, len, b)
        BY <3>1 DEF Blank
      <4> QED
        BY <4>1, WorthChanges, Zenon
    <3> QED
      BY <1>12, <1>19, <3>1, <3>2, Zenon
  <2>3. Worth(t.d, len) = (r - c0 * T) + ((y + c0 * T) - up * q)
    BY <1>25, <2>1, <2>2
  <2>4. (r - c0 * T) + ((y + c0 * T) - up * q) = (r + y) - up * q
    <3>1. PICK z \in Int : z = c0 * T
      BY <1>4
    <3>2. PICK v \in Int : v = up * q
      BY <1>7
    <3> QED
      BY <3>1, <3>2
  <2>5. up * q = up * V
    <3>1. CASE up = 0
      BY <3>1
    <3>2. CASE up = 1
      BY <1>21, <1>22, <1>24, <3>2
    <3> QED
      BY <1>7, <3>1, <3>2
  <2>6. Worth(t.d, len) = (r + y) - up * V
    BY <2>3, <2>4, <2>5
  <2> QED
    BY <1>12, <1>20, <1>22, <1>23, <2>6 DEF Adds
<1>27. Carried(s, t.carry, b + now)
  <2> SUFFICES ASSUME up = 1 PROVE 2 * (s % Two(b + now)) >= Two(b + now)
    BY <1>12 DEF Carried
  <2>1. V = q /\ 2 * y >= q
    BY <1>7, <1>8, <1>21, <1>22, <1>23, <1>24
  <2> QED
    BY <1>20, <1>22, <1>23, <2>1
<1>28. Reaches(s, t.last, b + now)
  <2>1. 2 * (r + y) >= T
    <3>1. CASE B >= 1
      BY <1>23, <3>1
    <3>2. CASE c0 = 1
      <4>1. 2 * r >= T
        BY <1>1, <1>4, <1>19, <1>20, <3>2 DEF WnafSound, Carried
      <4> QED
        BY <4>1
    <3> QED
      BY <1>7, <3>1, <3>2
  <2> QED
    BY <1>12, <1>19, <1>20, <1>23, <2>1 DEF Reaches
<1> QED
  BY <1>11, <1>13, <1>14, <1>18, <1>26, <1>27, <1>28, <1>12 DEF WnafSound

\* Any step of the loop leads to a state of it.
LEMMA WnafStepType ==
  ASSUME NEW s \in Nat, NEW len \in Nat, NEW w \in Nat, w >= 2,
         NEW st \in WnafStates(len), NEW b \in 0 .. len-1
  PROVE  WnafStep(s, len, w, st, b) \in WnafStates(len)
<1>1. PICK now \in Nat : now = IF w > len - b THEN len - b ELSE w
  <2>1. CASE w > len - b
    <3>1. len - b \in Nat
      OBVIOUS
    <3> QED
      BY <2>1, <3>1
  <2>2. CASE ~(w > len - b)
    BY <2>2
  <2> QED
    BY <2>1, <2>2
<1>2. PICK V \in Int : V = Bits(s, b, now)
  <2>1. b \in Nat
    OBVIOUS
  <2>2. Bits(s, b, now) \in 0 .. Two(now) - 1
    BY <2>1, BitsUp
  <2>3. PICK n \in Nat : n = Two(now)
    BY TwoLaws
  <2> QED
    BY <2>2, <2>3
<1>3. st.carry \in {0, 1} /\ st.d \in [0 .. len-1 -> Int]
  BY DEF WnafStates
<1>4. PICK word \in Int : word = V + st.carry
  BY <1>3
<1>5. PICK up : up = ((word \div 2^(w-1)) % 2)
  OBVIOUS
<1>6. WnafDigit(s, b, now, w, st)
        = [d |-> [st.d EXCEPT ![b] = word - up * 2^w], carry |-> up, next |-> b + now, last |-> b]
  BY <1>2, <1>4, <1>5, Zenon DEF WnafDigit
<1>7. CASE WnafStep(s, len, w, st, b) = st
  BY <1>7
<1>8. CASE WnafStep(s, len, w, st, b) = WnafDigit(s, b, now, w, st)
  <2>1. PICK u \in Nat \ {0}, v \in Int : u = 2^(w-1) /\ v = 2^w
    <3>1. w - 1 \in Nat
      BY <1>8
    <3>2. Two(w - 1) \in Nat \ {0} /\ Two(w) \in Nat
      BY <3>1, TwoLaws
    <3> QED
      BY <3>2 DEF Two
  <2>2. up \in {0, 1}
    <3>1. PICK q \in Int : q = word \div u
      OBVIOUS
    <3> QED
      BY <1>5, <2>1, <3>1
  <2>3. word - up * v \in Int
    BY <2>2
  <2>4. [st.d EXCEPT ![b] = word - up * v] \in [0 .. len-1 -> Int] /\ b + now \in Nat
    BY <1>3, <2>3
  <2> QED
    BY <1>6, <1>8, <2>1, <2>2, <2>4 DEF WnafStates
<1> QED
  BY <1>1, <1>7, <1>8 DEF WnafStep

\* The loop has run its course.
LEMMA WnafRuns ==
  ASSUME NEW len \in Nat \ {0}, NEW s \in Nat, s < Two(len - 1), NEW w \in Nat, w >= 2, NEW sign
  PROVE  \E st : WnafSound(s, len, w, st, len) /\ WnafOf(s, len, w, sign) = WnafEnd(st, s, len, sign)
<1> DEFINE x == [d |-> [i \in 0 .. len-1 |-> 0], carry |-> 0, next |-> 0, last |-> -1]
           r == CHOOSE h : h = [bit \in 0 .. len |->
                  IF bit = 0 THEN x ELSE WnafStep(s, len, w, h[bit-1], bit - 1)]
           f == [p \in (1..len) \X WnafStates(len) |-> WnafStep(s, len, w, p[2], p[1] - 1)]
<1>1. x \in WnafStates(len) /\ x.d = [i \in 0 .. len-1 |-> 0] /\ x.carry = 0 /\ x.next = 0 /\ x.last = -1
  BY DEF WnafStates
<1> HIDE DEF x
<1>2. Steps(f, WnafStates(len), len)
  <2>1. ASSUME NEW p \in (1..len) \X WnafStates(len)
        PROVE  WnafStep(s, len, w, p[2], p[1] - 1) \in WnafStates(len)
    <3>1. PICK i \in 1..len, a \in WnafStates(len) : p = <<i, a>>
      OBVIOUS
    <3>2. i - 1 \in 0 .. len-1 /\ len \in Nat
      OBVIOUS
    <3>3. WnafStep(s, len, w, a, i - 1) \in WnafStates(len)
      BY <3>2, WnafStepType
    <3> QED
      BY <3>1, <3>3
  <2> QED
    BY <2>1 DEF Steps
<1>3. PICK g : LoopOf(g, WnafStates(len), len, x, f)
  <2> HIDE DEF f
  <2> QED
    BY <1>1, <1>2, LoopExists
<1>4. g \in [0..len -> WnafStates(len)] /\ g[0] = x /\ \A b \in 1..len : g[b] = f[<<b, g[b - 1]>>]
  BY <1>3 DEF LoopOf
<1>5. \A b \in 0..len : g[b] = IF b = 0 THEN x ELSE WnafStep(s, len, w, g[b-1], b - 1)
  <2> SUFFICES ASSUME NEW b \in 0..len, b # 0 PROVE g[b] = WnafStep(s, len, w, g[b-1], b - 1)
    BY <1>4
  <2>1. b \in 1..len /\ <<b, g[b - 1]>> \in (1..len) \X WnafStates(len)
    BY <1>4
  <2> QED
    BY <1>4, <2>1
<1>6. g = [bit \in 0 .. len |-> IF bit = 0 THEN x ELSE WnafStep(s, len, w, g[bit-1], bit - 1)]
  BY <1>4, <1>5
<1>7. r = [bit \in 0 .. len |-> IF bit = 0 THEN x ELSE WnafStep(s, len, w, r[bit-1], bit - 1)]
  BY <1>6
<1>8. WnafOf(s, len, w, sign) = WnafEnd(r[len], s, len, sign)
  BY DEF WnafOf, x
<1> HIDE DEF r, f
<1>9. \A b \in 0 .. len : r[b] = IF b = 0 THEN x ELSE WnafStep(s, len, w, r[b-1], b - 1)
  BY <1>7
<1> DEFINE T == {b \in Nat : b <= len => WnafSound(s, len, w, r[b], b)}
<1>10. 0 \in T
  <2>1. r[0] = x
    BY <1>9
  <2>2. Two(0) = 1 /\ Position(x, 0) = 0 /\ (s % 1) = 0
    BY <1>1, TwoLaws DEF Position
  <2>3. Spaced(x.d, len, w, x.last)
    BY <1>1 DEF Spaced
  <2>4. Worth(x.d, len) = 0
    <3>1. Places(x.d, len) \in [1..len -> Int] /\ \A i \in 1..len : Places(x.d, len)[i] = 0
      BY <1>1 DEF Places
    <3>2. len \in Nat /\ 2 \in Int
      OBVIOUS
    <3>3. DigitSum(Places(x.d, len), 2) = 0
      BY <3>1, <3>2, HornerZero
    <3> QED
      BY <3>3 DEF Worth
  <2>5. Adds(s, len, x.d, x.carry, 0) /\ Carried(s, x.carry, 0) /\ Reaches(s, x.last, 0)
    BY <1>1, <2>2, <2>4 DEF Adds, Carried, Reaches
  <2>6. x.last \in -1 .. 0-1 /\ x.next = NextOf(len, w, x.last)
    BY <1>1 DEF NextOf
  <2>7. WnafSound(s, len, w, x, 0)
    BY <1>1, <2>2, <2>3, <2>5, <2>6 DEF WnafSound
  <2> QED
    BY <2>1, <2>7
<1>11. ASSUME NEW b \in Nat, b \in T PROVE b + 1 \in T
  <2> SUFFICES ASSUME b + 1 <= len PROVE WnafSound(s, len, w, r[b + 1], b + 1)
    OBVIOUS
  <2>1. /\ b \in 0 .. len-1 /\ b \in 0..len /\ b + 1 \in 0..len /\ b + 1 # 0 /\ (b + 1) - 1 = b
        /\ WnafSound(s, len, w, r[b], b)
    BY <1>11
  <2>2. r[b + 1] = WnafStep(s, len, w, r[b], b)
    BY <1>9, <2>1
  <2>3. PICK st : st = r[b]
    OBVIOUS
  <2>4. WnafSound(s, len, w, st, b) /\ st.next \in Nat
    BY <2>1, <2>3 DEF WnafSound, WnafStates
  <2>5. CASE b < st.next
    <3>1. WnafStep(s, len, w, st, b) = st
      BY <2>5 DEF WnafStep
    <3> QED
      BY <2>2, <2>3, <2>4, <2>5, <3>1, WnafWaits
  <2>6. CASE b >= st.next /\ Bits(s, b, 1) = st.carry
    <3>1. WnafStep(s, len, w, st, b) = st
      BY <2>6 DEF WnafStep
    <3> QED
      BY <2>2, <2>3, <2>4, <2>6, <3>1, WnafSkips
  <2>7. CASE b >= st.next /\ Bits(s, b, 1) # st.carry
    <3>1. PICK now \in Nat : now = IF w > len - b THEN len - b ELSE w
      <4>1. len - b \in Nat
        BY <2>1
      <4> QED
        BY <4>1
    <3>2. WnafStep(s, len, w, st, b) = WnafDigit(s, b, now, w, st)
      BY <2>4, <2>7, <3>1 DEF WnafStep
    <3>3. WnafSound(s, len, w, WnafDigit(s, b, now, w, st), b + 1)
      BY <2>1, <2>4, <2>7, <3>1, WnafTakes
    <3> QED
      BY <2>2, <2>3, <3>2, <3>3
  <2> QED
    BY <2>4, <2>5, <2>6, <2>7
<1>12. WnafSound(s, len, w, r[len], len)
  <2>1. Nat \subseteq T
    <3> HIDE DEF T
    <3> QED
      BY <1>10, <1>11, NatInductive
  <2> QED
    BY <2>1
<1> QED
  BY <1>8, <1>12

\* The digits, with the sign: what a recoding promises of s, whatever it is for.
Recodes(wnaf, s, len, w, sign) ==
  /\ wnaf.ok
  /\ Worth(wnaf.d, len) = sign * s
  /\ \A i \in 0 .. len-1 : wnaf.d[i] # 0 =>
       /\ DigitOk(wnaf.d[i], w)
       /\ i < wnaf.bits
       /\ \A j \in i+1 .. len-1 : wnaf.d[j] # 0 => j >= i + w
  /\ wnaf.bits = 0 \/ 2^(wnaf.bits - 1) <= 2 * s

LEMMA DigitNegated ==
  ASSUME NEW w \in Nat \ {0}, NEW n \in Int, DigitOk(n, w)
  PROVE  DigitOk(-n, w)
<1>1. PICK V \in Int : V = 2^(w-1)
  <2>1. w - 1 \in Nat
    OBVIOUS
  <2>2. Two(w - 1) \in Nat
    BY <2>1, TwoLaws
  <2> QED
    BY <2>2 DEF Two
<1>2. (n % 2) = 1 /\ n >= -(V - 1) /\ n <= V - 1
  BY <1>1 DEF DigitOk
<1>3. ((-n) % 2) = 1 /\ -n >= -(V - 1) /\ -n <= V - 1
  BY <1>2
<1> QED
  BY <1>1, <1>3 DEF DigitOk

LEMMA WnafOfRecodes ==
  ASSUME NEW len \in Nat \ {0}, NEW s \in Nat, s < Two(len - 1), NEW w \in Nat, w >= 2, NEW sign \in {-1, 1}
  PROVE  Recodes(WnafOf(s, len, w, sign), s, len, w, sign)
<1>1. PICK st : WnafSound(s, len, w, st, len) /\ WnafOf(s, len, w, sign) = WnafEnd(st, s, len, sign)
  BY WnafRuns
<1>2. /\ st \in WnafStates(len) /\ st.carry \in {0, 1} /\ st.d \in [0 .. len-1 -> Int]
      /\ st.last \in -1 .. len-1 /\ st.next = NextOf(len, w, st.last) /\ Spaced(st.d, len, w, st.last)
  BY <1>1 DEF WnafSound, WnafStates
<1>3. Position(st, len) = len
  BY <1>2 DEF Position, NextOf
<1>4. PICK T \in Nat \ {0} : T = Two(len) /\ s < T /\ 2 * s < T
  <2>1. len - 1 \in Nat /\ (len - 1) + 1 = len
    OBVIOUS
  <2>2. PICK h \in Nat \ {0} : h = Two(len - 1) /\ Two(len) = 2 * h
    BY <2>1, TwoLaws
  <2> QED
    BY <2>2
<1>5. (s % Two(len)) = s /\ s \div 2^len = 0
  <2>1. (s % T) = s /\ (s \div T) = 0
    BY <1>4
  <2> QED
    BY <1>4, <2>1 DEF Two
<1>6. st.carry = 0
  <2>1. CASE st.carry = 1
    <3>1. 2 * s >= T
      BY <1>1, <1>3, <1>4, <1>5, <2>1 DEF WnafSound, Carried
    <3> QED
      BY <1>4, <3>1
  <2> QED
    BY <1>2, <2>1
<1>7. Worth(st.d, len) = s
  <2>1. Worth(st.d, len) = s - 0 * T
    BY <1>1, <1>3, <1>4, <1>5, <1>6, Zenon DEF WnafSound, Adds
  <2> QED
    BY <2>1
<1>8. st.last # -1 => 2 * s >= Two(st.last)
  BY <1>1, <1>3, <1>5 DEF WnafSound, Reaches
<1>9. PICK wn : wn = WnafOf(s, len, w, sign)
  OBVIOUS
<1>10. /\ wn.d = [i \in 0 .. len-1 |-> sign * st.d[i]] /\ wn.bits = st.last + 1
       /\ wn.ok = (st.carry = 0 /\ s \div 2^len = 0)
  BY <1>1, <1>9 DEF WnafEnd
<1>11. \A i \in 0 .. len-1 : wn.d[i] = sign * st.d[i] /\ st.d[i] \in Int
  BY <1>2, <1>10
<1>12. Worth(wn.d, len) = sign * s
  <2>1. Places(st.d, len) \in [1..len -> Int] /\ len \in Nat /\ 2 \in Int /\ sign \in Int
    BY <1>2 DEF Places
  <2>2. Places(wn.d, len) \in [1..len -> Int] /\ \A i \in 1..len : Places(wn.d, len)[i] = sign * Places(st.d, len)[i]
    <3>1. \A i \in 1..len : wn.d[i - 1] = sign * st.d[i - 1] /\ sign * st.d[i - 1] \in Int
      BY <1>11, <2>1
    <3> QED
      BY <3>1 DEF Places
  <2>3. DigitSum(Places(wn.d, len), 2) = sign * DigitSum(Places(st.d, len), 2)
    <3>1. Scaled(Places(wn.d, len), Places(st.d, len), len, sign)
      BY <2>1, <2>2 DEF Scaled
    <3> QED
      BY <2>1, <3>1, HornerScales
  <2> QED
    BY <1>7, <2>3, Zenon DEF Worth
<1>13. ASSUME NEW i \in 0 .. len-1, wn.d[i] # 0
       PROVE  /\ DigitOk(wn.d[i], w) /\ i < wn.bits
              /\ \A j \in i+1 .. len-1 : wn.d[j] # 0 => j >= i + w
  <2>1. \A j \in 0 .. len-1 : wn.d[j] # 0 => st.d[j] # 0
    BY <1>11
  <2>2. /\ st.d[i] # 0 /\ i <= st.last /\ DigitOk(st.d[i], w)
        /\ \A j \in i+1 .. len-1 : st.d[j] # 0 => j >= i + w
    BY <1>2, <1>13, <2>1 DEF Spaced
  <2>3. DigitOk(wn.d[i], w)
    <3>1. PICK n \in Int : n = st.d[i]
      BY <1>11
    <3>2. CASE sign = 1
      <4>1. wn.d[i] = n
        BY <1>11, <3>1, <3>2
      <4> QED
        BY <2>2, <3>1, <4>1
    <3>3. CASE sign = -1
      <4>1. wn.d[i] = -n
        BY <1>11, <3>1, <3>3
      <4>2. w \in Nat \ {0}
        OBVIOUS
      <4> QED
        BY <2>2, <3>1, <4>1, <4>2, DigitNegated
    <3> QED
      BY <3>2, <3>3
  <2>4. i < wn.bits
    BY <1>2, <1>10, <2>2
  <2>5. \A j \in i+1 .. len-1 : wn.d[j] # 0 => j >= i + w
    BY <2>1, <2>2
  <2> QED
    BY <2>3, <2>4, <2>5
<1>14. wn.bits = 0 \/ 2^(wn.bits - 1) <= 2 * s
  <2> SUFFICES ASSUME wn.bits # 0 PROVE 2^(wn.bits - 1) <= 2 * s
    OBVIOUS
  <2>1. st.last # -1 /\ wn.bits - 1 = st.last /\ st.last \in Nat
    <3>1. PICK n \in -1 .. len-1 : n = st.last /\ wn.bits = n + 1
      BY <1>2, <1>10
    <3>2. n # -1 /\ (n + 1) - 1 = n /\ n \in Nat
      BY <3>1
    <3> QED
      BY <3>1, <3>2
  <2>2. 2 * s >= Two(st.last) /\ Two(st.last) \in Nat
    BY <1>8, <2>1, TwoLaws
  <2>3. 2^(wn.bits - 1) = Two(st.last)
    BY <2>1 DEF Two
  <2> QED
    BY <2>2, <2>3
<1>15. wn.ok
  BY <1>5, <1>6, <1>10
<1> QED
  BY <1>9, <1>12, <1>13, <1>14, <1>15 DEF Recodes

\* ecmult_wnaf, for every scalar.
LEMMA WnafIsExact ==
  ASSUME k \in 0 .. Order-1, NEW w \in {WINDOW_A, WINDOW_G}
  PROVE  WnafExact(ecmult_wnaf(ScalarBits, k, w), w)
<1>1. /\ ScalarBits \in Nat \ {0} /\ w \in Nat /\ w >= 2 /\ Order \in Nat \ {0}
      /\ 2^(ScalarBits - 1) < Order /\ Order < 2^ScalarBits
  BY EcmultAssumption, OrderFacts
<1>2. PICK H \in Nat \ {0} : H = Two(ScalarBits - 1) /\ H < Order /\ Order < 2 * H
  <2>1. ScalarBits - 1 \in Nat /\ (ScalarBits - 1) + 1 = ScalarBits
    BY <1>1
  <2>2. PICK h \in Nat \ {0} : h = Two(ScalarBits - 1) /\ Two(ScalarBits) = 2 * h
    BY <2>1, TwoLaws
  <2> QED
    BY <1>1, <2>2 DEF Two
<1>3. Bits(k, ScalarBits - 1, 1) = IF k >= H THEN 1 ELSE 0
  <2>1. 2^1 = 2
    <3>1. Two(0) = 1 /\ Two(0 + 1) = 2 * Two(0) /\ 0 + 1 = 1
      BY TwoLaws
    <3> QED
      BY <3>1 DEF Two
  <2>2. Bits(k, ScalarBits - 1, 1) = ((k \div H) % 2)
    BY <1>2, <2>1 DEF Bits, Two
  <2>3. CASE k >= H
    <3>1. (k \div H) = 1
      <4>1. k = 1 * H + (k - H) /\ k - H \in 0 .. H-1
        BY <1>1, <1>2, <2>3
      <4> QED
        BY <1>2, <4>1
    <3> QED
      BY <2>2, <2>3, <3>1
  <2>4. CASE ~(k >= H)
    <3>1. (k \div H) = 0
      BY <1>2, <2>4
    <3> QED
      BY <2>2, <2>4, <3>1
  <2> QED
    BY <2>3, <2>4
<1>4. PICK s \in Nat, sign \in {-1, 1} :
        /\ ecmult_wnaf(ScalarBits, k, w) = WnafOf(s, ScalarBits, w, sign)
        /\ s < H /\ ((sign * s) % Order) = k /\ Abs(k) = s
  <2>1. CASE k >= H
    <3>1. PICK s \in Nat : s = Order - k /\ s < H
      BY <1>1, <1>2, <2>1
    <3>2. ((-1 * s) % Order) = k
      <4>1. -1 * s = (-1) * Order + k
        BY <1>1, <3>1
      <4> QED
        BY <1>1, <3>1, <4>1
    <3>3. Abs(k) = s
      BY <1>2, <2>1, <3>1 DEF Abs, Two
    <3>4. ecmult_wnaf(ScalarBits, k, w) = WnafOf(s, ScalarBits, w, -1)
      BY <1>3, <2>1, <3>1 DEF ecmult_wnaf
    <3> QED
      BY <3>1, <3>2, <3>3, <3>4
  <2>2. CASE ~(k >= H)
    <3>1. k \in Nat /\ k < H /\ ((1 * k) % Order) = k
      BY <1>1, <1>2, <2>2
    <3>2. Abs(k) = k
      BY <1>2, <2>2 DEF Abs, Two
    <3>3. ecmult_wnaf(ScalarBits, k, w) = WnafOf(k, ScalarBits, w, 1)
      BY <1>3, <2>2 DEF ecmult_wnaf
    <3> QED
      BY <3>1, <3>2, <3>3
  <2> QED
    BY <2>1, <2>2
<1>5. PICK wn : wn = ecmult_wnaf(ScalarBits, k, w) /\ wn = WnafOf(s, ScalarBits, w, sign)
  BY <1>4
<1>6. Recodes(wn, s, ScalarBits, w, sign)
  <2>1. s < Two(ScalarBits - 1)
    BY <1>2, <1>4
  <2> QED
    BY <1>1, <1>5, <2>1, WnafOfRecodes
<1>7. DigitSum([i \in 1 .. ScalarBits |-> wn.d[i-1]], 2) % Order = k
  BY <1>4, <1>6 DEF Recodes, Worth, Places
<1> QED
  BY <1>4, <1>5, <1>6, <1>7 DEF WnafExact, Recodes

-----------------------------------------------------------------------------
(* Odd digits only.                                                        *)

\* The state of the constant-time loop: an odd digit to come, and the words
\* after it.
ConstStates == [s : Nat, u : Int, d : Int]
ConstSound(w, st) ==
  st \in ConstStates /\ (st.u % 2) = 1 /\ st.u >= -1 /\ st.u <= Two(w) - 1

LEMMA ConstStepSound ==
  ASSUME NEW w \in Nat, w >= 2, NEW st, ConstSound(w, st), NEW t, t = ConstStep(st, w)
  PROVE  /\ ConstSound(w, t) /\ DigitOk(t.d, w + 1)
         /\ t.d + Two(w) * (t.u + Two(w) * t.s) = st.u + Two(w) * st.s
         /\ Two(w) * t.s <= st.s
<1>1. PICK W \in Nat \ {0}, h \in Nat \ {0} : W = Two(w) /\ W = 2 * h /\ h >= 2
  <2>1. w - 2 \in Nat /\ w - 1 = (w - 2) + 1 /\ w = (w - 1) + 1 /\ w - 1 \in Nat
    OBVIOUS
  <2>2. PICK g \in Nat \ {0} : g = Two(w - 2) /\ Two(w - 1) = 2 * g
    BY <2>1, TwoLaws
  <2>3. PICK h \in Nat \ {0} : h = Two(w - 1) /\ h >= 2 /\ Two(w) = 2 * h
    BY <2>1, <2>2, TwoLaws
  <2> QED
    BY <2>3
<1>2. PICK s0 \in Nat, u0 \in Int : s0 = st.s /\ u0 = st.u /\ (u0 % 2) = 1 /\ u0 >= -1 /\ u0 <= W - 1
  BY <1>1 DEF ConstSound, ConstStates
<1>3. PICK u \in 0 .. W-1, q \in Nat : u = (s0 % W) /\ q = (s0 \div W) /\ s0 = q * W + u
  BY <1>1
<1>4. PICK even \in {0, 1} : even = Bool(u % 2 = 0)
  BY DEF Bool
<1>5. PICK sign \in {-1, 1} : sign = (IF u0 > 0 THEN 1 ELSE -1)
  OBVIOUS
<1>6. PICK z \in {-1, 0, 1} : z = sign * even
  BY <1>4, <1>5
<1>7. PICK zW \in Int : zW = z * W
  OBVIOUS
<1>8. t = [s |-> q, u |-> u + z, d |-> u0 - zW]
  <2>1. ConstStep(st, w) = [s |-> q, u |-> u + sign * even, d |-> u0 - (sign * even) * W]
    BY <1>1, <1>2, <1>3, <1>4, <1>5, Zenon DEF ConstStep, Two
  <2> QED
    BY <1>6, <1>7, <2>1
<1>9. t.s = q /\ t.u = u + z /\ t.d = u0 - zW
  BY <1>8
<1>10. (u % 2 = 0 /\ ((z = 1 /\ u0 > 0) \/ (z = -1 /\ ~(u0 > 0)))) \/ (u % 2 = 1 /\ z = 0)
  <2>1. CASE u % 2 = 0
    <3>1. even = 1
      BY <1>4, <2>1 DEF Bool
    <3>2. z = sign
      <4>1. sign * 1 = sign
        OBVIOUS
      <4> QED
        BY <1>6, <3>1, <4>1, Zenon
    <3> QED
      BY <1>5, <2>1, <3>2
  <2>2. CASE ~(u % 2 = 0)
    <3>1. even = 0 /\ (u % 2) = 1
      BY <1>4, <2>2 DEF Bool
    <3>2. z = 0
      BY <1>6, <3>1
    <3> QED
      BY <3>1, <3>2
  <2> QED
    BY <2>1, <2>2
<1>11. u <= W - 2 \/ (u % 2) = 1
  BY <1>1
<1>12. ((u + z) % 2) = 1 /\ u + z >= -1 /\ u + z <= W - 1
  <2>1. CASE u % 2 = 0 /\ z = 1
    BY <1>11, <2>1
  <2>2. CASE u % 2 = 0 /\ z = -1
    BY <2>2
  <2>3. CASE u % 2 = 1 /\ z = 0
    BY <2>3
  <2> QED
    BY <1>10, <2>1, <2>2, <2>3
<1>13. ConstSound(w, t)
  <2>1. t \in ConstStates
    BY <1>8 DEF ConstStates
  <2> QED
    BY <1>1, <1>9, <1>12, <2>1 DEF ConstSound
<1>14. ((u0 - zW) % 2) = 1 /\ u0 - zW >= -(W - 1) /\ u0 - zW <= W - 1
  <2>1. CASE z = 0
    <3>1. zW = 0
      BY <1>7, <2>1
    <3> QED
      BY <1>1, <1>2, <3>1
  <2>2. CASE z = 1 /\ u0 > 0
    <3>1. zW = 2 * h
      BY <1>1, <1>7, <2>2
    <3> QED
      BY <1>1, <1>2, <2>2, <3>1
  <2>3. CASE z = -1 /\ ~(u0 > 0)
    <3>1. zW = -(2 * h)
      BY <1>1, <1>7, <2>3
    <3>2. u0 = -1
      BY <1>2, <2>3
    <3> QED
      BY <1>1, <3>1, <3>2
  <2> QED
    BY <1>10, <2>1, <2>2, <2>3
<1>15. DigitOk(t.d, w + 1)
  <2>1. (w + 1) - 1 = w /\ 2^w = W
    BY <1>1 DEF Two
  <2>2. 2^((w+1)-1) = W
    BY <2>1
  <2> QED
    BY <1>9, <1>14, <2>2 DEF DigitOk
<1>16. t.d + W * (t.u + W * t.s) = u0 + W * s0
  <2>1. PICK y \in Int : y = q * W /\ W * q = y
    OBVIOUS
  <2>2. W * ((u + z) + y) = (W * (y + u)) + zW
    <3>1. W * ((u + z) + y) = W * (y + u) + W * z /\ W * z = z * W
      OBVIOUS
    <3> QED
      BY <1>7, <3>1
  <2>3. PICK x \in Int : x = W * s0
    OBVIOUS
  <2>4. s0 = y + u
    BY <1>3, <2>1
  <2>5. t.d + W * (t.u + W * t.s) = (u0 - zW) + W * ((u + z) + y)
    BY <1>9, <2>1, Zenon
  <2>6. (u0 - zW) + W * ((u + z) + y) = (u0 - zW) + (x + zW)
    BY <2>2, <2>3, <2>4, Zenon
  <2>7. (u0 - zW) + (x + zW) = u0 + x
    OBVIOUS
  <2> QED
    BY <2>3, <2>5, <2>6, <2>7, Zenon
<1>17. W * t.s <= s0
  <2>1. PICK y \in Int : y = q * W /\ W * q = y
    OBVIOUS
  <2> QED
    BY <1>3, <1>9, <2>1
<1> QED
  BY <1>1, <1>2, <1>13, <1>15, <1>16, <1>17

ConstStart(s, w) == [s |-> s \div 2^w, u |-> s % 2^w, d |-> 0]

LEMMA ConstStartSound ==
  ASSUME NEW w \in Nat, w >= 2, NEW s \in Nat, s % 2 = 1
  PROVE  LET x == ConstStart(s, w)
         IN  ConstSound(w, x) /\ x.u + Two(w) * x.s = s /\ Two(w) * x.s <= s
<1>1. PICK W \in Nat \ {0}, h \in Nat \ {0} : W = Two(w) /\ W = 2 * h
  <2>1. w = (w - 1) + 1 /\ w - 1 \in Nat
    OBVIOUS
  <2>2. PICK h \in Nat \ {0} : h = Two(w - 1) /\ Two(w) = 2 * h
    BY <2>1, TwoLaws
  <2> QED
    BY <2>2
<1>2. PICK u \in 0 .. W-1, q \in Nat : u = (s % W) /\ q = (s \div W) /\ s = q * W + u
  BY <1>1
<1>3. PICK y \in Int : y = q * h /\ q * W = 2 * y /\ W * q = 2 * y
  <2>1. q * (2 * h) = 2 * (q * h) /\ (2 * h) * q = 2 * (q * h) /\ q * h \in Int
    OBVIOUS
  <2> QED
    BY <1>1, <2>1
<1>4. (u % 2) = 1
  BY <1>2, <1>3
<1>5. PICK x : x = ConstStart(s, w) /\ x = [s |-> q, u |-> u, d |-> 0]
  BY <1>1, <1>2 DEF ConstStart, Two
<1>6. x.s = q /\ x.u = u /\ x \in ConstStates
  BY <1>5 DEF ConstStates
<1>7. ConstSound(w, x)
  BY <1>1, <1>4, <1>6 DEF ConstSound
<1>8. x.u + W * x.s = s /\ W * x.s <= s
  BY <1>2, <1>3, <1>6
<1> QED
  BY <1>1, <1>5, <1>7, <1>8

\* The loop's states: each step as far as the next, and nothing left at the end.
ConstRun(r, s, w, n) ==
  /\ r[0] = ConstStart(s, w)
  /\ \A i \in 0..n : ConstSound(w, r[i])
  /\ \A i \in 1..n : r[i] = ConstStep(r[i-1], w)

LEMMA ConstRuns ==
  ASSUME NEW w \in Nat, w >= 2, NEW s \in Nat, s % 2 = 1, NEW n \in Nat, n = WNAF_SIZE(w)
  PROVE  \E r : /\ ConstRun(r, s, w, n)
                /\ ConstDigits(s, w) = [d |-> [i \in 1 .. n+1 |-> IF i > n THEN r[n].u ELSE r[i].d],
                                        ok |-> r[n].s = 0]
<1> DEFINE S == {st \in ConstStates : ConstSound(w, st)}
           x == ConstStart(s, w)
           r == CHOOSE h : h = [word \in 0 .. n |-> IF word = 0 THEN x ELSE ConstStep(h[word-1], w)]
           f == [p \in (1..n) \X S |-> ConstStep(p[2], w)]
<1>1. x \in S
  BY ConstStartSound DEF ConstSound
<1>2. ConstDigits(s, w) = [d |-> [i \in 1 .. n+1 |-> IF i > n THEN r[n].u ELSE r[i].d], ok |-> r[n].s = 0]
  BY DEF ConstDigits, ConstStart
<1> HIDE DEF x
<1>3. ASSUME NEW st \in S PROVE ConstStep(st, w) \in S
  BY ConstStepSound DEF ConstSound
<1>4. Steps(f, S, n)
  <2>1. ASSUME NEW p \in (1..n) \X S PROVE ConstStep(p[2], w) \in S
    BY <1>3
  <2> HIDE DEF S
  <2> QED
    BY <2>1 DEF Steps
<1>5. PICK g : LoopOf(g, S, n, x, f)
  <2> HIDE DEF f, S
  <2> QED
    BY <1>1, <1>4, LoopExists
<1> HIDE DEF S
<1>6. g \in [0..n -> S] /\ g[0] = x /\ \A b \in 1..n : g[b] = f[<<b, g[b - 1]>>]
  BY <1>5 DEF LoopOf
<1>7. \A b \in 0..n : g[b] = IF b = 0 THEN x ELSE ConstStep(g[b-1], w)
  <2> SUFFICES ASSUME NEW b \in 0..n, b # 0 PROVE g[b] = ConstStep(g[b-1], w)
    BY <1>6
  <2>1. b \in 1..n /\ <<b, g[b - 1]>> \in (1..n) \X S
    BY <1>6
  <2> QED
    BY <1>6, <2>1
<1>8. g = [word \in 0 .. n |-> IF word = 0 THEN x ELSE ConstStep(g[word-1], w)]
  BY <1>6, <1>7
<1>9. r = [word \in 0 .. n |-> IF word = 0 THEN x ELSE ConstStep(r[word-1], w)]
  BY <1>8
<1> HIDE DEF r, f
<1>10. r[0] = x /\ \A i \in 1..n : r[i] = ConstStep(r[i-1], w)
  <2>1. \A i \in 0..n : r[i] = IF i = 0 THEN x ELSE ConstStep(r[i-1], w)
    BY <1>9
  <2> QED
    BY <2>1
<1> DEFINE T == {i \in Nat : i <= n => r[i] \in S}
<1>11. 0 \in T
  BY <1>1, <1>10
<1>12. ASSUME NEW i \in Nat, i \in T PROVE i + 1 \in T
  <2> SUFFICES ASSUME i + 1 <= n PROVE r[i + 1] \in S
    OBVIOUS
  <2>1. r[i] \in S /\ i + 1 \in 1..n /\ (i + 1) - 1 = i
    BY <1>12
  <2>2. r[i + 1] = ConstStep(r[i], w)
    BY <1>10, <2>1
  <2> QED
    BY <1>3, <2>1, <2>2
<1>13. \A i \in 0..n : r[i] \in S
  <2>1. Nat \subseteq T
    <3> HIDE DEF T
    <3> QED
      BY <1>11, <1>12, NatInductive
  <2> QED
    BY <2>1
<1>14. ConstRun(r, s, w, n)
  <2>1. \A i \in 0..n : ConstSound(w, r[i])
    BY <1>13 DEF S
  <2> QED
    BY <1>10, <2>1 DEF ConstRun, x
<1> QED
  BY <1>2, <1>14

\* Nothing is left after the last word.
LEMMA ConstEmpties ==
  ASSUME NEW w \in Nat, w >= 2, NEW s \in Nat, s % 2 = 1, NEW n \in Nat, NEW r, ConstRun(r, s, w, n),
         s < Two(w * (n + 1))
  PROVE  r[n].s = 0
<1>1. PICK W \in Nat \ {0} : W = Two(w)
  BY TwoLaws
<1>2. \A i \in 0..n : ConstSound(w, r[i]) /\ r[i].s \in Nat
  BY DEF ConstRun, ConstSound, ConstStates
<1> DEFINE T == {i \in Nat : i <= n => Two(w * (i + 1)) * r[i].s <= s}
<1>3. 0 \in T
  <2>1. w * (0 + 1) = w
    OBVIOUS
  <2> QED
    BY <2>1, ConstStartSound DEF ConstRun
<1>4. ASSUME NEW i \in Nat, i \in T PROVE i + 1 \in T
  <2> SUFFICES ASSUME i + 1 <= n PROVE Two(w * ((i + 1) + 1)) * r[i + 1].s <= s
    OBVIOUS
  <2>1. i + 1 \in 1..n /\ i + 1 \in 0..n /\ i \in 0..n /\ (i + 1) - 1 = i /\ i <= n
    OBVIOUS
  <2>2. PICK q \in Nat, p \in Nat : q = r[i + 1].s /\ p = r[i].s /\ W * q <= p
    <3>1. r[i + 1] = ConstStep(r[i], w) /\ ConstSound(w, r[i])
      BY <1>2, <2>1 DEF ConstRun
    <3>2. Two(w) * r[i + 1].s <= r[i].s
      BY <3>1, ConstStepSound
    <3> QED
      BY <1>1, <1>2, <2>1, <3>2
  <2>3. PICK m \in Nat : m = w * (i + 1) /\ w * ((i + 1) + 1) = m + w
    <3>1. w * (i + 1) \in Nat /\ w * ((i + 1) + 1) = w * (i + 1) + w
      OBVIOUS
    <3> QED
      BY <3>1
  <2>4. PICK A \in Nat : A = Two(m) /\ Two(m + w) = A * W
    BY <1>1, TwoLaws, TwoSum
  <2>5. A * p <= s
    BY <1>4, <2>1, <2>2, <2>3, <2>4
  <2>6. A * (W * q) <= A * p
    <3>1. PICK e \in Nat, y \in Nat : y = W * q /\ p = y + e
      <4>1. W * q \in Nat
        OBVIOUS
      <4>2. PICK y \in Nat : y = W * q
        BY <4>1
      <4>3. p - y \in Nat /\ p = y + (p - y)
        BY <2>2, <4>2
      <4> QED
        BY <4>2, <4>3
    <3>2. A * (y + e) = A * y + A * e /\ A * e \in Nat /\ A * y \in Nat
      OBVIOUS
    <3> QED
      BY <3>1, <3>2
  <2>7. (A * W) * q = A * (W * q) /\ A * (W * q) \in Nat /\ A * p \in Nat
    OBVIOUS
  <2> QED
    BY <2>2, <2>3, <2>4, <2>5, <2>6, <2>7
<1>5. Two(w * (n + 1)) * r[n].s <= s
  <2>1. Nat \subseteq T
    <3> HIDE DEF T
    <3> QED
      BY <1>3, <1>4, NatInductive
  <2> QED
    BY <2>1
<1>6. PICK A \in Nat \ {0}, q \in Nat : A = Two(w * (n + 1)) /\ q = r[n].s
  <2>1. PICK m \in Nat : m = w * (n + 1)
    <3>1. w * (n + 1) \in Nat
      OBVIOUS
    <3> QED
      BY <3>1
  <2>2. Two(m) \in Nat \ {0} /\ n \in 0..n
    BY TwoLaws
  <2>3. Two(w * (n + 1)) \in Nat \ {0}
    BY <2>1, <2>2, Zenon
  <2>4. r[n].s \in Nat
    BY <1>2, <2>2
  <2> QED
    BY <2>3, <2>4, Zenon
<1>7. CASE q >= 1
  <2>1. q * A >= A /\ q * A = A * q
    BY <1>7, MultipleFar
  <2>2. PICK y \in Int : y = A * q
    OBVIOUS
  <2> QED
    BY <1>5, <1>6, <2>1, <2>2
<1> QED
  BY <1>6, <1>7

LEMMA ConstDigitsExact ==
  ASSUME NEW w \in Nat, w >= 2, NEW s \in Nat, s % 2 = 1, NEW n \in Nat, n = WNAF_SIZE(w),
         s < Two(w * (n + 1)), NEW c, c = ConstDigits(s, w)
  PROVE  /\ c.ok /\ c.d \in [1 .. n+1 -> Int] /\ DigitSum(c.d, 2^w) = s
         /\ \A i \in 1 .. n+1 : DigitOk(c.d[i], w + 1)
<1>1. PICK r : /\ ConstRun(r, s, w, n)
               /\ ConstDigits(s, w) = [d |-> [i \in 1 .. n+1 |-> IF i > n THEN r[n].u ELSE r[i].d],
                                       ok |-> r[n].s = 0]
  BY ConstRuns, Zenon
<1>2. r[n].s = 0
  <2>1. ConstRun(r, s, w, n)
    BY <1>1, Zenon
  <2> QED
    BY <2>1, ConstEmpties, ZenonT(60)
<1>3. PICK d : d = [i \in 1 .. n+1 |-> IF i > n THEN r[n].u ELSE r[i].d] /\ c.d = d /\ c.ok
  <2>1. PICK d : d = [i \in 1 .. n+1 |-> IF i > n THEN r[n].u ELSE r[i].d]
    OBVIOUS
  <2>2. c = [d |-> d, ok |-> r[n].s = 0]
    BY <1>1, <2>1, Zenon
  <2>3. c.d = d /\ c.ok = (r[n].s = 0)
    BY <2>2
  <2>4. c.ok
    BY <1>2, <2>3
  <2> QED
    BY <2>1, <2>3, <2>4, Zenon
<1>4. \A i \in 0..n : ConstSound(w, r[i]) /\ r[i].u \in Int /\ r[i].d \in Int /\ r[i].s \in Nat
  BY <1>1 DEF ConstRun, ConstSound, ConstStates
<1>5. d \in [1 .. n+1 -> Int] /\ d[n + 1] = r[n].u /\ \A i \in 1..n : d[i] = r[i].d
  <2>1. \A i \in 1 .. n+1 : (IF i > n THEN r[n].u ELSE r[i].d) \in Int
    <3> SUFFICES ASSUME NEW i \in 1 .. n+1 PROVE (IF i > n THEN r[n].u ELSE r[i].d) \in Int
      OBVIOUS
    <3>1. CASE i > n
      BY <1>4, <3>1
    <3>2. CASE ~(i > n)
      <4>1. i \in 0..n
        BY <3>2
      <4> QED
        BY <1>4, <3>2, <4>1
    <3> QED
      BY <3>1, <3>2
  <2>2. n + 1 > n /\ n + 1 \in 1 .. n+1 /\ \A i \in 1..n : i \in 1 .. n+1 /\ ~(i > n)
    OBVIOUS
  <2> QED
    BY <1>3, <2>1, <2>2
<1>6. PICK W \in Nat \ {0} : W = Two(w) /\ W = 2^w
  BY TwoLaws DEF Two
<1>7. ASSUME NEW i \in 1..n
      PROVE  DigitOk(d[i], w + 1) /\ d[i] + W * (r[i].u + W * r[i].s) = r[i-1].u + W * r[i-1].s
  <2>1. i - 1 \in 0..n /\ r[i] = ConstStep(r[i-1], w)
    BY <1>1 DEF ConstRun
  <2>2. PICK a, t : a = r[i-1] /\ t = r[i] /\ ConstSound(w, a) /\ t = ConstStep(a, w)
    BY <1>4, <2>1
  <2>3. DigitOk(t.d, w + 1) /\ t.d + Two(w) * (t.u + Two(w) * t.s) = a.u + Two(w) * a.s
    BY <2>2, ConstStepSound
  <2> QED
    BY <1>5, <1>6, <2>2, <2>3
<1>8. DigitOk(d[n + 1], w + 1)
  <2>1. PICK u \in Int : u = r[n].u /\ (u % 2) = 1 /\ u >= -1 /\ u <= W - 1
    <3>1. n \in 0..n
      OBVIOUS
    <3> QED
      BY <1>4, <1>6, <3>1 DEF ConstSound
  <2>2. (w + 1) - 1 = w
    OBVIOUS
  <2>3. 2^((w+1)-1) = W
    BY <1>6, <2>2
  <2>4. u >= -(W - 1)
    <3>1. W >= 2
      <4>1. w - 1 \in Nat /\ (w - 1) + 1 = w
        OBVIOUS
      <4>2. PICK h \in Nat \ {0} : h = Two(w - 1) /\ Two(w) = 2 * h
        BY <4>1, TwoLaws
      <4>3. W = 2 * h
        BY <1>6, <4>2, Zenon
      <4> QED
        BY <4>3
    <3> QED
      BY <2>1, <3>1
  <2> QED
    BY <1>5, <2>1, <2>3, <2>4 DEF DigitOk
<1>9. PICK h : Horner(h, d, n + 1, W) /\ DigitSum(d, W) = h[1]
  <2>1. n + 1 \in Nat /\ W \in Int
    OBVIOUS
  <2> QED
    BY <1>5, <2>1, HornerExists
<1>10. h[(n + 1) + 1] = 0 /\ \A i \in 1 .. n+1 : h[i] = d[i] + W * h[i + 1]
  BY <1>9 DEF Horner
<1> DEFINE I == {i \in 1 .. n+1 : h[i] = r[i-1].u + W * r[i-1].s}
<1>11. n + 1 \in I
  <2>1. (n + 1) - 1 = n /\ n + 1 \in 1 .. n+1 /\ n \in 0..n
    OBVIOUS
  <2>2. h[n + 1] = r[n].u + W * 0
    BY <1>5, <1>10, <2>1
  <2> QED
    BY <1>2, <2>1, <2>2
<1>12. ASSUME NEW i \in 1 .. (n + 1) - 1, i + 1 \in I PROVE i \in I
  <2>1. i \in 1..n /\ i \in 1 .. n+1 /\ (i + 1) - 1 = i
    OBVIOUS
  <2>2. h[i + 1] = r[i].u + W * r[i].s
    BY <1>12, <2>1
  <2>3. h[i] = d[i] + W * (r[i].u + W * r[i].s)
    BY <1>10, <2>1, <2>2
  <2> QED
    BY <1>7, <2>1, <2>3
<1>13. h[1] = r[0].u + W * r[0].s
  <2>1. n + 1 \in Nat \ {0} /\ 1 \in 1 .. n+1 /\ 1 - 1 = 0
    OBVIOUS
  <2>2. \A i \in 1 .. n+1 : i \in I
    <3> HIDE DEF I
    <3> QED
      BY <1>11, <1>12, <2>1, Downward
  <2> QED
    BY <2>1, <2>2
<1>14. h[1] = s
  <2>1. r[0] = ConstStart(s, w)
    BY <1>1 DEF ConstRun
  <2>2. r[0].u + Two(w) * r[0].s = s
    BY <2>1, ConstStartSound
  <2> QED
    BY <1>6, <1>13, <2>2, Zenon
<1>15. \A i \in 1 .. n+1 : DigitOk(d[i], w + 1)
  <2> SUFFICES ASSUME NEW i \in 1 .. n+1 PROVE DigitOk(d[i], w + 1)
    OBVIOUS
  <2>1. CASE i = n + 1
    BY <1>8, <2>1
  <2>2. CASE i # n + 1
    <3>1. i \in 1..n
      BY <2>2
    <3> QED
      BY <1>7, <3>1
  <2> QED
    BY <2>1, <2>2
<1> QED
  BY <1>3, <1>5, <1>6, <1>9, <1>14, <1>15

-----------------------------------------------------------------------------
(* Splitting a scalar in two short ones.                                   *)

\* Rounding to the nearest.
LEMMA RoundedIs ==
  ASSUME NEW x \in Nat
  PROVE  \E e \in Int : /\ Rounded(x) \in Int /\ (2 * Order) * Rounded(x) = 2 * x + e
                        /\ e <= Order /\ -e <= Order
<1>1. PICK n \in Nat \ {0} : n = Order
  BY OrderFacts
<1>2. PICK d \in Nat \ {0}, y \in Nat : d = 2 * n /\ y = 2 * x + n
  OBVIOUS
<1>3. PICK q \in Int, r \in 0 .. d-1 : q = (y \div d) /\ y = q * d + r
  <2>1. (y \div d) \in Int /\ (y % d) \in 0 .. d-1 /\ y = (y \div d) * d + (y % d)
    OBVIOUS
  <2> QED
    BY <2>1
<1>4. Rounded(x) = q
  BY <1>1, <1>2, <1>3 DEF Rounded
<1>5. PICK t \in Int : t = d * q /\ q * d = t
  OBVIOUS
<1>6. t = 2 * x + (n - r) /\ n - r \in Int /\ n - r <= n /\ -(n - r) <= n
  BY <1>2, <1>3, <1>5
<1>7. (2 * Order) * Rounded(x) = t
  BY <1>1, <1>2, <1>4, <1>5, Zenon
<1> QED
  BY <1>1, <1>4, <1>6, <1>7

\* A factor no larger than n.
LEMMA FactorBound ==
  ASSUME NEW n \in Nat, NEW e \in Int, e <= n, -e <= n, NEW b \in Nat
  PROVE  e * b <= n * b /\ -(e * b) <= n * b
<1>1. (n - e) * b = n * b - e * b /\ (n + e) * b = n * b + e * b
  OBVIOUS
<1>2. PICK f \in Nat, g \in Nat : f = n - e /\ g = n + e
  OBVIOUS
<1>3. f * b \in Nat /\ g * b \in Nat
  OBVIOUS
<1>4. PICK x \in Int, y \in Int : x = n * b /\ y = e * b
  OBVIOUS
<1> QED
  BY <1>1, <1>2, <1>3, <1>4

LEMMA HalfBound ==
  ASSUME NEW n \in Nat \ {0}, NEW x \in Int, NEW y \in Int, NEW m \in Int,
         (2 * n) * x <= n * y, y <= 2 * m
  PROVE  x <= m
<1>1. CASE y - 2 * x <= -1
  <2>1. PICK z \in Int : z = y - 2 * x /\ z <= -1
    BY <1>1
  <2>2. z * n <= -n
    BY <2>1, MultipleFar
  <2>3. z * n = n * y - (2 * n) * x
    <3>1. (y - 2 * x) * n = n * y - (2 * n) * x
      OBVIOUS
    <3> QED
      BY <2>1, <3>1
  <2>4. PICK p \in Int, q \in Int : p = n * y /\ q = (2 * n) * x
    OBVIOUS
  <2> QED
    BY <2>2, <2>3, <2>4
<1> QED
  BY <1>1

\* A residue near a multiple of the order, above or below.
Short(r, m) == r \in 0 .. Order-1 /\ (r <= m \/ Order - r <= m)

LEMMA ShortMod ==
  ASSUME NEW x \in Int, NEW m \in Nat, x <= m, -x <= m
  PROVE  Short(x % Order, m)
<1>1. PICK n \in Nat \ {0} : n = Order
  BY OrderFacts
<1>2. PICK q \in Int, r \in 0 .. n-1 : r = (x % n) /\ x = q * n + r
  <2>1. (x \div n) \in Int /\ (x % n) \in 0 .. n-1 /\ x = (x \div n) * n + (x % n)
    OBVIOUS
  <2> QED
    BY <2>1
<1>3. PICK t \in Int : t = q * n
  OBVIOUS
<1>4. CASE q >= 0
  <2>1. t >= 0
    <3>1. q \in Nat
      BY <1>4
    <3>2. q * n \in Nat
      BY <3>1
    <3> QED
      BY <1>3, <3>2
  <2>2. r <= m
    BY <1>2, <1>3, <2>1
  <2> QED
    BY <1>1, <1>2, <2>2 DEF Short
<1>5. CASE q <= -1
  <2>1. t <= -n
    BY <1>3, <1>5, MultipleFar
  <2>2. n - r <= m
    BY <1>2, <1>3, <2>1
  <2> QED
    BY <1>1, <1>2, <2>2 DEF Short
<1> QED
  BY <1>4, <1>5

\* The identities of the split, without the names that go with them.
LEMMA SplitAlgebra ==
  ASSUME NEW n \in Int, NEW a \in Int, NEW b \in Int, NEW c \in Int, NEW p \in Int, NEW q \in Int,
         NEW d \in Int, NEW e \in Int, (2 * n) * p = 2 * (b * a) + d, (2 * n) * q = 2 * (c * a) + e,
         b * b + b * c + c * c = n
  PROVE  /\ (2 * n) * (p * c - q * b) = d * c - e * b
         /\ (2 * n) * ((a - p * b) - q * (b + c)) = -(d * b + e * (b + c))
<1>1. PICK x \in Int, y \in Int : x = (2 * n) * p /\ y = (2 * n) * q
  OBVIOUS
<1>2. (2 * n) * (p * c - q * b) = x * c - y * b
  <2>1. (2 * n) * (p * c - q * b) = ((2 * n) * p) * c - ((2 * n) * q) * b
    OBVIOUS
  <2> QED
    BY <1>1, <2>1
<1>3. x = 2 * (b * a) + d /\ y = 2 * (c * a) + e
  BY <1>1
<1>4. x * c - y * b = d * c - e * b
  <2>1. (2 * (b * a) + d) * c - (2 * (c * a) + e) * b = d * c - e * b
    OBVIOUS
  <2> QED
    BY <1>3, <2>1
<1>5. (2 * n) * ((a - p * b) - q * (b + c)) = (2 * a) * n - (x * b + y * (b + c))
  <2>1. (2 * n) * ((a - p * b) - q * (b + c))
          = (2 * a) * n - (((2 * n) * p) * b + ((2 * n) * q) * (b + c))
    OBVIOUS
  <2> QED
    BY <1>1, <2>1
<1>6. x * b + y * (b + c) = (2 * a) * n + (d * b + e * (b + c))
  <2>1. (2 * (b * a) + d) * b + (2 * (c * a) + e) * (b + c)
          = (2 * a) * (b * b + b * c + c * c) + (d * b + e * (b + c))
    OBVIOUS
  <2> QED
    BY <1>3, <2>1
<1>7. PICK t \in Int, v \in Int : t = d * b + e * (b + c) /\ v = (2 * a) * n
  OBVIOUS
<1>8. (2 * n) * ((a - p * b) - q * (b + c)) = v - (v + t)
  BY <1>5, <1>6, <1>7, Zenon
<1>9. v - (v + t) = -t
  OBVIOUS
<1> QED
  BY <1>2, <1>4, <1>7, <1>8, <1>9

LEMMA SplitLattice ==
  ASSUME NEW a \in Int, NEW b \in Int, NEW c \in Int, NEW l \in Int, NEW p \in Int, NEW q \in Int
  PROVE  (a - (p * c - q * b) * l) - ((a - p * b) - q * (b + c)) = p * (b - c * l) + q * (b + c + b * l)
<1>1. (p * c - q * b) * l = p * (c * l) - q * (b * l)
  OBVIOUS
<1>2. p * (b - c * l) = p * b - p * (c * l)
  <2>1. PICK z \in Int : z = c * l
    OBVIOUS
  <2>2. p * (b - z) = p * b - p * z
    OBVIOUS
  <2> QED
    BY <2>1, <2>2
<1>3. q * (b + c + b * l) = q * (b + c) + q * (b * l)
  <2>1. PICK z \in Int, y \in Int : z = b * l /\ y = b + c
    OBVIOUS
  <2>2. q * (y + z) = q * y + q * z
    OBVIOUS
  <2> QED
    BY <2>1, <2>2
<1>4. PICK u \in Int, v \in Int, x \in Int, y \in Int :
        u = p * (c * l) /\ v = q * (b * l) /\ x = p * b /\ y = q * (b + c)
  OBVIOUS
<1>5. (a - (u - v)) - ((a - x) - y) = (x - u) + (y + v)
  OBVIOUS
<1> QED
  BY <1>1, <1>2, <1>3, <1>4, <1>5, Zenon

\* Both halves of the split of a are short.
LEMMA SplitShort ==
  ASSUME NEW a \in 0 .. Order-1, NEW s, s = scalar_split_lambda(a)
  PROVE  Short(s.r1, Two(HalfBits)) /\ Short(s.r2, Two(HalfBits))
<1>1. PICK n \in Nat \ {0}, b \in Nat, c \in Nat, l \in Int :
        n = Order /\ b = B2 /\ c = MinusB1 /\ l = Lambda
  BY OrderFacts, EcmultAssumption, GroupAssumption
<1>2. a \in Nat /\ a \in Int /\ b \in Int /\ c \in Int /\ n \in Int
  BY <1>1
<1>3. b * b + b * c + c * c = n /\ ((b - c * l) % n) = 0 /\ ((b + c + b * l) % n) = 0
  BY <1>1, EcmultAssumption, Zenon
<1>4. PICK m \in Nat : m = Two(HalfBits) /\ 2 * b + c <= 2 * m
  <2>1. HalfBits \in Nat
    BY EcmultAssumption
  <2>2. PICK m \in Nat : m = Two(HalfBits) /\ Two(HalfBits + 1) = 2 * m
    BY <2>1, TwoLaws
  <2>3. 2 * B2 + MinusB1 <= Two(HalfBits + 1)
    BY EcmultAssumption DEF Two
  <2>4. 2 * b + c <= 2 * m
    BY <1>1, <2>2, <2>3
  <2> QED
    BY <2>2, <2>4
<1>5. b * a \in Nat /\ c * a \in Nat
  BY <1>2
<1>6. PICK d \in Int : /\ Rounded(b * a) \in Int /\ (2 * Order) * Rounded(b * a) = 2 * (b * a) + d
                       /\ d <= Order /\ -d <= Order
  <2>1. PICK x \in Nat : x = b * a
    BY <1>5
  <2> QED
    BY <2>1, RoundedIs
<1>7. PICK e \in Int : /\ Rounded(c * a) \in Int /\ (2 * Order) * Rounded(c * a) = 2 * (c * a) + e
                       /\ e <= Order /\ -e <= Order
  <2>1. PICK x \in Nat : x = c * a
    BY <1>5
  <2> QED
    BY <2>1, RoundedIs
<1>8. PICK p \in Int, q \in Int : p = Rounded(b * a) /\ q = Rounded(c * a)
  BY <1>6, <1>7
<1>9. (2 * n) * p = 2 * (b * a) + d /\ (2 * n) * q = 2 * (c * a) + e
  BY <1>1, <1>6, <1>7, <1>8, Zenon
<1>10. /\ (2 * n) * (p * c - q * b) = d * c - e * b
       /\ (2 * n) * ((a - p * b) - q * (b + c)) = -(d * b + e * (b + c))
  BY <1>2, <1>3, <1>9, SplitAlgebra
<1>11. d <= n /\ -d <= n /\ e <= n /\ -e <= n
  BY <1>1, <1>6, <1>7
<1>12. PICK x \in Int : x = p * c - q * b
  OBVIOUS
<1>13. PICK y \in Int : y = (a - p * b) - q * (b + c)
  BY <1>2
<1>14. x <= m /\ -x <= m
  <2>1. d * c <= n * c /\ -(d * c) <= n * c /\ e * b <= n * b /\ -(e * b) <= n * b
    BY <1>11, FactorBound
  <2>2. n * (b + c) = n * b + n * c
    OBVIOUS
  <2>3. PICK f \in Int, g \in Int, u \in Int, v \in Int : f = d * c /\ g = e * b /\ u = n * b /\ v = n * c
    OBVIOUS
  <2>4. (2 * n) * x = f - g
    BY <1>10, <1>12, <2>3, Zenon
  <2>5. (2 * n) * (-x) = -(f - g)
    <3>1. (2 * n) * (-x) = -((2 * n) * x)
      OBVIOUS
    <3> QED
      BY <2>4, <3>1, Zenon
  <2>6. f - g <= n * (b + c) /\ -(f - g) <= n * (b + c)
    BY <2>1, <2>2, <2>3
  <2>7. (2 * n) * x <= n * (b + c) /\ (2 * n) * (-x) <= n * (b + c)
    BY <2>4, <2>5, <2>6, Zenon
  <2>8. b + c \in Int /\ b + c <= 2 * m /\ -x \in Int /\ m \in Int
    BY <1>4
  <2>9. PICK z \in Int, t \in Int : z = b + c /\ t = -x
    BY <2>8
  <2>10. (2 * n) * x <= n * z /\ (2 * n) * t <= n * z /\ z <= 2 * m
    BY <2>7, <2>8, <2>9, Zenon
  <2> QED
    BY <2>8, <2>9, <2>10, HalfBound
<1>15. y <= m /\ -y <= m
  <2>1. PICK z \in Nat : z = b + c
    OBVIOUS
  <2>2. d * b <= n * b /\ -(d * b) <= n * b /\ e * z <= n * z /\ -(e * z) <= n * z
    BY <1>11, FactorBound
  <2>3. PICK w \in Int : w = b + z
    OBVIOUS
  <2>4. n * w = n * b + n * z
    BY <2>3
  <2>5. PICK f \in Int, g \in Int, u \in Int, v \in Int : f = d * b /\ g = e * z /\ u = n * b /\ v = n * z
    OBVIOUS
  <2>6. (2 * n) * y = -(f + g)
    BY <1>10, <1>13, <2>1, <2>5, Zenon
  <2>7. PICK t \in Int : t = -y
    OBVIOUS
  <2>8. (2 * n) * t = f + g
    <3>1. (2 * n) * (-y) = -((2 * n) * y) /\ -(-(f + g)) = f + g
      OBVIOUS
    <3> QED
      BY <2>6, <2>7, <3>1, Zenon
  <2>9. -(f + g) <= n * w /\ f + g <= n * w
    BY <2>2, <2>4, <2>5
  <2>10. (2 * n) * y <= n * w /\ (2 * n) * t <= n * w
    BY <2>6, <2>8, <2>9, Zenon
  <2>11. w <= 2 * m /\ m \in Int
    BY <1>4, <2>1, <2>3
  <2> QED
    BY <2>7, <2>10, <2>11, HalfBound
<1>16. s = [r1 |-> (a - x * l) % n, r2 |-> x % n]
  BY <1>1, <1>8, <1>12, Zenon DEF scalar_split_lambda, SplitOf
<1>17. Short(x % n, m) /\ Short(y % n, m)
  BY <1>1, <1>14, <1>15, ShortMod
<1>18. ((a - x * l) % n) = (y % n)
  <2>1. PICK f \in Int : b - c * l = f * n
    <3>1. PICK z \in Int : z = b - c * l
      OBVIOUS
    <3>2. PICK j \in Int, r \in Int : r = (z % n) /\ z = j * n + r
      <4>1. z = (z \div n) * n + (z % n) /\ (z \div n) \in Int /\ (z % n) \in Int
        OBVIOUS
      <4> QED
        BY <4>1
    <3>3. r = 0
      BY <1>3, <3>1, <3>2, Zenon
    <3>4. z = j * n
      BY <3>2, <3>3
    <3> QED
      BY <3>1, <3>4, Zenon
  <2>2. PICK g \in Int : b + c + b * l = g * n
    <3>1. PICK z \in Int : z = b + c + b * l
      OBVIOUS
    <3>2. PICK j \in Int, r \in Int : r = (z % n) /\ z = j * n + r
      <4>1. z = (z \div n) * n + (z % n) /\ (z \div n) \in Int /\ (z % n) \in Int
        OBVIOUS
      <4> QED
        BY <4>1
    <3>3. r = 0
      BY <1>3, <3>1, <3>2, Zenon
    <3>4. z = j * n
      BY <3>2, <3>3
    <3> QED
      BY <3>1, <3>4, Zenon
  <2>3. (a - x * l) - y = p * (b - c * l) + q * (b + c + b * l)
    <3>1. (a - (p * c - q * b) * l) - ((a - p * b) - q * (b + c)) = p * (b - c * l) + q * (b + c + b * l)
      BY <1>2, SplitLattice
    <3> QED
      BY <1>12, <1>13, <3>1, Zenon
  <2>4. p * (f * n) + q * (g * n) = (p * f + q * g) * n
    OBVIOUS
  <2>5. (a - x * l) - y = (p * f + q * g) * n
    BY <2>1, <2>2, <2>3, <2>4, Zenon
  <2>6. PICK z \in Int, h \in Int : z = a - x * l /\ h = p * f + q * g
    BY <1>2
  <2>7. Cong(z, y, n)
    BY <2>5, <2>6 DEF Cong
  <2>8. (z % n) = (y % n)
    BY <2>7, CongMod
  <2> QED
    BY <2>6, <2>8
<1>19. s.r1 = (y % n) /\ s.r2 = (x % n)
  BY <1>16, <1>18
<1> QED
  BY <1>4, <1>17, <1>19

\* The value the constant-time recoding is given: odd, short, and congruent to
\* the scalar with its skew up to the sign.
Skewed(a, w, e, sign, bit) ==
  /\ wnaf_const(a, w) = ConstEnd(ConstDigits(e, w), sign, bit)
  /\ e % 2 = 1 /\ Cong(sign * e, a + 2^bit, Order)

LEMMA SkewExists ==
  ASSUME NEW w, NEW m \in Nat, NEW a, Short(a, m)
  PROVE  \E e \in Nat, sign \in {-1, 1}, bit \in {0, 1} : Skewed(a, w, e, sign, bit) /\ e <= m + 2
<1>1. PICK n \in Nat \ {0} : n = Order /\ n >= 3 /\ (n % 2) = 1
  <2>1. Order \in Nat \ {0} /\ Order >= 3 /\ Prime(Order)
    BY OrderFacts
  <2>2. (Order % 2) # 0
    BY <2>1 DEF Prime
  <2> QED
    BY <2>1, <2>2
<1>2. PICK h \in Nat : h = Order \div 2 /\ n = 2 * h + 1
  BY <1>1
<1>3. a \in 0 .. n-1 /\ (a <= m \/ n - a <= m) /\ a \in Nat
  BY <1>1 DEF Short
<1>4. 2^0 = 1 /\ 2^1 = 2
  <2>1. Two(0) = 1 /\ Two(0 + 1) = 2 * Two(0) /\ 0 + 1 = 1
    BY TwoLaws
  <2> QED
    BY <2>1 DEF Two
<1>5. wnaf_const(a, w)
        = LET flip   == a > h
              bit    == Bool(flip # (a % 2 = 1))
              skewed == IF a = n - 1 THEN a ELSE a + 2^bit
          IN  ConstEnd(ConstDigits(IF flip THEN (-skewed) % n ELSE skewed, w),
                       (IF flip THEN -1 ELSE 1) * (IF a = n - 1 THEN -1 ELSE 1), bit)
  BY <1>1, <1>2 DEF wnaf_const
<1>6. CASE ~(a > h)
  <2>1. a # n - 1
    BY <1>1, <1>2, <1>6
  <2>2. PICK bit \in {0, 1}, e \in Nat : bit = (IF a % 2 = 1 THEN 1 ELSE 0) /\ e = a + 2^bit /\ (e % 2) = 1 /\ e <= a + 2
    <3>1. CASE a % 2 = 1
      <4>1. ((a + 2) % 2) = 1
        BY <1>3, <3>1
      <4> QED
        BY <1>3, <1>4, <3>1, <4>1
    <3>2. CASE ~(a % 2 = 1)
      <4>1. ((a + 1) % 2) = 1
        BY <1>3, <3>2
      <4> QED
        BY <1>3, <1>4, <3>2, <4>1
    <3> QED
      BY <3>1, <3>2
  <2>3. Bool((a > h) # (a % 2 = 1)) = bit
    BY <1>6, <2>2 DEF Bool
  <2>4. wnaf_const(a, w) = ConstEnd(ConstDigits(e, w), 1 * 1, bit)
    BY <1>5, <1>6, <2>1, <2>2, <2>3
  <2>5. Cong(1 * e, a + 2^bit, Order)
    <3>1. 0 \in Int /\ 1 * e - e = 0 * n
      OBVIOUS
    <3>2. Cong(1 * e, e, n)
      BY <3>1 DEF Cong
    <3> QED
      BY <1>1, <2>2, <3>2, Zenon
  <2>6. e <= m + 2
    BY <1>2, <1>3, <1>6, <2>2
  <2> QED
    BY <2>2, <2>4, <2>5, <2>6 DEF Skewed
<1>7. CASE a > h /\ a # n - 1
  <2>1. PICK bit \in {0, 1}, t \in Nat : bit = (IF a % 2 = 1 THEN 0 ELSE 1) /\ t = a + 2^bit /\ (t % 2) = 0 /\ t > a /\ t <= n - 1
    <3>1. CASE a % 2 = 1
      <4>1. ((a + 1) % 2) = 0
        BY <1>3, <3>1
      <4> QED
        BY <1>1, <1>3, <1>4, <1>7, <3>1, <4>1
    <3>2. CASE ~(a % 2 = 1)
      <4>1. ((a + 2) % 2) = 0
        BY <1>3, <3>2
      <4>2. a # n - 2
        BY <1>1, <1>3, <3>2
      <4> QED
        BY <1>1, <1>3, <1>4, <1>7, <3>2, <4>1, <4>2
    <3> QED
      BY <3>1, <3>2
  <2>2. Bool((a > h) # (a % 2 = 1)) = bit
    BY <1>7, <2>1 DEF Bool
  <2>3. PICK e \in Nat : e = n - t /\ ((-t) % n) = e /\ (e % 2) = 1
    <3>1. n - t \in 1 .. n-1 /\ -t = (-1) * n + (n - t)
      BY <1>3, <2>1
    <3>2. ((-t) % n) = n - t
      BY <3>1
    <3>3. ((n - t) % 2) = 1
      BY <1>1, <2>1
    <3> QED
      BY <3>1, <3>2, <3>3
  <2>4. wnaf_const(a, w) = ConstEnd(ConstDigits(e, w), (-1) * 1, bit)
    BY <1>5, <1>7, <2>1, <2>2, <2>3
  <2>5. Cong(-1 * e, a + 2^bit, Order)
    <3>1. -1 \in Int /\ -1 * e - t = (-1) * n
      BY <2>3
    <3>2. Cong(-1 * e, t, n)
      BY <3>1 DEF Cong
    <3> QED
      BY <1>1, <2>1, <3>2, Zenon
  <2>6. e <= m + 2
    <3>1. t > a /\ a > h /\ n = 2 * h + 1 /\ e = n - t /\ a \in Nat
      BY <1>2, <1>3, <1>7, <2>1, <2>3, Zenon
    <3>2. e <= a /\ e <= n - a
      BY <3>1
    <3>3. CASE a <= m
      BY <1>3, <3>2, <3>3
    <3>4. CASE n - a <= m
      BY <1>3, <3>2, <3>4
    <3> QED
      BY <1>3, <3>3, <3>4
  <2>7. PICK sign \in {-1, 1} : sign = -1 /\ (-1) * 1 = sign /\ sign * e = -1 * e
    <3>1. -1 \in {-1, 1} /\ (-1) * 1 = -1 /\ (-1) * e = -1 * e
      OBVIOUS
    <3> QED
      BY <3>1, Zenon
  <2>8. wnaf_const(a, w) = ConstEnd(ConstDigits(e, w), sign, bit) /\ Cong(sign * e, a + 2^bit, Order)
    BY <2>4, <2>5, <2>7, Zenon
  <2> QED
    BY <2>1, <2>3, <2>6, <2>8 DEF Skewed
<1>8. CASE a = n - 1
  <2>1. a > h /\ (a % 2) = 0
    BY <1>1, <1>2, <1>8
  <2>2. Bool((a > h) # (a % 2 = 1)) = 1
    BY <2>1 DEF Bool
  <2>3. ((-a) % n) = 1
    <3>1. -a = (-1) * n + 1
      BY <1>8
    <3> QED
      BY <1>1, <3>1
  <2>4. wnaf_const(a, w) = ConstEnd(ConstDigits(1, w), (-1) * (-1), 1)
    BY <1>5, <1>8, <2>1, <2>2, <2>3
  <2>5. Cong(1 * 1, a + 2^1, Order)
    <3>1. 1 * 1 - (a + 2) = (-1) * n
      BY <1>8
    <3> QED
      BY <1>1, <1>4, <3>1 DEF Cong
  <2>6. (1 % 2) = 1 /\ 1 <= m + 2
    OBVIOUS
  <2> QED
    BY <2>4, <2>5, <2>6 DEF Skewed
<1> QED
  BY <1>6, <1>7, <1>8

\* The words cover a short value with room to spare.
LEMMA WordsCover ==
  ASSUME NEW w \in Nat, w >= 2, NEW e \in Nat, e <= Two(HalfBits) + 2
  PROVE  WNAF_SIZE(w) \in Nat /\ e < Two(w * (WNAF_SIZE(w) + 1))
<1>1. PICK b \in Nat \ {0} : b = HalfBits
  BY EcmultAssumption
<1>2. PICK x \in Nat : x = b + w - 1
  OBVIOUS
<1>3. PICK n \in Int, r \in Int : n = (x \div w) /\ x = n * w + r /\ r >= 0 /\ r <= w - 1 /\ n >= 0
  <2>1. (x \div w) \in Int /\ (x % w) \in 0 .. w-1 /\ x = (x \div w) * w + (x % w) /\ (x \div w) >= 0
    OBVIOUS
  <2> QED
    BY <2>1
<1>4. WNAF_SIZE(w) = n /\ n \in Nat
  BY <1>1, <1>2, <1>3 DEF WNAF_SIZE
<1>5. PICK t \in Nat : t = w * (n + 1) /\ t >= b + 2
  <2>1. PICK z \in Int : z = n * w
    OBVIOUS
  <2>2. w * (n + 1) = z + w
    BY <1>4, <2>1
  <2>3. z + w \in Nat /\ z + w >= b + 2
    BY <1>2, <1>3, <2>1
  <2> QED
    BY <2>2, <2>3
<1>6. PICK m \in Nat : m = Two(b) /\ m >= 2 /\ Two(b + 2) = 4 * m
  <2>1. b - 1 \in Nat /\ (b - 1) + 1 = b /\ (b + 1) + 1 = b + 2
    OBVIOUS
  <2>2. PICK g \in Nat \ {0} : g = Two(b - 1) /\ Two(b) = 2 * g
    BY <2>1, TwoLaws
  <2>3. PICK m \in Nat : m = Two(b) /\ m >= 2
    BY <2>2
  <2>4. Two(b + 1) = 2 * m /\ Two((b + 1) + 1) = 2 * Two(b + 1)
    BY <2>3, TwoLaws
  <2> QED
    BY <2>1, <2>3, <2>4
<1>7. Two(b + 2) <= Two(t) /\ Two(t) \in Nat
  <2>1. b + 2 \in Nat
    OBVIOUS
  <2> QED
    BY <1>5, <2>1, TwoGrows, TwoLaws
<1>8. e < Two(t)
  BY <1>1, <1>6, <1>7
<1> QED
  BY <1>4, <1>5, <1>8

\* wnaf_const, for every short scalar.
LEMMA WnafConstIsExact ==
  ASSUME NEW a, Short(a, Two(HalfBits))
  PROVE  WnafConstExact(wnaf_const(a, WINDOW_A - 1), a)
<1>1. PICK w \in Nat : w = WINDOW_A - 1 /\ w >= 2 /\ w + 1 = WINDOW_A
  <2>1. PICK n \in Nat : n = ScalarBits
    BY EcmultAssumption
  <2>2. WINDOW_A \in 3..n
    BY <2>1, EcmultAssumption
  <2> QED
    BY <2>2
<1>2. PICK m \in Nat : m = Two(HalfBits)
  BY EcmultAssumption, TwoLaws
<1>3. PICK e \in Nat, sign \in {-1, 1}, bit \in {0, 1} : Skewed(a, w, e, sign, bit) /\ e <= m + 2
  BY <1>2, SkewExists
<1>4. PICK n \in Nat : n = WNAF_SIZE(w) /\ e < Two(w * (n + 1))
  BY <1>1, <1>2, <1>3, WordsCover
<1>5. PICK c : c = ConstDigits(e, w)
  OBVIOUS
<1>6. e % 2 = 1
  BY <1>3 DEF Skewed
<1>7. /\ c.ok /\ c.d \in [1 .. n+1 -> Int] /\ DigitSum(c.d, 2^w) = e
      /\ \A i \in 1 .. n+1 : DigitOk(c.d[i], w + 1)
  <2>1. w >= 2
    BY <1>1, Zenon
  <2> QED
    BY <1>4, <1>5, <1>6, <2>1, ConstDigitsExact, ZenonT(60)
<1>8. PICK v : v = wnaf_const(a, w) /\ v = ConstEnd(c, sign, bit)
  BY <1>3, <1>5 DEF Skewed
<1>9. v.d = [i \in DOMAIN c.d |-> sign * c.d[i]] /\ v.skew = 2^bit /\ v.ok = c.ok
  BY <1>8 DEF ConstEnd
<1>10. DOMAIN v.d = 1 .. n+1 /\ \A i \in 1 .. n+1 : v.d[i] = sign * c.d[i] /\ c.d[i] \in Int
  BY <1>7, <1>9
<1>11. \A i \in DOMAIN v.d : DigitOk(v.d[i], WINDOW_A)
  <2> SUFFICES ASSUME NEW i \in 1 .. n+1 PROVE DigitOk(v.d[i], w + 1)
    BY <1>1, <1>10
  <2>1. PICK x \in Int : x = c.d[i] /\ DigitOk(x, w + 1)
    BY <1>7, <1>10
  <2>2. CASE sign = 1
    <3>1. v.d[i] = x
      BY <1>10, <2>1, <2>2
    <3> QED
      BY <2>1, <3>1
  <2>3. CASE sign = -1
    <3>1. v.d[i] = -x
      BY <1>10, <2>1, <2>3
    <3>2. w + 1 \in Nat \ {0}
      OBVIOUS
    <3> QED
      BY <2>1, <3>1, <3>2, DigitNegated
  <2> QED
    BY <2>2, <2>3
<1>12. DigitSum(v.d, 2^w) = sign * e
  <2>1. Scaled(v.d, c.d, n + 1, sign)
    <3>1. \A i \in 1 .. n+1 : sign * c.d[i] \in Int
      BY <1>10
    <3>2. v.d \in [1 .. n+1 -> Int]
      BY <1>7, <1>9, <3>1
    <3> QED
      BY <1>7, <1>10, <3>2 DEF Scaled
  <2>2. 2^w \in Int /\ n + 1 \in Nat /\ sign \in Int
    <3>1. Two(w) \in Nat
      BY TwoLaws
    <3> QED
      BY <3>1 DEF Two
  <2>3. DigitSum(v.d, 2^w) = sign * DigitSum(c.d, 2^w)
    BY <2>1, <2>2, HornerScales
  <2> QED
    BY <1>7, <2>3, Zenon
<1>13. DigitSum(v.d, 2^w) % Order = (a + v.skew) % Order
  <2>1. Cong(sign * e, a + 2^bit, Order)
    BY <1>3 DEF Skewed
  <2>2. PICK x \in Int, y \in Int : x = sign * e /\ y = a + 2^bit
    <3>1. sign * e \in Int /\ a \in Int
      BY OrderFacts DEF Short
    <3>2. bit \in Nat
      OBVIOUS
    <3>3. Two(bit) \in Nat
      BY <3>2, TwoLaws
    <3>4. a + 2^bit \in Int
      BY <3>1, <3>3 DEF Two
    <3> QED
      BY <3>1, <3>4
  <2>3. x % Order = y % Order
    BY <2>1, <2>2, OrderFacts, CongMod
  <2> QED
    BY <1>9, <1>12, <2>2, <2>3, Zenon
<1>14. v.ok
  BY <1>7, <1>9
<1>15. WnafConstExact(v, a)
  BY <1>1, <1>11, <1>13, <1>14 DEF WnafConstExact
<1> QED
  BY <1>1, <1>8, <1>15

LEMMA RecodingsAreExact == k \in 0 .. Order-1 => RecodingsExact
<1> SUFFICES ASSUME k \in 0 .. Order-1 PROVE RecodingsExact
  OBVIOUS
<1>1. \A w \in {WINDOW_A, WINDOW_G} : WnafExact(ecmult_wnaf(ScalarBits, k, w), w)
  BY WnafIsExact
<1>2. PICK s : s = scalar_split_lambda(k)
  OBVIOUS
<1>3. Short(s.r1, Two(HalfBits)) /\ Short(s.r2, Two(HalfBits))
  BY <1>2, SplitShort
<1>4. \A a \in {s.r1, s.r2} : WnafConstExact(wnaf_const(a, WINDOW_A - 1), a)
  BY <1>3, WnafConstIsExact
<1> QED
  BY <1>1, <1>2, <1>4 DEF RecodingsExact

\* The multiple is a residue of the order, whatever was computed.
LEMMA MultipleIsScalar ==
  /\ Init => k \in 0 .. Order-1
  /\ k \in 0 .. Order-1 /\ [Next]_vars => k' \in 0 .. Order-1
<1>1. PICK n \in Nat \ {0} : n = Order
  BY OrderFacts
<1>2. Init => k \in 0 .. Order-1
  BY <1>1 DEF Init, GroupInit
<1> SUFFICES ASSUME k \in 0 .. Order-1, [Next]_vars PROVE k' \in 0 .. Order-1
  BY <1>2
<1>3. k \in Int /\ Lambda \in Int /\ Logs \subseteq Int
  BY <1>1, GroupAssumption
<1>4. ASSUME NEW r, NEW j \in Int, Compute(r, j) PROVE k' \in 0 .. Order-1
  BY <1>1, <1>4 DEF Compute
<1>5. CASE GroupOp
  <2>1. CASE SetInfinity \/ Double \/ Neg \/ Rescale \/ ToAffine \/ ToAffineVar
    <3>1. 0 \in Int /\ 2 * k \in Int /\ -k \in Int
      BY <1>3
    <3> QED
      BY <1>3, <1>4, <2>1, <3>1 DEF SetInfinity, Double, Neg, Rescale, ToAffine, ToAffineVar
  <2>2. CASE SetGe \/ AddVar \/ AddGeVar \/ AddGe
    <3>1. \A o \in GejOperands \cup GeOperands : o.k \in Int /\ k + o.k \in Int
      BY <1>3, OperandsStand
    <3> QED
      BY <1>4, <2>2, <3>1 DEF SetGe, AddVar, AddGeVar, AddGe
  <2>3. CASE AddZinvVar
    <3>1. PICK j \in Logs, z \in Zs :
            Compute(gej_add_zinv_var(acc, Fresh(j, z), fe_inv(fe_set_int(z))), k + j)
      BY <2>3 DEF AddZinvVar
    <3>2. k + j \in Int
      BY <1>3
    <3> QED
      BY <1>4, <3>1, <3>2
  <2>4. CASE MulLambda
    <3>1. Lambda * k \in Int
      BY <1>3
    <3> QED
      BY <1>4, <2>4, <3>1 DEF MulLambda
  <2> QED
    BY <1>5, <2>1, <2>2, <2>3, <2>4 DEF GroupOp, GroupNext
<1>6. CASE Ecmult
  <2>1. PICK o \in GejOperands, na \in Scalars, ng \in Scalars : Compute(ecmult(o.b, na, ng), na * o.k + ng)
    BY <1>6 DEF Ecmult
  <2>2. na \in Int /\ ng \in Int /\ o.k \in Int
    BY <1>1, OperandsStand DEF Scalars
  <2>3. na * o.k + ng \in Int
    BY <2>2
  <2> QED
    BY <1>4, <2>1, <2>3
<1>7. CASE EcmultConst
  <2>1. PICK o \in GeOperands, n1 \in Scalars : Compute(ecmult_const(o.b, n1), n1 * o.k)
    BY <1>7 DEF EcmultConst
  <2>2. n1 \in Int /\ o.k \in Int
    BY <1>1, OperandsStand DEF Scalars
  <2>3. n1 * o.k \in Int
    BY <2>2
  <2> QED
    BY <1>4, <2>1, <2>3
<1>8. CASE EcmultGen
  <2>1. PICK n1 \in Scalars : Compute(ecmult_gen(gctx, n1), n1)
    BY <1>8 DEF EcmultGen
  <2>2. n1 \in Int
    BY <1>1 DEF Scalars
  <2> QED
    BY <1>4, <2>1, <2>2
<1>9. CASE ContextBuild \/ ContextBlind \/ ContextClear \/ UNCHANGED vars
  <2>1. k' = k
    BY <1>9 DEF ContextBuild, ContextBlind, ContextClear, groupVars, vars
  <2> QED
    BY <2>1
<1> QED
  BY <1>5, <1>6, <1>7, <1>8, <1>9 DEF Next

\* RecodingsExact of every reachable state, which is every scalar a computation
\* can leave (secp256k1_ecmult_wnaf and secp256k1_wnaf_const): the digits
\* represent the number, each is odd and in range, the nonzero ones of wNAF are
\* a window apart and no longer than the number, and no VERIFY_CHECK fails, the
\* halves of split_lambda being short enough for the constant-time recoding.
THEOREM RecodingsAlwaysExact == Spec => []RecodingsExact
<1> DEFINE Inv == k \in 0 .. Order-1
<1>1. Init => Inv
  BY MultipleIsScalar
<1>2. Inv /\ [Next]_vars => Inv'
  BY MultipleIsScalar
<1>3. Inv => RecodingsExact
  BY RecodingsAreExact
<1> QED
  BY <1>1, <1>2, <1>3, PTL DEF Spec
=============================================================================
