-------------------------- MODULE Secp256k1Proofs ---------------------------
(***************************************************************************)
(* Proofs about the signature interface: for every curve of prime order,   *)
(* every key, message and nonce, what signing makes verification accepts   *)
(* and recovery takes back to the signer, and no failed call leaves an     *)
(* object that is no key.                                                  *)
(***************************************************************************)
EXTENDS Binding, CurveProofs

-----------------------------------------------------------------------------
(* The group of points.                                                    *)

\* What a point is.
LEMMA PointFacts ==
  ASSUME NEW j \in Int, Mult(j) # Inf
  PROVE  /\ Mult(j) \in Points /\ Mult(j) \in (0 .. P-1) \X (0 .. P-1) /\ OnCurve(Mult(j))
         /\ Mult(j)[1] \in 0 .. P-1 /\ Mult(j)[2] \in 0 .. P-1
         /\ Mult(j) = <<Mult(j)[1], Mult(j)[2]>>
         /\ Mult(j)[1] # 0 /\ Mult(j)[1] % Order # 0
<1> DEFINE r == j % Order
<1>1. r \in 1 .. Order-1 /\ Mult(r) = Mult(j)
  BY Reduced, MultInf
<1> HIDE DEF r
<1>2. Mult(j) \in Points
  BY <1>1 DEF Points
<1>3. Mult(j)[1] % Order # 0
  BY <1>1, BytesAssumption
<1>4. 0 % Order = 0
  BY OrderFacts
<1> QED
  BY <1>2, <1>3, <1>4, OnTheCurve

\* Every point is a multiple.
LEMMA PointIsMultiple ==
  ASSUME NEW q \in Points
  PROVE  \E j \in 1 .. Order-1 : q = Mult(j) /\ q # Inf
BY CurveAssumption DEF Points

\* The logarithm of a multiple is its factor, up to the order.
LEMMA LogFacts ==
  ASSUME NEW j \in Int, Mult(j) # Inf
  PROVE  /\ Log[Mult(j)] \in 1 .. Order-1 /\ Log[Mult(j)] \in Int
         /\ Mult(Log[Mult(j)]) = Mult(j) /\ Cong(Log[Mult(j)], j, Order)
         /\ j \in 1 .. Order-1 => Log[Mult(j)] = j
<1>1. Mult(j) \in Points
  BY PointFacts
<1>2. \E i \in 1 .. Order-1 : Mult(i) = Mult(j)
  BY <1>1 DEF Points
<1> DEFINE l == Log[Mult(j)]
<1>3. l = CHOOSE i \in 1 .. Order-1 : Mult(i) = Mult(j)
  BY <1>1 DEF Log
<1>4. l \in 1 .. Order-1 /\ Mult(l) = Mult(j)
  BY <1>2, <1>3
<1> HIDE DEF l
<1>5. l \in Int /\ Order \in Nat \ {0}
  BY <1>4, OrderFacts
<1>6. Cong(l, j, Order)
  BY <1>4, <1>5, MultInjective
<1>7. ASSUME j \in 1 .. Order-1 PROVE l = j
  <2>1. l \in 0 .. Order-1 /\ j \in 0 .. Order-1
    BY <1>4, <1>5, <1>7
  <2> QED
    BY <1>5, <1>6, <2>1, CongSmall
<1> QED
  BY <1>4, <1>5, <1>6, <1>7 DEF l

\* Decompression finds the point of the given parity, and no other.
LEMMA LiftFacts ==
  ASSUME NEW j \in Int, Mult(j) # Inf, NEW odd \in BOOLEAN
  PROVE  /\ (Mult(j)[2] % 2 = 1 <=> odd) => Lift(Mult(j)[1], odd) = {Mult(j)}
         /\ ~(Mult(j)[2] % 2 = 1 <=> odd) => Lift(Mult(j)[1], odd) = {Mult(-j)}
<1>1. -j \in Int /\ Mult(-j) # Inf /\ Mult(-j)[1] = Mult(j)[1]
      /\ (Mult(-j)[2] % 2 = 1 <=> ~(Mult(j)[2] % 2 = 1))
  BY Opposite
<1>2. Mult(j) \in Points /\ Mult(-j) \in Points
  BY <1>1, PointFacts
<1>3. ASSUME NEW q \in Points, q[1] = Mult(j)[1] PROVE q = Mult(j) \/ q = Mult(-j)
  <2>1. PICK i \in 1 .. Order-1 : q = Mult(i) /\ q # Inf
    BY PointIsMultiple
  <2>2. i \in Int
    BY <2>1, OrderFacts
  <2> QED
    BY <1>3, <2>1, <2>2, SameAbscissa
<1>4. \A q : q \in Lift(Mult(j)[1], odd) <=>
              q \in Points /\ q[1] = Mult(j)[1] /\ (q[2] % 2 = 1 <=> odd)
  BY DEF Lift
<1>5. ASSUME Mult(j)[2] % 2 = 1 <=> odd PROVE Lift(Mult(j)[1], odd) = {Mult(j)}
  BY <1>1, <1>2, <1>3, <1>4, <1>5, Zenon
<1>6. ASSUME ~(Mult(j)[2] % 2 = 1 <=> odd) PROVE Lift(Mult(j)[1], odd) = {Mult(-j)}
  BY <1>1, <1>2, <1>3, <1>4, <1>6, Zenon
<1> QED
  BY <1>5, <1>6

-----------------------------------------------------------------------------
(* Scalars.                                                                *)

\* Congruence modulo the order, as the lemmas below use it.
LEMMA CongScale ==
  ASSUME NEW a \in Int, NEW b \in Int, NEW c \in Int, Cong(a, b, Order)
  PROVE  Cong(c * a, c * b, Order) /\ Cong(c + a, c + b, Order) /\ Cong(c - a, c - b, Order)
<1>1. Order \in Nat \ {0}
  BY OrderFacts
<1>2. Cong(c, c, Order)
  BY <1>1, CongEquivalence
<1> QED
  BY <1>1, <1>2, CongArithmetic

LEMMA CongChain ==
  ASSUME NEW a \in Int, NEW b \in Int, NEW c \in Int, Cong(a, b, Order)
  PROVE  Cong(b, a, Order) /\ (Cong(b, c, Order) => Cong(a, c, Order))
                           /\ (Cong(c, b, Order) => Cong(a, c, Order))
<1>1. Order \in Nat \ {0}
  BY OrderFacts
<1> QED
  BY <1>1, CongEquivalence

\* The inverse of a scalar, and how it moves across a congruence.
LEMMA InverseFacts ==
  ASSUME NEW s \in 1 .. Order-1
  PROVE  ScalarInverse[s] \in 1 .. Order-1 /\ ScalarInverse[s] \in Int
         /\ Cong(s * ScalarInverse[s], 1, Order)
<1>1. Order \in Nat \ {0} /\ Order >= 3 /\ Prime(Order)
  BY OrderFacts
<1>2. s \in 0 .. Order-1 /\ s # 0 /\ s \in Int
  BY <1>1
<1> DEFINE t == ScalarInverse[s]
<1>3. t = CHOOSE u \in 1 .. Order-1 : (s * u) % Order = 1
  BY <1>2 DEF ScalarInverse
<1>4. \E u \in 1 .. Order-1 : (s * u) % Order = 1
  BY <1>1, PrimeInverse
<1>5. t \in 1 .. Order-1 /\ (s * t) % Order = 1
  BY <1>3, <1>4
<1> HIDE DEF t
<1>6. t \in Int /\ s * t \in Int /\ 1 \in Int /\ 1 \in 0 .. Order-1
  BY <1>1, <1>2, <1>5
<1>7. 1 % Order = 1
  BY <1>1, <1>6, CongMod
<1>8. Cong(s * t, 1, Order)
  BY <1>1, <1>5, <1>6, <1>7, CongMod
<1> QED
  BY <1>5, <1>6, <1>8 DEF t

LEMMA InverseMoves ==
  ASSUME NEW s \in 1 .. Order-1, NEW a \in Int, NEW b \in Int
  PROVE  Cong(a, ScalarInverse[s] * b, Order) <=> Cong(s * a, b, Order)
<1> DEFINE t == ScalarInverse[s]
<1>1. t \in Int /\ s \in Int /\ Cong(s * t, 1, Order)
  BY InverseFacts, OrderFacts
<1> HIDE DEF t
<1>2. \A c \in Int : Cong(s * (t * c), c, Order) /\ Cong(t * (s * c), c, Order)
  <2> TAKE c \in Int
  <2>1. s * t \in Int /\ 1 \in Int
    BY <1>1
  <2>2. Cong(c * (s * t), c * 1, Order)
    BY <1>1, <2>1, CongScale
  <2>3. c * (s * t) = s * (t * c) /\ c * (s * t) = t * (s * c) /\ c * 1 = c
    BY <1>1
  <2> QED
    BY <2>2, <2>3
<1>3. ASSUME Cong(a, t * b, Order) PROVE Cong(s * a, b, Order)
  <2>1. t * b \in Int /\ s * a \in Int /\ s * (t * b) \in Int
    BY <1>1
  <2>2. Cong(s * a, s * (t * b), Order)
    BY <1>1, <1>3, <2>1, CongScale
  <2> QED
    BY <1>2, <2>1, <2>2, CongChain
<1>4. ASSUME Cong(s * a, b, Order) PROVE Cong(a, t * b, Order)
  <2>1. t * b \in Int /\ s * a \in Int /\ t * (s * a) \in Int
    BY <1>1
  <2>2. Cong(t * (s * a), t * b, Order)
    BY <1>1, <1>4, <2>1, CongScale
  <2>3. Cong(t * (s * a), a, Order)
    BY <1>2
  <2>4. Cong(a, t * (s * a), Order)
    BY <2>1, <2>3, CongChain
  <2> QED
    BY <2>1, <2>2, <2>4, CongChain
<1> QED
  BY <1>3, <1>4 DEF t

\* 32 bytes read as a scalar.
LEMMA ScalarFacts ==
  ASSUME NEW x \in B32
  PROVE  /\ scalar_set_b32(x).v \in 0 .. Order-1 /\ scalar_set_b32(x).v \in Int /\ x \in Nat
         /\ scalar_set_b32(x).overflow \in BOOLEAN
         /\ scalar_set_b32(x).overflow <=> x >= Order
         /\ scalar_set_b32(x).v = IF x >= Order THEN x - Order ELSE x
         /\ Cong(scalar_set_b32(x).v, x, Order)
<1>1. Order \in Nat \ {0} /\ P \in Nat /\ B32Max \in P .. 2 * Order - 1
  BY OrderFacts, BytesAssumption
<1>2. x \in Nat /\ x < 2 * Order
  BY <1>1 DEF B32
<1> DEFINE v == scalar_set_b32(x).v
<1>3. v = IF x >= Order THEN x - Order ELSE x
  BY DEF scalar_set_b32
<1>7. scalar_set_b32(x).overflow \in BOOLEAN /\ (scalar_set_b32(x).overflow <=> x >= Order)
  <2>1. scalar_set_b32(x).overflow = (x >= Order)
    BY DEF scalar_set_b32
  <2>2. (x >= Order) \in BOOLEAN
    BY <1>1, <1>2
  <2> QED
    BY <2>1, <2>2, Zenon
<1> HIDE DEF v
<1>4. v \in 0 .. Order-1 /\ v \in Int
  BY <1>1, <1>2, <1>3
<1>5. v - x = (IF x >= Order THEN -1 ELSE 0) * Order
  BY <1>1, <1>2, <1>3
<1>6. Cong(v, x, Order)
  BY <1>5 DEF Cong
<1> QED
  BY <1>2, <1>3, <1>4, <1>6, <1>7 DEF v

\* The negative of a high scalar is low.
LEMMA NegatedFacts ==
  ASSUME NEW s \in 0 .. Order-1
  PROVE  /\ Negated(s) \in 0 .. Order-1 /\ Negated(s) \in Int /\ Cong(Negated(s), -s, Order)
         /\ s # 0 => Negated(s) = Order - s
         /\ s = 0 => Negated(s) = 0 /\ ~IsHigh(s)
         /\ IsHigh(s) => s # 0 /\ ~IsHigh(Negated(s)) /\ Negated(s) # s
<1>1. Order \in Nat \ {0} /\ s \in Int /\ -s \in Int /\ Order >= 3
  BY OrderFacts
<1>2. Negated(s) \in 0 .. Order-1 /\ Negated(s) \in Int /\ Cong(Negated(s), -s, Order)
  BY <1>1, CongMod DEF Negated
<1>3. ASSUME s # 0 PROVE Negated(s) = Order - s
  <2>1. Order - s \in 0 .. Order-1 /\ Order - s \in Int
    BY <1>1, <1>3
  <2>2. (Order - s) - (-s) = 1 * Order
    BY <1>1
  <2>3. Cong(Order - s, -s, Order)
    BY <2>2 DEF Cong
  <2>4. Cong(Negated(s), Order - s, Order)
    BY <1>1, <1>2, <2>1, <2>3, CongChain
  <2> QED
    BY <1>1, <1>2, <2>1, <2>4, CongSmall
<1>4. ASSUME s = 0 PROVE Negated(s) = 0 /\ ~IsHigh(s)
  <2>1. -s = 0
    <3>1. s + (-s) = 0
      BY <1>1
    <3>2. \A b \in Int : s + b = 0 => b = 0
      BY <1>4
    <3> QED
      BY <1>1, <3>1, <3>2, Zenon
  <2>2. 0 % Order = 0
    BY <1>1
  <2>3. Order \div 2 >= 0
    BY <1>1
  <2> QED
    BY <1>1, <1>4, <2>1, <2>2, <2>3 DEF Negated, IsHigh
<1>5. ASSUME IsHigh(s) PROVE s # 0 /\ ~IsHigh(Negated(s)) /\ Negated(s) # s
  <2>1. s # 0
    BY <1>4, <1>5
  <2>2. Negated(s) = Order - s
    BY <1>3, <2>1
  <2>3. s > Order \div 2 /\ Order \div 2 \in Int /\ 2 * (Order \div 2) <= Order /\ Order <= 2 * (Order \div 2) + 1
    BY <1>1, <1>5 DEF IsHigh
  <2>4. Order - s <= Order \div 2
    BY <1>1, <2>3
  <2> QED
    BY <1>1, <2>1, <2>2, <2>3, <2>4 DEF IsHigh
<1> QED
  BY <1>2, <1>3, <1>4, <1>5

-----------------------------------------------------------------------------
(* The equation behind verification and recovery: the nonce l and the key  *)
(* d of a signature (r, s) of the message m satisfy s l = m + r d.         *)

Sigs == [r : 0 .. Order-1, s : 0 .. Order-1, recid : Recids]
Explains(r, s, m, d, l) == Cong(s * l, m + r * d, Order)

\* Verification asks whether the nonce that the equation gives has the right x.
LEMMA VerifiesIff ==
  ASSUME NEW r \in 1 .. Order-1, NEW s \in 1 .. Order-1, NEW m \in Int, NEW d \in 1 .. Order-1
  PROVE  ecdsa_sig_verify(r, s, Mult(d), m) <=>
           \E l \in Int : XMatches(r, Mult(l)) /\ Explains(r, s, m, d, l)
<1>1. /\ r \in Int /\ s \in Int /\ d \in Int /\ r # 0 /\ s # 0 /\ m + r * d \in Int
      /\ Mult(d) # Inf /\ Order \in Nat \ {0}
  BY OrderFacts, CurveAssumption
<1>2. Log[Mult(d)] = d
  BY <1>1, LogFacts
<1> DEFINE e == m + r * d
           t == ScalarInverse[s]
           w == t * (e % Order)
<1>3. t \in Int /\ e \in Int /\ e % Order \in Int /\ w \in Int /\ t * e \in Int
  BY <1>1, InverseFacts, Reduced
<1>4. ecdsa_sig_verify(r, s, Mult(d), m) <=> XMatches(r, Mult(w))
  BY <1>1, <1>2 DEF ecdsa_sig_verify
<1> HIDE DEF e, t, w
<1>5. Cong(w, t * e, Order)
  BY <1>3, Reduced, CongScale DEF w
<1>6. \A l \in Int : Cong(l, t * e, Order) <=> Explains(r, s, m, d, l)
  BY <1>3, InverseMoves DEF Explains, e, t
<1>7. \A l \in Int : Explains(r, s, m, d, l) => Mult(l) = Mult(w)
  <2> SUFFICES ASSUME NEW l \in Int, Explains(r, s, m, d, l) PROVE Mult(l) = Mult(w)
    OBVIOUS
  <2>1. Cong(l, t * e, Order)
    BY <1>6
  <2>2. Cong(l, w, Order)
    BY <1>3, <1>5, <2>1, CongChain
  <2> QED
    BY <1>3, <2>2, MultCong
<1>8. Explains(r, s, m, d, w)
  BY <1>3, <1>5, <1>6
<1> QED
  BY <1>3, <1>4, <1>7, <1>8

\* Recovery solves the same equation for the key.
LEMMA RecoversIff ==
  ASSUME NEW r \in 1 .. Order-1, NEW s \in 1 .. Order-1, NEW m \in Int,
         NEW l \in Int, Mult(l) # Inf, NEW d \in Int
  PROVE  Mult(ScalarInverse[r] * ((s * Log[Mult(l)] - m) % Order)) = Mult(d)
           <=> Explains(r, s, m, d, l)
<1> DEFINE g == Log[Mult(l)]
           e == s * g - m
           t == ScalarInverse[r]
           w == t * (e % Order)
<1>1. /\ r \in Int /\ s \in Int /\ Order \in Nat \ {0} /\ g \in Int /\ Cong(g, l, Order)
  BY OrderFacts, LogFacts
<1> HIDE DEF g
<1>2. t \in Int /\ e \in Int /\ e % Order \in Int /\ w \in Int /\ t * e \in Int
  <2>1. t \in Int
    BY InverseFacts
  <2>2. e \in Int
    BY <1>1
  <2>3. e % Order \in Int
    BY <2>2, Reduced
  <2> QED
    BY <2>1, <2>2, <2>3
<1> HIDE DEF t
<1>3. Cong(w, t * e, Order)
  BY <1>1, <1>2, Reduced, CongScale
<1>4. Mult(w) = Mult(d) <=> Cong(d, w, Order)
  <2>1. Mult(w) = Mult(d) => Cong(d, w, Order)
    BY <1>2, MultInjective
  <2>2. Cong(d, w, Order) => Mult(w) = Mult(d)
    BY <1>2, MultCong
  <2> QED
    BY <2>1, <2>2
<1>5. Cong(d, w, Order) <=> Cong(d, t * e, Order)
  <2>1. Cong(t * e, w, Order)
    BY <1>2, <1>3, CongChain
  <2> QED
    BY <1>2, <1>3, <2>1, CongChain
<1>6. Cong(d, t * e, Order) <=> Cong(r * d, e, Order)
  BY <1>2, InverseMoves DEF t
<1>7. Cong(r * d, e, Order) <=> Explains(r, s, m, d, l)
  <2>1. /\ r * d \in Int /\ s * g \in Int /\ s * l \in Int /\ m + r * d \in Int /\ e = s * g - m
        /\ m + e = s * g /\ (m + r * d) - m = r * d
    BY <1>1, <1>2
  <2>2. Cong(s * g, s * l, Order)
    BY <1>1, CongScale
  <2>3. ASSUME Cong(r * d, e, Order) PROVE Explains(r, s, m, d, l)
    <3>1. Cong(m + r * d, m + e, Order)
      BY <1>2, <2>1, <2>3, CongScale
    <3>2. Cong(m + r * d, s * l, Order)
      BY <2>1, <2>2, <3>1, CongChain
    <3> QED
      BY <2>1, <3>2, CongChain DEF Explains
  <2>4. ASSUME Explains(r, s, m, d, l) PROVE Cong(r * d, e, Order)
    <3>1. Cong(s * g, m + r * d, Order)
      BY <2>1, <2>2, <2>4, CongChain DEF Explains
    <3>2. Cong(m, m, Order)
      BY <1>1, CongEquivalence
    <3>3. Cong(s * g - m, (m + r * d) - m, Order)
      BY <1>1, <2>1, <3>1, <3>2, CongArithmetic
    <3>4. Cong(e, r * d, Order)
      BY <2>1, <3>3
    <3> QED
      BY <1>2, <2>1, <3>4, CongChain
  <2> QED
    BY <2>3, <2>4
<1> QED
  BY <1>4, <1>5, <1>6, <1>7 DEF t, g

\* Opposite nonce points match the same r.
LEMMA MatchesOpposite ==
  ASSUME NEW r, NEW l \in Int, XMatches(r, Mult(l))
  PROVE  XMatches(r, Mult(-l))
BY Opposite DEF XMatches

\* The nonce points that a recovery id gives match r, and there is at most one.
LEMMA NoncePointFacts ==
  ASSUME NEW g \in Sigs, NEW x \in NoncePoint(g)
  PROVE  NoncePoint(g) = {x} /\ \E l \in 1 .. Order-1 : x = Mult(l) /\ XMatches(g.r, x)
<1>1. g.r \in 0 .. Order-1 /\ g.recid \in Recids /\ Order \in Nat \ {0} /\ P \in Nat
  BY OrderFacts DEF Sigs
<1> DEFINE odd == g.recid % 2 = 1
           c == IF g.recid < 2 THEN g.r ELSE g.r + Order
<1>2. NoncePoint(g) = Lift(c, odd) /\ ~(g.recid >= 2 /\ g.r >= P - Order)
  BY <1>1 DEF NoncePoint, Recids
<1>3. odd \in BOOLEAN
  OBVIOUS
<1> HIDE DEF odd
<1>4. x \in Points /\ x[1] = c
  BY <1>2 DEF Lift
<1>5. PICK l \in 1 .. Order-1 : x = Mult(l) /\ x # Inf
  BY <1>4, PointIsMultiple
<1>6. l \in Int /\ -l \in Int
  BY <1>1
<1>7. Lift(c, odd) = {Mult(l)} \/ Lift(c, odd) = {Mult(-l)}
  BY <1>3, <1>4, <1>5, <1>6, LiftFacts
<1>8. NoncePoint(g) = {x}
  BY <1>2, <1>7
<1>9. XMatches(g.r, x)
  BY <1>1, <1>2, <1>4, <1>5 DEF XMatches, Recids
<1> QED
  BY <1>5, <1>8, <1>9

\* Every matching point is the nonce point of one of the four recovery ids.
LEMMA NoncePointExists ==
  ASSUME NEW g \in Sigs, NEW l \in Int, XMatches(g.r, Mult(l))
  PROVE  \E i \in Recids : NoncePoint([g EXCEPT !.recid = i]) = {Mult(l)}
<1> DEFINE odd == Mult(l)[2] % 2 = 1
           b == IF odd THEN 1 ELSE 0
           i == IF Mult(l)[1] = g.r THEN b ELSE 2 + b
           h == [g EXCEPT !.recid = i]
<1>1. g.r \in 0 .. Order-1 /\ Order \in Nat \ {0} /\ P \in Nat /\ h.r = g.r /\ h.recid = i
  BY OrderFacts DEF Sigs
<1>2. /\ Mult(l) # Inf
      /\ Mult(l)[1] # g.r => g.r < P - Order /\ Mult(l)[1] = g.r + Order
  BY DEF XMatches
<1>3. i \in Recids /\ (i % 2 = 1 <=> odd) /\ (i < 2 <=> Mult(l)[1] = g.r)
  BY DEF Recids
<1> HIDE DEF h, i
<1>4. (i % 2 = 1) \in BOOLEAN /\ (Mult(l)[2] % 2 = 1 <=> i % 2 = 1)
  BY <1>3
<1>5. Lift(Mult(l)[1], i % 2 = 1) = {Mult(l)}
  BY <1>2, <1>4, LiftFacts
<1>6. CASE i < 2
  BY <1>1, <1>3, <1>5, <1>6 DEF NoncePoint, h
<1>7. CASE ~(i < 2)
  BY <1>1, <1>2, <1>3, <1>5, <1>7 DEF NoncePoint, h
<1> QED
  BY <1>3, <1>6, <1>7 DEF h

Scalar32(m) == scalar_set_b32(m).v

\* What recovery returns: the key that the nonce point and the equation give,
\* if there is one; otherwise it fails and zeroes the object.
LEMMA RecoverFacts ==
  ASSUME NEW g \in Sigs, NEW m \in B32
  PROVE  LET f == ecdsa_recover(Both, g, m)
         IN  /\ f = Result(FALSE, ZeroKey) \/ \E d \in 1 .. Order-1 : f = Result(TRUE, Mult(d))
             /\ \A d \in 1 .. Order-1 :
                  f = Result(TRUE, Mult(d)) <=>
                    /\ g.r # 0 /\ g.s # 0
                    /\ \E l \in Int : /\ Mult(l) \in NoncePoint(g)
                                      /\ Explains(g.r, g.s, Scalar32(m), d, l)
<1> DEFINE n == Scalar32(m)
           f == ecdsa_recover(Both, g, m)
           s == ecdsa_sig_recover(g, n)
<1>1. /\ g.r \in 0 .. Order-1 /\ g.s \in 0 .. Order-1 /\ n \in Int /\ n \in 0 .. Order-1
      /\ Order \in Nat \ {0}
  BY OrderFacts, ScalarFacts DEF Sigs, Scalar32
<1>2. f = Result(s # {}, Only(s, ZeroKey))
  BY DEF ecdsa_recover, Both, Scalar32
<1> HIDE DEF n, f
<1>3. CASE g.r = 0 \/ g.s = 0
  <2>1. s = {}
    BY <1>3 DEF ecdsa_sig_recover
  <2>2. f = Result(FALSE, ZeroKey)
    BY <1>2, <2>1 DEF Only
  <2>3. \A d : f # Result(TRUE, Mult(d))
    BY <2>2 DEF Result
  <2> QED
    BY <1>3, <2>2, <2>3 DEF f
<1>4. CASE g.r # 0 /\ g.s # 0 /\ NoncePoint(g) = {}
  <2>1. s = {}
    BY <1>4 DEF ecdsa_sig_recover
  <2>2. f = Result(FALSE, ZeroKey)
    BY <1>2, <2>1 DEF Only
  <2>3. \A d : f # Result(TRUE, Mult(d))
    BY <2>2 DEF Result
  <2> QED
    BY <1>4, <2>2, <2>3 DEF f
<1>5. CASE g.r # 0 /\ g.s # 0 /\ NoncePoint(g) # {}
  <2>1. PICK x : x \in NoncePoint(g)
    BY <1>5
  <2>2. NoncePoint(g) = {x}
    BY <2>1, NoncePointFacts
  <2>3. PICK l \in 1 .. Order-1 : x = Mult(l) /\ XMatches(g.r, x)
    BY <2>1, NoncePointFacts
  <2>4. l \in Int /\ Mult(l) # Inf /\ g.r \in 1 .. Order-1 /\ g.s \in 1 .. Order-1
    BY <1>1, <1>5, <2>3 DEF XMatches
  <2> DEFINE w == ScalarInverse[g.r] * ((g.s * Log[Mult(l)] - n) % Order)
  <2>5. s = {q \in {Mult(w)} : q # Inf}
    <3>1. {Mult(ScalarInverse[g.r] * ((g.s * Log[y] - n) % Order)) : y \in NoncePoint(g)} = {Mult(w)}
      BY <2>2, <2>3
    <3> QED
      BY <1>5, <3>1 DEF ecdsa_sig_recover
  <2>6. w \in Int
    <3>1. ScalarInverse[g.r] \in Int /\ Log[Mult(l)] \in Int
      BY <2>4, InverseFacts, LogFacts
    <3>2. g.s * Log[Mult(l)] - n \in Int
      BY <1>1, <2>4, <3>1
    <3>3. (g.s * Log[Mult(l)] - n) % Order \in Int
      BY <3>2, Reduced
    <3> QED
      BY <3>1, <3>3
  <2>7. \A d \in 1 .. Order-1 : Mult(w) = Mult(d) <=> Explains(g.r, g.s, n, d, l)
    <3> TAKE d \in 1 .. Order-1
    <3>1. d \in Int
      BY <1>1
    <3> QED
      BY <1>1, <2>4, <3>1, RecoversIff
  <2> HIDE DEF w, s
  <2>8. \A d \in 1 .. Order-1 :
          (\E k \in Int : Mult(k) \in NoncePoint(g) /\ Explains(g.r, g.s, n, d, k))
             <=> Mult(w) = Mult(d)
    <3> TAKE d \in 1 .. Order-1
    <3>1. ASSUME NEW k \in Int, Mult(k) \in NoncePoint(g), Explains(g.r, g.s, n, d, k)
          PROVE  Mult(w) = Mult(d)
      <4>1. Mult(k) = Mult(l) /\ d \in Int
        BY <1>1, <2>2, <2>3, <3>1
      <4>2. Mult(k) # Inf
        BY <2>4, <4>1
      <4>3. Mult(ScalarInverse[g.r] * ((g.s * Log[Mult(k)] - n) % Order)) = Mult(d)
              <=> Explains(g.r, g.s, n, d, k)
        BY <1>1, <2>4, <4>1, <4>2, RecoversIff
      <4>4. Mult(w) = Mult(ScalarInverse[g.r] * ((g.s * Log[Mult(k)] - n) % Order))
        BY <4>1 DEF w
      <4> QED
        BY <3>1, <4>3, <4>4
    <3>2. ASSUME Mult(w) = Mult(d)
          PROVE  \E k \in Int : Mult(k) \in NoncePoint(g) /\ Explains(g.r, g.s, n, d, k)
      BY <2>2, <2>3, <2>4, <2>7, <3>2
    <3> QED
      BY <3>1, <3>2
  <2>9. CASE Mult(w) = Inf
    <3>1. s = {}
      BY <2>5, <2>9
    <3>2. f = Result(FALSE, ZeroKey)
      BY <1>2, <3>1 DEF Only
    <3>3. \A d : f # Result(TRUE, Mult(d))
      BY <3>2 DEF Result
    <3>4. \A d \in 1 .. Order-1 : Mult(w) # Mult(d)
      BY <2>9, CurveAssumption
    <3> QED
      BY <2>8, <3>2, <3>3, <3>4 DEF f, n
  <2>10. CASE Mult(w) # Inf
    <3>1. s = {Mult(w)}
      BY <2>5, <2>10
    <3>2. f = Result(TRUE, Mult(w))
      <4>1. Only(s, ZeroKey) = Mult(w)
        BY <3>1 DEF Only
      <4> QED
        BY <1>2, <3>1, <4>1
    <3>3. \A d : f = Result(TRUE, Mult(d)) <=> Mult(w) = Mult(d)
      BY <3>2 DEF Result
    <3>4. \E d \in 1 .. Order-1 : Mult(w) = Mult(d)
      BY <2>6, <2>10, MultInf, Reduced
    <3> QED
      BY <1>5, <2>8, <3>2, <3>3, <3>4 DEF f, n
  <2> QED
    BY <2>9, <2>10
<1> QED
  BY <1>3, <1>4, <1>5

\* The keys that some recovery id of a signature recovers.
LEMMA RecoveredIff ==
  ASSUME NEW g \in Sigs, NEW m \in B32
  PROVE  /\ Recovered(g, m) \subseteq Points
         /\ \A d \in 1 .. Order-1 :
              Mult(d) \in Recovered(g, m) <=>
                /\ g.r # 0 /\ g.s # 0
                /\ \E l \in Int : XMatches(g.r, Mult(l)) /\ Explains(g.r, g.s, Scalar32(m), d, l)
<1> DEFINE h(i) == [g EXCEPT !.recid = i]
<1>1. \A i \in Recids : h(i) \in Sigs /\ h(i).r = g.r /\ h(i).s = g.s
  BY DEF Sigs
<1>2. \A d \in 1 .. Order-1 : Mult(d) \in Points /\ Mult(d) # ZeroKey
  <2> TAKE d \in 1 .. Order-1
  <2>1. d \in Int /\ Mult(d) # Inf
    BY OrderFacts, CurveAssumption
  <2>2. Mult(d) \in Points /\ Mult(d)[1] # 0
    BY <2>1, PointFacts
  <2>3. ZeroKey[1] = 0
    BY DEF ZeroKey
  <2> QED
    BY <2>2, <2>3
<1>3. \A f : f \in Recovered(g, m) <=>
        f # ZeroKey /\ \E i \in Recids : f = ecdsa_recover(Both, h(i), m).out
  BY DEF Recovered
<1>4. ASSUME NEW i \in Recids
      PROVE  \/ ecdsa_recover(Both, h(i), m).out = ZeroKey
             \/ \E d \in 1 .. Order-1 : ecdsa_recover(Both, h(i), m).out = Mult(d)
  BY <1>1, <1>4, RecoverFacts DEF Result
<1>5. ASSUME NEW i \in Recids, NEW d \in 1 .. Order-1
      PROVE  ecdsa_recover(Both, h(i), m).out = Mult(d) <=>
                /\ g.r # 0 /\ g.s # 0
                /\ \E l \in Int : /\ Mult(l) \in NoncePoint(h(i))
                                  /\ Explains(g.r, g.s, Scalar32(m), d, l)
  <2> DEFINE f == ecdsa_recover(Both, h(i), m)
  <2>1. f = Result(TRUE, Mult(d)) <=>
          /\ g.r # 0 /\ g.s # 0
          /\ \E l \in Int : Mult(l) \in NoncePoint(h(i)) /\ Explains(g.r, g.s, Scalar32(m), d, l)
    BY <1>1, RecoverFacts
  <2>2. f = Result(FALSE, ZeroKey) \/ \E e \in 1 .. Order-1 : f = Result(TRUE, Mult(e))
    BY <1>1, RecoverFacts
  <2> HIDE DEF f
  <2>3. f.out = Mult(d) <=> f = Result(TRUE, Mult(d))
    BY <1>2, <2>2 DEF Result
  <2> QED
    BY <2>1, <2>3 DEF f
<1>6. Recovered(g, m) \subseteq Points
  <2> SUFFICES ASSUME NEW f \in Recovered(g, m) PROVE f \in Points
    OBVIOUS
  <2>1. PICK i \in Recids : f = ecdsa_recover(Both, h(i), m).out /\ f # ZeroKey
    BY <1>3
  <2>2. \E d \in 1 .. Order-1 : f = Mult(d)
    BY <1>4, <2>1
  <2> QED
    BY <1>2, <2>2
<1>7. ASSUME NEW d \in 1 .. Order-1
      PROVE  Mult(d) \in Recovered(g, m) <=>
                /\ g.r # 0 /\ g.s # 0
                /\ \E l \in Int : XMatches(g.r, Mult(l)) /\ Explains(g.r, g.s, Scalar32(m), d, l)
  <2>1. Mult(d) \in Recovered(g, m) <=>
          \E i \in Recids : ecdsa_recover(Both, h(i), m).out = Mult(d)
    BY <1>2, <1>3
  <2>2. ASSUME NEW i \in Recids, NEW l \in Int, Mult(l) \in NoncePoint(h(i))
        PROVE  XMatches(g.r, Mult(l))
    BY <1>1, <2>2, NoncePointFacts
  <2>3. ASSUME NEW l \in Int, XMatches(g.r, Mult(l))
        PROVE  \E i \in Recids : Mult(l) \in NoncePoint(h(i))
    BY <2>3, NoncePointExists
  <2> HIDE DEF h
  <2> QED
    BY <1>5, <2>1, <2>2, <2>3
<1> QED
  BY <1>6, <1>7

\* The keys a signature verifies under: of a signature with a high s there are
\* none.
LEMMA VerifiersIff ==
  ASSUME NEW g \in Sigs, NEW m \in B32
  PROVE  /\ IsHigh(g.s) => Verifiers(g, m) = {}
         /\ Verifiers(g, m) \subseteq Points
         /\ \A d \in 1 .. Order-1 :
              Mult(d) \in Verifiers(g, m) <=>
                /\ g.r # 0 /\ g.s # 0 /\ ~IsHigh(g.s)
                /\ \E l \in Int : XMatches(g.r, Mult(l)) /\ Explains(g.r, g.s, Scalar32(m), d, l)
<1>1. ASSUME NEW q \in Points
      PROVE  /\ q \in Verifiers(g, m) <=>
                  ~IsHigh(g.s) /\ ecdsa_sig_verify(g.r, g.s, q, Scalar32(m))
             /\ g.r = 0 \/ g.s = 0 => ~ecdsa_sig_verify(g.r, g.s, q, Scalar32(m))
  <2>1. PICK j \in 1 .. Order-1 : q = Mult(j) /\ q # Inf
    BY PointIsMultiple
  <2>2. j \in Int
    BY OrderFacts
  <2>3. q[1] # 0
    BY <2>1, <2>2, PointFacts
  <2>4. (ecdsa_verify(Both, g, m, q).ret) <=>
           ~IsHigh(g.s) /\ ecdsa_sig_verify(g.r, g.s, q, Scalar32(m))
    BY <2>3 DEF ecdsa_verify, Both, pubkey_load, Result, Scalar32
  <2>5. g.r = 0 \/ g.s = 0 => ~ecdsa_sig_verify(g.r, g.s, q, Scalar32(m))
    BY DEF ecdsa_sig_verify
  <2> QED
    BY <2>4, <2>5 DEF Verifiers
<1>2. Verifiers(g, m) \subseteq Points
  BY DEF Verifiers
<1>3. IsHigh(g.s) => Verifiers(g, m) = {}
  BY <1>1, <1>2
<1>4. ASSUME NEW d \in 1 .. Order-1
      PROVE  Mult(d) \in Verifiers(g, m) <=>
                /\ g.r # 0 /\ g.s # 0 /\ ~IsHigh(g.s)
                /\ \E l \in Int : XMatches(g.r, Mult(l)) /\ Explains(g.r, g.s, Scalar32(m), d, l)
  <2>1. Mult(d) \in Points
    BY DEF Points
  <2>2. CASE g.r = 0 \/ g.s = 0
    BY <1>1, <2>1, <2>2
  <2>3. CASE g.r # 0 /\ g.s # 0
    <3>1. g.r \in 1 .. Order-1 /\ g.s \in 1 .. Order-1 /\ Scalar32(m) \in Int
      BY <2>3, OrderFacts, ScalarFacts DEF Sigs, Scalar32
    <3>2. ecdsa_sig_verify(g.r, g.s, Mult(d), Scalar32(m)) <=>
            \E l \in Int : XMatches(g.r, Mult(l)) /\ Explains(g.r, g.s, Scalar32(m), d, l)
      BY <3>1, VerifiesIff
    <3> QED
      BY <1>1, <2>1, <2>3, <3>2
  <2> QED
    BY <2>2, <2>3
<1> QED
  BY <1>2, <1>3, <1>4

\* Negating s negates the nonce that explains the signature.
LEMMA ExplainsNegated ==
  ASSUME NEW r \in Int, NEW s \in 0 .. Order-1, NEW m \in Int, NEW d \in Int, NEW l \in Int
  PROVE  Explains(r, Negated(s), m, d, -l) <=> Explains(r, s, m, d, l)
<1> DEFINE n == Negated(s)
<1>1. n \in Int /\ Cong(n, -s, Order) /\ s \in Int /\ -s \in Int /\ -l \in Int
  BY NegatedFacts, OrderFacts
<1> HIDE DEF n
<1>2. Cong((-l) * n, (-l) * (-s), Order)
  BY <1>1, CongScale
<1>3. (-l) * n = n * (-l) /\ (-l) * (-s) = s * l
  BY <1>1
<1>4. Cong(n * (-l), s * l, Order)
  BY <1>2, <1>3
<1>5. n * (-l) \in Int /\ s * l \in Int /\ m + r * d \in Int
  BY <1>1
<1>6. Cong(s * l, n * (-l), Order)
  BY <1>4, <1>5, CongChain
<1>7. Cong(n * (-l), m + r * d, Order) <=> Cong(s * l, m + r * d, Order)
  BY <1>4, <1>5, <1>6, CongChain
<1> QED
  BY <1>7 DEF Explains, n

\* Normalising a signature.
LEMMA NormalizeFacts ==
  ASSUME NEW g \in Sigs
  PROVE  LET low == ecdsa_signature_normalize(g).out
         IN  /\ low \in Sigs /\ low.r = g.r /\ ~IsHigh(low.s) /\ (low.s = 0 <=> g.s = 0)
             /\ IsHigh(g.s) => low.s = Negated(g.s) /\ low.s # g.s
             /\ ~IsHigh(g.s) => low = g
<1> DEFINE low == ecdsa_signature_normalize(g).out
<1>1. low = IF IsHigh(g.s) THEN [g EXCEPT !.s = Negated(g.s)] ELSE g
  BY DEF ecdsa_signature_normalize, Result
<1>2. g.s \in 0 .. Order-1 /\ Order \in Nat \ {0}
  BY OrderFacts DEF Sigs
<1> HIDE DEF low
<1>3. CASE IsHigh(g.s)
  <2>1. /\ Negated(g.s) \in 0 .. Order-1 /\ ~IsHigh(Negated(g.s)) /\ Negated(g.s) # g.s
        /\ g.s # 0 /\ Negated(g.s) = Order - g.s
    BY <1>2, <1>3, NegatedFacts
  <2>2. low = [g EXCEPT !.s = Negated(g.s)]
    BY <1>1, <1>3
  <2>3. low \in Sigs /\ low.r = g.r /\ low.s = Negated(g.s)
    BY <2>1, <2>2 DEF Sigs
  <2> QED
    BY <1>2, <1>3, <2>1, <2>3 DEF low
<1>4. CASE ~IsHigh(g.s)
  BY <1>1, <1>4 DEF low
<1> QED
  BY <1>3, <1>4

\* RecoveryIsExact as a fact about every signature and message.
LEMMA Exact ==
  ASSUME NEW g \in Sigs, NEW m \in B32
  PROVE  LET low == ecdsa_signature_normalize(g).out
         IN  /\ Verifiers(low, m) = Recovered(low, m)
             /\ Recovered(g, m) = Recovered(low, m)
             /\ g.s # low.s => Verifiers(g, m) = {}
<1> DEFINE low == ecdsa_signature_normalize(g).out
<1>1. /\ low \in Sigs /\ low.r = g.r /\ ~IsHigh(low.s) /\ (low.s = 0 <=> g.s = 0)
      /\ IsHigh(g.s) => low.s = Negated(g.s)
      /\ ~IsHigh(g.s) => low = g
  BY NormalizeFacts
<1> HIDE DEF low
<1>2. ASSUME NEW S, NEW T, S \subseteq Points, T \subseteq Points,
             \A d \in 1 .. Order-1 : Mult(d) \in S <=> Mult(d) \in T
      PROVE  S = T
  BY <1>2 DEF Points
<1>3. Verifiers(low, m) = Recovered(low, m)
  <2>1. \A d \in 1 .. Order-1 : Mult(d) \in Verifiers(low, m) <=> Mult(d) \in Recovered(low, m)
    BY <1>1, VerifiersIff, RecoveredIff
  <2>2. Verifiers(low, m) \subseteq Points /\ Recovered(low, m) \subseteq Points
    BY <1>1, VerifiersIff, RecoveredIff
  <2> QED
    BY <1>2, <2>1, <2>2
<1>4. Recovered(g, m) = Recovered(low, m)
  <2>1. CASE ~IsHigh(g.s)
    BY <1>1, <2>1
  <2>2. CASE IsHigh(g.s)
    <3> DEFINE n == Scalar32(m)
    <3>1. n \in Int /\ g.r \in Int /\ g.s \in 0 .. Order-1 /\ low.s = Negated(g.s)
      BY <1>1, <2>2, ScalarFacts, OrderFacts DEF Scalar32, Sigs
    <3> HIDE DEF n
    <3>2. ASSUME NEW d \in 1 .. Order-1
          PROVE  (\E l \in Int : XMatches(g.r, Mult(l)) /\ Explains(g.r, g.s, n, d, l))
                   <=> (\E l \in Int : XMatches(g.r, Mult(l)) /\ Explains(g.r, low.s, n, d, l))
      <4>1. d \in Int
        BY OrderFacts
      <4>2. ASSUME NEW l \in Int
            PROVE  -l \in Int /\ -(-l) = l /\ (Explains(g.r, low.s, n, d, -l) <=> Explains(g.r, g.s, n, d, l))
        BY <3>1, <4>1, ExplainsNegated
      <4>3. ASSUME NEW l \in Int, XMatches(g.r, Mult(l)) PROVE XMatches(g.r, Mult(-l))
        BY <4>3, MatchesOpposite
      <4>4. ASSUME NEW l \in Int, XMatches(g.r, Mult(l)), Explains(g.r, g.s, n, d, l)
            PROVE  \E k \in Int : XMatches(g.r, Mult(k)) /\ Explains(g.r, low.s, n, d, k)
        BY <4>2, <4>3, <4>4
      <4>5. ASSUME NEW l \in Int, XMatches(g.r, Mult(l)), Explains(g.r, low.s, n, d, l)
            PROVE  \E k \in Int : XMatches(g.r, Mult(k)) /\ Explains(g.r, g.s, n, d, k)
        <5>1. -l \in Int /\ -(-l) = l
          OBVIOUS
        <5>2. Explains(g.r, low.s, n, d, -(-l)) <=> Explains(g.r, g.s, n, d, -l)
          BY <4>2, <5>1
        <5>3. Explains(g.r, g.s, n, d, -l)
          BY <4>5, <5>1, <5>2
        <5> QED
          BY <4>3, <4>5, <5>1, <5>3
      <4> QED
        BY <4>4, <4>5
    <3>3. \A d \in 1 .. Order-1 : Mult(d) \in Recovered(g, m) <=> Mult(d) \in Recovered(low, m)
      <4> TAKE d \in 1 .. Order-1
      <4>1. Mult(d) \in Recovered(g, m) <=>
              /\ g.r # 0 /\ g.s # 0
              /\ \E l \in Int : XMatches(g.r, Mult(l)) /\ Explains(g.r, g.s, n, d, l)
        BY RecoveredIff DEF n
      <4>2. Mult(d) \in Recovered(low, m) <=>
              /\ g.r # 0 /\ g.s # 0
              /\ \E l \in Int : XMatches(g.r, Mult(l)) /\ Explains(g.r, low.s, n, d, l)
        BY <1>1, RecoveredIff DEF n
      <4> QED
        BY <3>2, <4>1, <4>2
    <3>4. Recovered(g, m) \subseteq Points /\ Recovered(low, m) \subseteq Points
      BY <1>1, RecoveredIff
    <3> QED
      BY <1>2, <3>3, <3>4
  <2> QED
    BY <2>1, <2>2
<1>5. g.s # low.s => Verifiers(g, m) = {}
  BY <1>1, VerifiersIff
<1> QED
  BY <1>3, <1>4, <1>5 DEF low

-----------------------------------------------------------------------------
(* Key pairs.                                                              *)

LEMMA SeckeyFacts ==
  ASSUME NEW k \in B32
  PROVE  ec_seckey_verify(k) <=> k \in 1 .. Order-1
<1>1. Order \in Nat \ {0} /\ k \in Nat
  BY OrderFacts, ScalarFacts
<1>2. (scalar_set_b32(k).overflow <=> k >= Order) /\ (k < Order => scalar_set_b32(k).v = k)
  BY <1>1, ScalarFacts
<1> QED
  BY <1>1, <1>2 DEF ec_seckey_verify

\* A secret key in range, its scalar, its point and the logarithm of that.
LEMMA KeyFacts ==
  ASSUME NEW k \in 1 .. Order-1
  PROVE  /\ k \in Int /\ k \in B32 /\ scalar_set_b32(k).v = k /\ ec_seckey_verify(k)
         /\ Mult(k) # Inf /\ Log[Mult(k)] = k /\ pubkey_load(Mult(k))
         /\ Mult(k) \in Points /\ Mult(k) # ZeroKey
<1>1. Order \in Nat \ {0} /\ Order < P /\ P \in Nat /\ B32Max \in P .. 2 * Order - 1
  BY OrderFacts, BytesAssumption
<1>2. k \in Int /\ k \in B32 /\ ~(k >= Order)
  BY <1>1 DEF B32
<1>3. scalar_set_b32(k).v = k /\ ec_seckey_verify(k)
  BY <1>2, ScalarFacts, SeckeyFacts
<1>4. Mult(k) # Inf
  BY CurveAssumption
<1>5. Log[Mult(k)] = k /\ Mult(k)[1] # 0 /\ Mult(k) \in Points
  BY <1>2, <1>4, LogFacts, PointFacts
<1>6. ZeroKey[1] = 0
  BY DEF ZeroKey
<1> QED
  BY <1>2, <1>3, <1>4, <1>5, <1>6 DEF pubkey_load

\* Tweaking the two halves of a pair by the same bytes.
LEMMA TweaksCommute ==
  ASSUME NEW k \in 1 .. Order-1, NEW t \in B32
  PROVE  /\ Commute(ec_privkey_tweak_add(k, t), ec_pubkey_tweak_add(Both, Mult(k), t))
         /\ Commute(ec_privkey_tweak_mul(k, t), ec_pubkey_tweak_mul(Both, Mult(k), t))
<1>1. k \in Int /\ scalar_set_b32(k).v = k /\ Log[Mult(k)] = k /\ pubkey_load(Mult(k))
      /\ t \in Int /\ Order \in Nat \ {0} /\ Prime(Order) /\ k + t \in Int /\ k * t \in Int
  BY KeyFacts, ScalarFacts, OrderFacts
<1>2. scalar_set_b32(t).overflow <=> t >= Order
  BY ScalarFacts
<1>3. ASSUME NEW i \in Int, i % Order # 0
      PROVE  /\ Mult(i) # Inf /\ i % Order \in B32
             /\ Matching(i % Order, Mult(i))
  <2>1. i % Order \in 1 .. Order-1 /\ Mult(i % Order) = Mult(i) /\ Mult(i) # Inf
    BY <1>3, MultInf, Reduced
  <2> QED
    BY <2>1, KeyFacts DEF Matching
<1>4. ASSUME NEW i \in Int, i % Order = 0 PROVE Mult(i) = Inf
  BY <1>4, MultInf
<1>5. CASE t >= Order
  <2>1. ec_privkey_tweak_add(k, t) = Result(FALSE, 0) /\ ec_privkey_tweak_mul(k, t) = Result(FALSE, 0)
    BY <1>2, <1>5 DEF ec_privkey_tweak_add, ec_privkey_tweak_mul
  <2>2. /\ ec_pubkey_tweak_add(Both, Mult(k), t) = Result(FALSE, ZeroKey)
        /\ ec_pubkey_tweak_mul(Both, Mult(k), t) = Result(FALSE, ZeroKey)
    BY <1>2, <1>5 DEF ec_pubkey_tweak_add, ec_pubkey_tweak_mul, TweakedKey, Both
  <2> QED
    BY <2>1, <2>2 DEF Commute, Result
<1>6. CASE ~(t >= Order)
  <2>1. scalar_set_b32(t).v = t
    BY <1>6, ScalarFacts
  <2>2. ASSUME NEW i \in Int
        PROVE  TweakedKey(Both, Mult(k), t, i)
                 = IF Mult(i) # Inf THEN Result(TRUE, Mult(i)) ELSE Result(FALSE, ZeroKey)
    BY <1>1, <1>2, <1>6 DEF TweakedKey, Both
  <2>3. ASSUME NEW i \in Int, NEW f,
               f = IF i % Order # 0 THEN Result(TRUE, i % Order) ELSE Result(FALSE, 0)
        PROVE  Commute(f, TweakedKey(Both, Mult(k), t, i))
    <3>1. CASE i % Order # 0
      <4>1. Mult(i) # Inf /\ Matching(i % Order, Mult(i))
        BY <1>3, <3>1
      <4>2. f = Result(TRUE, i % Order) /\ TweakedKey(Both, Mult(k), t, i) = Result(TRUE, Mult(i))
        BY <2>2, <2>3, <3>1, <4>1
      <4> QED
        BY <4>1, <4>2 DEF Commute, Result
    <3>2. CASE i % Order = 0
      <4>1. Mult(i) = Inf
        BY <1>4, <3>2
      <4>2. f = Result(FALSE, 0) /\ TweakedKey(Both, Mult(k), t, i) = Result(FALSE, ZeroKey)
        BY <2>2, <2>3, <3>2, <4>1
      <4> QED
        BY <4>2 DEF Commute, Result
    <3> QED
      BY <3>1, <3>2
  <2>4. ec_privkey_tweak_add(k, t)
          = IF (k + t) % Order # 0 THEN Result(TRUE, (k + t) % Order) ELSE Result(FALSE, 0)
    BY <1>1, <1>2, <1>6, <2>1 DEF ec_privkey_tweak_add
  <2>5. (k * t) % Order # 0 <=> t # 0
    <3>1. ASSUME t = 0 PROVE (k * t) % Order = 0
      <4>1. k * t = 0 /\ 0 % Order = 0
        BY <1>1, <3>1
      <4> QED
        BY <4>1
    <3>2. ASSUME t # 0, (k * t) % Order = 0 PROVE FALSE
      <4>1. t \in Nat \ {0}
        BY <3>2, ScalarFacts
      <4>2. Mult(k * t) = Inf
        BY <1>1, <3>2, MultInf
      <4>3. Cong(k * t, 0, Order)
        BY <1>1, <4>2, MultInf
      <4>4. Order <= t
        BY <1>1, <4>1, <4>3, PrimeCancels
      <4> QED
        BY <1>1, <1>6, <4>4
    <3> QED
      BY <3>1, <3>2
  <2>6. ec_privkey_tweak_mul(k, t)
          = IF (k * t) % Order # 0 THEN Result(TRUE, (k * t) % Order) ELSE Result(FALSE, 0)
    BY <1>1, <1>2, <1>6, <2>1, <2>5 DEF ec_privkey_tweak_mul
  <2> QED
    BY <1>1, <2>3, <2>4, <2>6 DEF ec_pubkey_tweak_add, ec_pubkey_tweak_mul
<1> QED
  BY <1>5, <1>6

\* Two key pairs derive the same secret, each from the other's public half.
LEMMA SecretsAgree ==
  ASSUME NEW k \in 1 .. Order-1, NEW j \in 1 .. Order-1
  PROVE  ecdh(Mult(j), k) = ecdh(Mult(k), j) /\ ext_scalar_mul(Mult(j), k) = ext_scalar_mul(Mult(k), j)
<1>1. /\ k \in Int /\ ec_seckey_verify(k) /\ Log[Mult(k)] = k /\ pubkey_load(Mult(k))
      /\ j \in Int /\ ec_seckey_verify(j) /\ Log[Mult(j)] = j /\ pubkey_load(Mult(j))
      /\ k * j = j * k /\ Mult(k) # Inf /\ Mult(j) # Inf
  BY KeyFacts
<1>2. ASSUME NEW i \in Int, Mult(i) # Inf PROVE <<Mult(i)[1] % P, Mult(i)[2] % P>> = Mult(i)
  <2>1. Mult(i)[1] \in 0 .. P-1 /\ Mult(i)[2] \in 0 .. P-1 /\ Mult(i) = <<Mult(i)[1], Mult(i)[2]>>
    BY <1>2, PointFacts
  <2>2. \A x \in 0 .. P-1 : x % P = x
    BY OrderFacts
  <2> QED
    BY <2>1, <2>2
<1>3. ecdh(Mult(j), k) = ecdh(Mult(k), j)
  BY <1>1 DEF ecdh
<1>4. ext_scalar_mul(Mult(j), k) = Result(TRUE, Mult(k * j)) /\ ext_scalar_mul(Mult(k), j) = Result(TRUE, Mult(j * k))
  BY <1>1, <1>2 DEF ext_scalar_mul
<1> QED
  BY <1>1, <1>3, <1>4

-----------------------------------------------------------------------------
(* Signing.                                                                *)

\* The nonce point's x as a scalar: never zero.
LEMMA NonceScalar ==
  ASSUME NEW non \in 1 .. Order-1
  PROVE  LET x == Mult(non)[1]
             r == scalar_set_b32(x)
         IN  /\ r.v \in 1 .. Order-1 /\ x \in B32
             /\ r.overflow => r.v < P - Order /\ x = r.v + Order
             /\ ~r.overflow => x = r.v
             /\ r.overflow \in BOOLEAN
             /\ XMatches(r.v, Mult(non))
<1> DEFINE x == Mult(non)[1]
           v == scalar_set_b32(x).v
           o == scalar_set_b32(x).overflow
<1>1. non \in Int /\ Mult(non) # Inf
  BY KeyFacts
<1>2. x \in 0 .. P-1 /\ x % Order # 0
  BY <1>1, PointFacts
<1>3. /\ Order \in Nat \ {0} /\ P \in Nat /\ Order < P /\ P < 2 * Order
      /\ B32Max \in P .. 2 * Order - 1
  BY OrderFacts, BytesAssumption
<1>4. x \in B32
  <2> HIDE DEF x
  <2> QED
    BY <1>2, <1>3 DEF B32
<1>5. /\ v \in 0 .. Order-1 /\ v = (IF x >= Order THEN x - Order ELSE x) /\ o \in BOOLEAN
      /\ (o <=> x >= Order)
  BY <1>4, ScalarFacts
<1> HIDE DEF x, v, o
<1>6. v # 0
  <2>1. 0 % Order = 0 /\ Order % Order = 0
    BY <1>3
  <2>2. x # 0 /\ x # Order
    BY <1>2, <2>1
  <2> QED
    BY <1>2, <1>3, <1>5, <2>2
<1>7. /\ v \in 1 .. Order-1 /\ (o => v < P - Order /\ x = v + Order) /\ (~o => x = v)
  BY <1>2, <1>3, <1>5, <1>6
<1>8. XMatches(v, Mult(non))
  BY <1>1, <1>7 DEF XMatches, x
<1> QED
  BY <1>4, <1>5, <1>7, <1>8 DEF x, v, o

\* g is what one attempt with some nonce makes.
Made(g, sec, m, non) ==
  /\ ecdsa_sig_sign(sec, m, non).ret
  /\ g = [r |-> ecdsa_sig_sign(sec, m, non).r, s |-> ecdsa_sig_sign(sec, m, non).s,
          recid |-> ecdsa_sig_sign(sec, m, non).recid]

\* What signing makes: a low signature that the key and the nonce, or its
\* negative, explain, and that names its nonce point.
LEMMA SignFacts ==
  ASSUME NEW sec \in 1 .. Order-1, NEW m \in Int, NEW non \in 1 .. Order-1, NEW g, Made(g, sec, m, non)
  PROVE  /\ g \in Sigs /\ g.r # 0 /\ g.s # 0 /\ ~IsHigh(g.s)
         /\ \E l \in Int : /\ XMatches(g.r, Mult(l)) /\ Explains(g.r, g.s, m, sec, l)
                           /\ NoncePoint(g) = {Mult(l)}
<1> DEFINE q == Mult(non)
           r == scalar_set_b32(q[1])
           t == ScalarInverse[non]
           e == r.v * sec + m
           s == (t * e) % Order
           odd == Xor(q[2] % 2 = 1, IsHigh(s))
<1>1. /\ sec \in Int /\ non \in Int /\ Mult(non) # Inf /\ Order \in Nat \ {0} /\ P \in Nat /\ Order < P
      /\ -non \in Int
  BY KeyFacts, OrderFacts
<1>2. /\ r.v \in 1 .. Order-1 /\ r.overflow \in BOOLEAN
      /\ r.overflow => r.v < P - Order /\ q[1] = r.v + Order
      /\ ~r.overflow => q[1] = r.v
      /\ XMatches(r.v, Mult(non))
  BY NonceScalar
<1>3. /\ s # 0 /\ g.r = r.v /\ g.s = (IF IsHigh(s) THEN Negated(s) ELSE s)
      /\ g.recid = (IF r.overflow THEN 2 ELSE 0) + (IF odd THEN 1 ELSE 0)
      /\ g = [r |-> g.r, s |-> g.s, recid |-> g.recid]
  BY DEF Made, ecdsa_sig_sign
<1>4. odd \in BOOLEAN /\ (odd <=> ~(q[2] % 2 = 1 <=> IsHigh(s)))
  BY DEF Xor, IsHigh
<1> HIDE DEF r, odd
<1>5. r.v \in Int /\ t \in Int /\ e \in Int /\ t * e \in Int
  <2>1. t \in Int
    BY InverseFacts
  <2>2. r.v \in Int
    BY <1>1, <1>2
  <2> QED
    BY <1>1, <2>1, <2>2
<1>6. s \in 0 .. Order-1 /\ s \in Int /\ Cong(s, t * e, Order)
  BY <1>5, Reduced
<1> HIDE DEF s
<1>7. Explains(r.v, s, m, sec, non)
  <2>1. Cong(non * s, e, Order)
    BY <1>5, <1>6, InverseMoves
  <2>2. non * s = s * non /\ e = m + r.v * sec
    BY <1>1, <1>5, <1>6
  <2> QED
    BY <2>1, <2>2 DEF Explains
<1> HIDE DEF t, e
<1> DEFINE l == IF IsHigh(s) THEN -non ELSE non
<1>8. /\ g.s \in 0 .. Order-1 /\ g.s # 0 /\ ~IsHigh(g.s)
      /\ Explains(g.r, g.s, m, sec, l) /\ XMatches(g.r, Mult(l))
  <2>1. CASE IsHigh(s)
    <3>1. g.s = Negated(s) /\ l = -non
      BY <1>3, <2>1
    <3>2. Negated(s) \in 0 .. Order-1 /\ Negated(s) = Order - s /\ ~IsHigh(Negated(s))
      BY <1>3, <1>6, <2>1, NegatedFacts
    <3>3. Negated(s) # 0
      BY <1>1, <1>6, <3>2
    <3>4. Explains(r.v, Negated(s), m, sec, -non)
      BY <1>1, <1>5, <1>6, <1>7, ExplainsNegated
    <3>5. XMatches(r.v, Mult(-non))
      BY <1>1, <1>2, MatchesOpposite
    <3> QED
      BY <1>3, <3>1, <3>2, <3>3, <3>4, <3>5
  <2>2. CASE ~IsHigh(s)
    BY <1>2, <1>3, <1>6, <1>7, <2>2
  <2> QED
    BY <2>1, <2>2
<1>9. g.recid \in Recids /\ (g.recid < 2 <=> ~r.overflow) /\ (g.recid % 2 = 1 <=> odd)
  BY <1>3 DEF Recids
<1>10. g.r \in 0 .. Order-1 /\ g.r # 0
  BY <1>1, <1>2, <1>3
<1>11. g \in Sigs
  BY <1>3, <1>8, <1>9, <1>10 DEF Sigs
<1>12. Lift(q[1], g.recid % 2 = 1) = {Mult(l)}
  <2>1. (g.recid % 2 = 1) \in BOOLEAN
    OBVIOUS
  <2>2. CASE IsHigh(s)
    <3>1. ~(Mult(non)[2] % 2 = 1 <=> g.recid % 2 = 1)
      BY <1>4, <1>9, <2>2
    <3> QED
      BY <1>1, <2>1, <2>2, <3>1, LiftFacts
  <2>3. CASE ~IsHigh(s)
    <3>1. Mult(non)[2] % 2 = 1 <=> g.recid % 2 = 1
      BY <1>4, <1>9, <2>3
    <3> QED
      BY <1>1, <2>1, <2>3, <3>1, LiftFacts
  <2> QED
    BY <2>2, <2>3
<1>13. NoncePoint(g) = {Mult(l)}
  <2> HIDE DEF l, q
  <2>1. CASE r.overflow
    <3>1. ~(g.recid < 2) /\ ~(g.r >= P - Order) /\ q[1] = g.r + Order
      BY <1>1, <1>2, <1>3, <1>5, <1>9, <2>1
    <3> QED
      BY <1>12, <3>1 DEF NoncePoint
  <2>2. CASE ~r.overflow
    BY <1>2, <1>3, <1>9, <1>12, <2>2 DEF NoncePoint
  <2> QED
    BY <1>2, <2>1, <2>2
<1>14. l \in Int
  BY <1>1
<1> HIDE DEF l
<1> QED
  BY <1>8, <1>10, <1>11, <1>13, <1>14

\* The bytes of a signature parse back to it.
LEMMA CompactFacts ==
  ASSUME NEW g \in Sigs
  PROVE  /\ ecdsa_recoverable_signature_parse_compact(g.r, g.s, g.recid) = Result(TRUE, g)
         /\ ecdsa_signature_parse_compact(g.r, g.s) = Result(TRUE, Plain(g))
<1>1. /\ g.r \in 0 .. Order-1 /\ g.s \in 0 .. Order-1 /\ g.recid \in Recids /\ 0 \in Recids
      /\ g = [r |-> g.r, s |-> g.s, recid |-> g.recid]
  BY DEF Sigs, Recids
<1>2. ASSUME NEW x \in 0 .. Order-1 PROVE ~scalar_set_b32(x).overflow
  <2>1. ~(x >= Order)
    BY <1>2, OrderFacts
  <2> QED
    BY <2>1 DEF scalar_set_b32
<1>3. \A i \in Recids : ecdsa_recoverable_signature_parse_compact(g.r, g.s, i)
                          = Result(TRUE, [r |-> g.r, s |-> g.s, recid |-> i])
  BY <1>1, <1>2 DEF ecdsa_recoverable_signature_parse_compact
<1>4. PlainResult(Result(TRUE, [r |-> g.r, s |-> g.s, recid |-> 0])) = Result(TRUE, Plain(g))
  <2>1. Plain([r |-> g.r, s |-> g.s, recid |-> 0]) = Plain(g)
    BY DEF Plain
  <2>2. \A z : PlainResult(Result(TRUE, z)) = Result(TRUE, Plain(z))
    <3> TAKE z
    <3>1. Result(TRUE, z).out = z
      BY DEF Result
    <3>2. \A w : [Result(TRUE, z) EXCEPT !.out = w] = Result(TRUE, w)
      <4> TAKE w
      <4>1. \A a, b : [[ret |-> a, out |-> z, illegal |-> b] EXCEPT !.out = w]
                        = [ret |-> a, out |-> w, illegal |-> b]
        OBVIOUS
      <4> QED
        BY <4>1, Zenon DEF Result
    <3> QED
      BY <3>1, <3>2 DEF PlainResult
  <2> QED
    BY <2>1, <2>2
<1> QED
  BY <1>1, <1>3, <1>4 DEF ecdsa_signature_parse_compact

\* SignedVerifies for every key, message and nonce.
LEMMA MadeVerifies ==
  ASSUME NEW k \in 1 .. Order-1, NEW m \in B32, NEW non \in 1 .. Order-1, NEW g,
         Made(g, k, Scalar32(m), non)
  PROVE  /\ g \in Sigs
         /\ ecdsa_verify(Both, ecdsa_recoverable_signature_convert(g), m, Mult(k)).ret
         /\ ecdsa_recover(Both, g, m) = Result(TRUE, Mult(k))
<1>1. Scalar32(m) \in Int
  BY ScalarFacts DEF Scalar32
<1>2. g \in Sigs /\ g.r # 0 /\ g.s # 0 /\ ~IsHigh(g.s)
  BY <1>1, SignFacts
<1>3. PICK l \in Int : /\ XMatches(g.r, Mult(l)) /\ Explains(g.r, g.s, Scalar32(m), k, l)
                       /\ NoncePoint(g) = {Mult(l)}
  BY <1>1, SignFacts
<1>4. Mult(l) \in NoncePoint(g)
  BY <1>3
<1>5. ecdsa_recover(Both, g, m) = Result(TRUE, Mult(k))
  BY <1>2, <1>3, <1>4, RecoverFacts
<1>6. Mult(k) \in Verifiers(g, m)
  BY <1>2, <1>3, VerifiersIff
<1>7. ecdsa_verify(Both, g, m, Mult(k)).ret
  BY <1>6 DEF Verifiers
<1>8. ecdsa_verify(Both, Plain(g), m, Mult(k)) = ecdsa_verify(Both, g, m, Mult(k))
  <2>1. Plain(g).r = g.r /\ Plain(g).s = g.s
    BY DEF Plain
  <2> QED
    BY <2>1 DEF ecdsa_verify
<1> QED
  BY <1>2, <1>5, <1>7, <1>8 DEF ecdsa_recoverable_signature_convert

-----------------------------------------------------------------------------
(* Public keys as bytes.                                                   *)

\* Parsing gives a point or fails and zeroes the object.
LEMMA ParseIsKey ==
  ASSUME NEW b, b.x \in Nat, b.y \in Nat
  PROVE  \/ ec_pubkey_parse(b) = Result(FALSE, ZeroKey)
         \/ \E q \in Points : ec_pubkey_parse(b) = Result(TRUE, q)
<1> DEFINE s == eckey_pubkey_parse(b)
<1>1. s \subseteq Points
  <2>1. CASE b.size = 33 /\ b.tag \in {2, 3}
    BY <2>1 DEF eckey_pubkey_parse, Lift
  <2>2. CASE ~(b.size = 33 /\ b.tag \in {2, 3}) /\ b.size = 65 /\ b.tag \in {4, 6, 7}
    <3> SUFFICES ASSUME NEW q \in s PROVE q \in Points
      OBVIOUS
    <3>1. q = <<b.x, b.y>> /\ b.x < P /\ b.y < P /\ OnCurve(q)
      BY <2>2 DEF eckey_pubkey_parse
    <3>2. b.x \in 0 .. P-1 /\ b.y \in 0 .. P-1
      BY <3>1, OrderFacts
    <3>3. q \in {p \in (0 .. P-1) \X (0 .. P-1) : OnCurve(p)}
      BY <3>1, <3>2
    <3> QED
      BY <3>3, GroupLaw DEF Points
  <2>3. CASE ~(b.size = 33 /\ b.tag \in {2, 3}) /\ ~(b.size = 65 /\ b.tag \in {4, 6, 7})
    <3>1. s = {}
      BY <2>3 DEF eckey_pubkey_parse
    <3> QED
      BY <3>1
  <2> QED
    BY <2>1, <2>2, <2>3
<1>2. ec_pubkey_parse(b) = Result(s # {}, Only(s, ZeroKey))
  BY DEF ec_pubkey_parse
<1> HIDE DEF s
<1>3. CASE s = {}
  BY <1>2, <1>3 DEF Only
<1>4. CASE s # {}
  <2>1. Only(s, ZeroKey) \in s
    BY <1>4 DEF Only
  <2> QED
    BY <1>1, <1>2, <1>4, <2>1
<1> QED
  BY <1>3, <1>4

\* Serialising a key and parsing the bytes gives it back, in all three forms.
LEMMA SerializeFacts ==
  ASSUME NEW q \in Points, NEW l \in {33, 65}
  PROVE  LET b == ec_pubkey_serialize(q, l, l = 33)
         IN  /\ b = Result(TRUE, b.out) /\ ec_pubkey_parse(b.out) = Result(TRUE, q)
             /\ l = 65 => ec_pubkey_parse([b.out EXCEPT !.tag = 6 + (q[2] % 2)]) = Result(TRUE, q)
<1>1. PICK j \in 1 .. Order-1 : q = Mult(j) /\ q # Inf
  BY PointIsMultiple
<1>2. j \in Int
  BY OrderFacts
<1>3. /\ q[1] \in 0 .. P-1 /\ q[2] \in 0 .. P-1 /\ q = <<q[1], q[2]>> /\ q[1] # 0 /\ OnCurve(q)
      /\ P \in Nat
  BY <1>1, <1>2, PointFacts, OrderFacts
<1>4. q[1] < P /\ q[2] < P /\ (q[2] % 2 = 0 \/ q[2] % 2 = 1)
  BY <1>3
<1>5. \A b : eckey_pubkey_parse(b) = {q} => ec_pubkey_parse(b) = Result(TRUE, q)
  BY DEF ec_pubkey_parse, Only
<1>6. CASE l = 33
  <2> DEFINE b == [size |-> 33, tag |-> 2 + (q[2] % 2), x |-> q[1], y |-> 0]
  <2>1. ec_pubkey_serialize(q, l, l = 33) = Result(TRUE, b)
    BY <1>3, <1>6 DEF ec_pubkey_serialize, eckey_pubkey_serialize, pubkey_load
  <2>2. (b.tag = 3) \in BOOLEAN /\ (q[2] % 2 = 1 <=> b.tag = 3) /\ b.tag \in {2, 3}
    BY <1>4
  <2>3. Lift(q[1], b.tag = 3) = {q}
    BY <1>1, <1>2, <2>2, LiftFacts
  <2>4. eckey_pubkey_parse(b) = {q}
    BY <1>4, <2>2, <2>3 DEF eckey_pubkey_parse
  <2>5. Result(TRUE, b).out = b
    BY DEF Result
  <2>6. ec_pubkey_parse(b) = Result(TRUE, q)
    BY <1>5, <2>4
  <2>7. l # 65
    BY <1>6
  <2> HIDE DEF b
  <2> QED
    BY <2>1, <2>5, <2>6, <2>7
<1>7. CASE l = 65
  <2> DEFINE b == [size |-> 65, tag |-> 4, x |-> q[1], y |-> q[2]]
             h == [b EXCEPT !.tag = 6 + (q[2] % 2)]
  <2>1. ec_pubkey_serialize(q, l, l = 33) = Result(TRUE, b)
    BY <1>3, <1>7 DEF ec_pubkey_serialize, eckey_pubkey_serialize, pubkey_load
  <2>2. eckey_pubkey_parse(b) = {q}
    BY <1>3, <1>4 DEF eckey_pubkey_parse
  <2>3. h.size = 65 /\ h.x = q[1] /\ h.y = q[2] /\ h.tag \in {6, 7} /\ (q[2] % 2 = 1 <=> h.tag = 7)
    BY <1>4
  <2>4. eckey_pubkey_parse(h) = {q}
    <3> HIDE DEF h
    <3> QED
      BY <1>3, <1>4, <2>3 DEF eckey_pubkey_parse
  <2>5. Result(TRUE, b).out = b
    BY DEF Result
  <2> HIDE DEF b
  <2> QED
    BY <1>5, <1>7, <2>1, <2>2, <2>4, <2>5
<1> QED
  BY <1>6, <1>7

-----------------------------------------------------------------------------
(* The invariant: whatever calls failed, the public key object is zeroed   *)
(* or a point, the signature object holds scalars, and a signature made    *)
(* here is what one attempt with some nonce made.                          *)

KeyObject(q) == q = ZeroKey \/ q \in Points
MadeHere == signer # 0 =>
  signer \in 1 .. Order-1 /\ \E non \in 1 .. Order-1 : Made(sig, signer, Scalar32(msg), non)
SecpInv ==
  /\ seckey \in B32 /\ msg \in Msgs /\ sig \in Sigs
  /\ KeyObject(pubkey)
  /\ MadeHere

\* Scalars, and zero, are 32-byte strings.
LEMMA ScalarsAreBytes == 0 .. Order-1 \subseteq B32 /\ 0 \in B32 /\ ZeroSig \in Sigs
<1>1. Order \in Nat \ {0} /\ Order < P /\ P \in Nat /\ B32Max \in P .. 2 * Order - 1
  BY OrderFacts, BytesAssumption
<1> QED
  BY <1>1 DEF B32, ZeroSig, Sigs, Recids

\* Two points added one by one to infinity.
LEMMA SumOfTwo ==
  ASSUME NEW a, NEW b
  PROVE  PointSum(<<a, b>>) = AffineAdd(a, b)
<1> DEFINE qs == <<a, b>>
           F(f) == [i \in 0 .. 2 |-> IF i = 0 THEN Inf ELSE AffineAdd(f[i-1], qs[i])]
           g == [i \in 0 .. 2 |-> IF i = 0 THEN Inf ELSE IF i = 1 THEN a ELSE AffineAdd(a, b)]
           sum == CHOOSE f : f = F(f)
<1>1. AffineAdd(Inf, a) = a
  BY DEF AffineAdd
<1>2. g = F(g)
  <2>1. ASSUME NEW i \in 0 .. 2 PROVE g[i] = F(g)[i]
    <3>1. i = 0 \/ i = 1 \/ i = 2
      BY <2>1
    <3>2. g[0] = Inf /\ g[1] = a /\ g[2] = AffineAdd(a, b) /\ qs[1] = a /\ qs[2] = b
      OBVIOUS
    <3>3. F(g)[0] = Inf /\ F(g)[1] = AffineAdd(g[0], qs[1]) /\ F(g)[2] = AffineAdd(g[1], qs[2])
      OBVIOUS
    <3> QED
      BY <1>1, <3>1, <3>2, <3>3
  <2> QED
    BY <2>1
<1>3. sum = F(sum)
  BY <1>2
<1>4. PointSum(qs) = sum[2]
  BY DEF PointSum
<1> HIDE DEF sum
<1>5. sum[0] = Inf /\ sum[1] = AffineAdd(sum[0], a) /\ sum[2] = AffineAdd(sum[1], b)
  BY <1>3
<1> QED
  BY <1>1, <1>4, <1>5

\* A multiple that is not infinity is a key object; so is a zeroed one.
LEMMA OutIsKey ==
  ASSUME NEW i \in Int
  PROVE  KeyObject(ZeroKey) /\ KeyObject(IF Mult(i) = Inf THEN ZeroKey ELSE Mult(i))
BY PointFacts DEF KeyObject

\* Each call on a public key object leaves a key object.
LEMMA PubkeyCalls ==
  ASSUME NEW c, NEW q, KeyObject(q), NEW k \in B32
  PROVE  /\ KeyObject(ec_pubkey_create(c, k).out)
         /\ \A t \in B32 : /\ KeyObject(ec_pubkey_tweak_add(c, q, t).out)
                           /\ KeyObject(ec_pubkey_tweak_mul(c, q, t).out)
         /\ \A j \in 1 .. Order-1 : KeyObject(ec_pubkey_combine(<<q, Mult(j)>>).out)
<1>1. KeyObject(ec_pubkey_create(c, k).out)
  <2>1. CASE ~c.sign \/ ~ec_seckey_verify(k)
    <3>1. ec_pubkey_create(c, k).out = ZeroKey
      BY <2>1 DEF ec_pubkey_create, Illegal, Result
    <3> QED
      BY <3>1 DEF KeyObject
  <2>2. CASE c.sign /\ ec_seckey_verify(k)
    <3>1. ec_pubkey_create(c, k).out = Mult(k)
      BY <2>2 DEF ec_pubkey_create, Result
    <3>2. Mult(k) \in Points
      BY <2>2, SeckeyFacts, KeyFacts
    <3> QED
      BY <3>1, <3>2 DEF KeyObject
  <2> QED
    BY <2>1, <2>2
<1>2. ASSUME q # ZeroKey PROVE Log[q] \in Int /\ \E j \in Int : q = Mult(j)
  <2>1. PICK j \in 1 .. Order-1 : q = Mult(j) /\ q # Inf
    BY <1>2, PointIsMultiple DEF KeyObject
  <2>2. j \in Int
    BY OrderFacts
  <2> QED
    BY <2>1, <2>2, LogFacts
<1>3. ~pubkey_load(ZeroKey)
  BY DEF pubkey_load, ZeroKey
<1>4. ASSUME NEW t, NEW j, q # ZeroKey => j \in Int PROVE KeyObject(TweakedKey(c, q, t, j).out)
  <2> DEFINE f == TweakedKey(c, q, t, j)
  <2>1. \/ f = Illegal(q) \/ f = Result(FALSE, ZeroKey) \/ f = Illegal(ZeroKey)
        \/ pubkey_load(q) /\ f.out = IF Mult(j) = Inf THEN ZeroKey ELSE Mult(j)
    BY DEF TweakedKey, Result
  <2> HIDE DEF f
  <2>2. Illegal(q).out = q /\ Illegal(ZeroKey).out = ZeroKey /\ Result(FALSE, ZeroKey).out = ZeroKey
    BY DEF Illegal, Result
  <2>3. KeyObject(ZeroKey)
    BY DEF KeyObject
  <2>4. ASSUME pubkey_load(q) PROVE KeyObject(IF Mult(j) = Inf THEN ZeroKey ELSE Mult(j))
    BY <1>3, <1>4, <2>4, OutIsKey
  <2>5. KeyObject(f.out)
    BY <2>1, <2>2, <2>3, <2>4
  <2> QED
    BY <2>5 DEF f
<1>5. ASSUME NEW t \in B32
      PROVE  KeyObject(ec_pubkey_tweak_add(c, q, t).out) /\ KeyObject(ec_pubkey_tweak_mul(c, q, t).out)
  <2>1. t \in Int
    BY ScalarFacts
  <2>2. q # ZeroKey => Log[q] + t \in Int /\ Log[q] * t \in Int
    BY <1>2, <2>1
  <2> QED
    BY <1>4, <2>2 DEF ec_pubkey_tweak_add, ec_pubkey_tweak_mul
<1>6. ASSUME NEW j \in 1 .. Order-1 PROVE KeyObject(ec_pubkey_combine(<<q, Mult(j)>>).out)
  <2> DEFINE qs == <<q, Mult(j)>>
             f == ec_pubkey_combine(qs)
             s == PointSum(qs)
  <2>1. \/ f = Illegal(ZeroKey)
        \/ pubkey_load(q) /\ f.out = IF s = Inf THEN ZeroKey ELSE s
    <3>1. 1 \in DOMAIN qs /\ qs[1] = q
      OBVIOUS
    <3> HIDE DEF s
    <3>2. CASE qs = <<>> \/ \E i \in DOMAIN qs : ~pubkey_load(qs[i])
      BY <3>2 DEF ec_pubkey_combine
    <3>3. CASE ~(qs = <<>> \/ \E i \in DOMAIN qs : ~pubkey_load(qs[i]))
      <4>1. pubkey_load(q)
        BY <3>1, <3>3
      <4>2. f = Result(s # Inf, IF s = Inf THEN ZeroKey ELSE s)
        BY <3>3 DEF ec_pubkey_combine, s
      <4> QED
        BY <4>1, <4>2 DEF Result
    <3> QED
      BY <3>2, <3>3
  <2>2. s = AffineAdd(q, Mult(j))
    BY SumOfTwo
  <2> HIDE DEF f, s
  <2>3. CASE f = Illegal(ZeroKey)
    <3>1. f.out = ZeroKey
      BY <2>3 DEF Illegal
    <3> QED
      BY <3>1 DEF KeyObject, f
  <2>4. CASE pubkey_load(q) /\ f.out = IF s = Inf THEN ZeroKey ELSE s
    <3>1. PICK i \in Int : q = Mult(i)
      BY <1>2, <1>3, <2>4
    <3>2. j \in Int /\ i + j \in Int
      BY OrderFacts
    <3>3. s = Mult(i + j)
      BY <2>2, <3>1, <3>2, MultAdd
    <3>4. f.out = IF Mult(i + j) = Inf THEN ZeroKey ELSE Mult(i + j)
      BY <2>4, <3>3
    <3> QED
      BY <3>2, <3>4, OutIsKey DEF f
  <2> QED
    BY <2>1, <2>3, <2>4
<1> QED
  BY <1>1, <1>5, <1>6

\* Signing gives what one attempt made, or fails and zeroes the object.
LEMMA SigningCallFacts ==
  ASSUME NEW c, NEW m \in B32, NEW k \in B32, NEW nonces \in NonceStreams
  PROVE  LET f == ecdsa_sign_recoverable(c, m, k, nonces)
         IN  \/ f.out = ZeroSig /\ f.ret = FALSE
             \/ /\ f.ret = TRUE /\ k \in 1 .. Order-1
                /\ \E non \in 1 .. Order-1 : Made(f.out, k, Scalar32(m), non)
<1> DEFINE f == ecdsa_sign_recoverable(c, m, k, nonces)
           n == Scalar32(m)
           S == Successes(k, n, nonces)
<1>1. \A i \in DOMAIN nonces : i \in Nat /\ nonces[i] \in Nat
  <2>1. CASE \E x \in B32 : nonces = <<x, 9>>
    <3>1. PICK x \in B32 : nonces = <<x, 9>>
      BY <2>1
    <3>2. x \in Nat
      BY ScalarFacts
    <3> QED
      BY <3>1, <3>2
  <2>2. CASE nonces = <<0, Order, 5>>
    BY <2>2, OrderFacts
  <2> QED
    BY <2>1, <2>2 DEF NonceStreams
<1>2. CASE ~c.sign \/ ~ec_seckey_verify(k)
  BY <1>2 DEF ecdsa_sign_recoverable, Illegal, Result
<1>3. CASE c.sign /\ ec_seckey_verify(k)
  <2>1. k \in 1 .. Order-1
    BY <1>3, SeckeyFacts
  <2>2. f = FirstSignature(k, n, nonces)
    BY <1>3 DEF ecdsa_sign_recoverable, Scalar32
  <2>3. CASE S = {}
    BY <2>2, <2>3 DEF FirstSignature, Result
  <2>4. CASE S # {}
    <3> DEFINE i == Min(S)
               a == Attempt(k, n, nonces[i])
    <3>1. i \in S
      <4>1. S \subseteq Nat
        BY <1>1 DEF Successes
      <4>2. \E x \in S : \A y \in S : x <= y
        BY <2>4, <4>1, LeastNatural
      <4> HIDE DEF S
      <4> QED
        BY <4>2 DEF Min
    <3>2. nonces[i] \in Nat /\ a.ret
      BY <1>1, <3>1 DEF Successes
    <3>3. f = Result(TRUE, [r |-> a.r, s |-> a.s, recid |-> a.recid])
      BY <2>2, <2>4 DEF FirstSignature
    <3> DEFINE x == nonces[i]
    <3> HIDE DEF i, x
    <3>4. ~scalar_set_b32(x).overflow /\ scalar_set_b32(x).v # 0 /\ a = ecdsa_sig_sign(k, n, scalar_set_b32(x).v)
      BY <3>2 DEF Attempt, x
    <3>5. x \in 1 .. Order-1 /\ scalar_set_b32(x).v = x
      <4>1. ~(x >= Order)
        BY <3>4 DEF scalar_set_b32
      <4>2. scalar_set_b32(x).v = x
        BY <4>1 DEF scalar_set_b32
      <4> QED
        BY <3>2, <3>4, <4>1, <4>2, OrderFacts DEF x
    <3>6. a = ecdsa_sig_sign(k, n, x)
      BY <3>4, <3>5
    <3>7. f.out = [r |-> a.r, s |-> a.s, recid |-> a.recid] /\ f.ret = TRUE
      BY <3>3 DEF Result
    <3> HIDE DEF f, n, a
    <3>8. Made(f.out, k, n, x)
      BY <3>2, <3>6, <3>7 DEF Made, a
    <3> QED
      BY <2>1, <3>5, <3>7, <3>8 DEF f, n
  <2> QED
    BY <2>3, <2>4
<1> QED
  BY <1>2, <1>3

LEMMA InitSecpInv == Init => SecpInv
<1> SUFFICES ASSUME Init PROVE SecpInv
  OBVIOUS
<1>1. seckey \in B32 /\ sig \in Sigs
  BY ScalarsAreBytes DEF Init
<1> QED
  BY <1>1 DEF Init, SecpInv, KeyObject, MadeHere

\* Calls on keys.
LEMMA KeyCallsKeep ==
  ASSUME SecpInv, KeyCall, seckey' \in B32, KeyObject(pubkey)'
  PROVE  SecpInv'
<1>1. msg' = msg /\ sig' = sig /\ signer' = signer
  BY DEF KeyCall
<1> QED
  BY <1>1 DEF SecpInv, MadeHere

LEMMA NextSecpInv == SecpInv /\ [Next]_vars => SecpInv'
<1> SUFFICES ASSUME SecpInv, [Next]_vars PROVE SecpInv'
  OBVIOUS
<1>0. /\ seckey \in B32 /\ msg \in Msgs /\ sig \in Sigs /\ KeyObject(pubkey)
      /\ Keys \subseteq B32 /\ Tweaks \subseteq B32 /\ Msgs \subseteq B32
      /\ Rs \subseteq B32 /\ Ss \subseteq B32
  BY BytesAssumption DEF SecpInv, B32
<1>1. CASE UNCHANGED vars
  BY <1>1 DEF vars, SecpInv, MadeHere, KeyObject
<1>2. CASE ContextCreate \/ ContextDestroy
  BY <1>2 DEF ContextCreate, ContextDestroy, SecpInv, MadeHere, KeyObject
<1>3. CASE LoadKey
  <2>1. KeyCall /\ seckey' \in B32 /\ pubkey' = pubkey
    BY <1>0, <1>3 DEF LoadKey
  <2> QED
    BY <1>0, <2>1, KeyCallsKeep DEF KeyObject
<1>4. ASSUME NEW f, OnSeckey(f), f.out \in B32 PROVE SecpInv'
  <2>1. KeyCall /\ seckey' \in B32 /\ pubkey' = pubkey
    BY <1>4 DEF OnSeckey
  <2> QED
    BY <1>0, <2>1, KeyCallsKeep DEF KeyObject
<1>5. ASSUME NEW f, OnPubkey(f), KeyObject(f.out) PROVE SecpInv'
  <2>1. KeyCall /\ pubkey' = f.out /\ seckey' = seckey
    BY <1>5 DEF OnPubkey
  <2> QED
    BY <1>0, <1>5, <2>1, KeyCallsKeep DEF KeyObject
<1>6. CASE PrivkeyTweakAdd \/ PrivkeyTweakMul
  <2>1. ASSUME NEW t \in Tweaks
        PROVE  ec_privkey_tweak_add(seckey, t).out \in B32 /\ ec_privkey_tweak_mul(seckey, t).out \in B32
    <3> DEFINE a == scalar_set_b32(seckey).v
               b == scalar_set_b32(t).v
    <3>1. a \in Int /\ b \in Int
      BY <1>0, ScalarFacts
    <3>2. a + b \in Int /\ a * b \in Int
      BY <3>1
    <3>3. (a + b) % Order \in B32 /\ (a * b) % Order \in B32 /\ 0 \in B32
      BY <3>2, Reduced, ScalarsAreBytes
    <3> QED
      BY <3>3 DEF ec_privkey_tweak_add, ec_privkey_tweak_mul, Result
  <2> QED
    BY <1>4, <1>6, <2>1 DEF PrivkeyTweakAdd, PrivkeyTweakMul
<1>7. CASE PubkeyCreate
  BY <1>0, <1>5, <1>7, PubkeyCalls DEF PubkeyCreate
<1>8. CASE PubkeyParse
  <2>1. PICK b \in EncodingsIn : OnPubkey(ec_pubkey_parse(b))
    BY <1>8 DEF PubkeyParse
  <2>2. b.x \in Nat /\ b.y \in Nat
    BY ScalarFacts DEF EncodingsIn
  <2>3. KeyObject(ec_pubkey_parse(b).out)
    BY <2>2, ParseIsKey DEF KeyObject, Result
  <2> QED
    BY <1>5, <2>1, <2>3
<1>9. CASE PubkeyTweakAdd \/ PubkeyTweakMul
  BY <1>0, <1>5, <1>9, PubkeyCalls DEF PubkeyTweakAdd, PubkeyTweakMul
<1>10. CASE PubkeyCombine
  BY <1>0, <1>5, <1>10, PubkeyCalls DEF PubkeyCombine
<1>11. CASE SignRecoverable
  <2>1. PICK nonces \in NonceStreams :
          LET f == ecdsa_sign_recoverable(ctx, msg, seckey, nonces)
          IN  /\ sig' = f.out
              /\ signer' = IF f.ret THEN seckey ELSE 0
              /\ seckey' = IF f.ret THEN 0 ELSE seckey
    BY <1>11 DEF SignRecoverable
  <2>2. pubkey' = pubkey /\ msg' = msg
    BY <1>11 DEF SignRecoverable
  <2> DEFINE f == ecdsa_sign_recoverable(ctx, msg, seckey, nonces)
  <2>3. msg \in B32
    BY <1>0
  <2>4. \/ f.out = ZeroSig /\ f.ret = FALSE
        \/ /\ f.ret = TRUE /\ seckey \in 1 .. Order-1
           /\ \E non \in 1 .. Order-1 : Made(f.out, seckey, Scalar32(msg), non)
    BY <1>0, <2>3, SigningCallFacts
  <2>5. sig' = f.out /\ signer' = (IF f.ret THEN seckey ELSE 0) /\ seckey' = (IF f.ret THEN 0 ELSE seckey)
    BY <2>1
  <2> HIDE DEF f
  <2>6. CASE f.out = ZeroSig /\ f.ret = FALSE
    <3>1. sig' \in Sigs /\ signer' = 0 /\ seckey' \in B32
      BY <1>0, <2>5, <2>6, ScalarsAreBytes
    <3> QED
      BY <1>0, <2>2, <3>1 DEF SecpInv, MadeHere, KeyObject
  <2>7. CASE /\ f.ret = TRUE /\ seckey \in 1 .. Order-1
             /\ \E non \in 1 .. Order-1 : Made(f.out, seckey, Scalar32(msg), non)
    <3>1. PICK non \in 1 .. Order-1 : Made(f.out, seckey, Scalar32(msg), non)
      BY <2>7
    <3>2. f.out \in Sigs
      BY <2>3, <2>7, <3>1, MadeVerifies
    <3>3. sig' = f.out /\ signer' = seckey /\ seckey' \in B32
      BY <2>5, <2>7, ScalarsAreBytes
    <3>4. MadeHere'
      BY <2>2, <2>7, <3>1, <3>3 DEF MadeHere
    <3> QED
      BY <1>0, <2>2, <3>2, <3>3, <3>4 DEF SecpInv, KeyObject
  <2> QED
    BY <2>4, <2>6, <2>7
<1>12. CASE ReceiveSignature
  <2>1. UNCHANGED <<seckey, pubkey, msg, signer>> /\ sig = ZeroSig
    BY <1>12 DEF ReceiveSignature, SigningCall
  <2>2. PICK r \in Rs, s \in Ss, recid \in 0 .. 4 :
          sig' = ecdsa_recoverable_signature_parse_compact(r, s, recid).out
    BY <1>12 DEF ReceiveSignature
  <2>3. r \in B32 /\ s \in B32
    BY <1>0
  <2>4. sig' \in Sigs
    <3>1. CASE sig' = ZeroSig
      BY <3>1, ScalarsAreBytes
    <3>2. CASE sig' # ZeroSig
      <4>1. /\ recid \in Recids /\ ~scalar_set_b32(r).overflow /\ ~scalar_set_b32(s).overflow
            /\ sig' = [r |-> r, s |-> s, recid |-> recid]
        BY <2>2, <3>2 DEF ecdsa_recoverable_signature_parse_compact, Illegal, Result
      <4>2. r \in 0 .. Order-1 /\ s \in 0 .. Order-1
        BY <2>3, <4>1, ScalarFacts
      <4> QED
        BY <4>1, <4>2 DEF Sigs
    <3> QED
      BY <3>1, <3>2
  <2>5. signer = 0
    <3>1. ASSUME signer # 0 PROVE FALSE
      <4>1. msg \in B32 /\ signer \in 1 .. Order-1
        BY <1>0, <3>1 DEF SecpInv, MadeHere
      <4>2. PICK non \in 1 .. Order-1 : Made(sig, signer, Scalar32(msg), non)
        BY <3>1 DEF SecpInv, MadeHere
      <4>3. Scalar32(msg) \in Int
        BY <4>1, ScalarFacts DEF Scalar32
      <4>4. sig.r # 0
        BY <4>1, <4>2, <4>3, SignFacts
      <4> QED
        BY <2>1, <4>4 DEF ZeroSig
    <3> QED
      BY <3>1
  <2> QED
    BY <1>0, <2>1, <2>4, <2>5 DEF SecpInv, MadeHere, KeyObject
<1>13. CASE Recover
  <2>1. pubkey' = ecdsa_recover(ctx, sig, msg).out /\ UNCHANGED <<seckey, sig, msg, signer>>
    BY <1>13 DEF Recover
  <2>2. KeyObject(ecdsa_recover(ctx, sig, msg).out)
    <3>1. CASE ~ctx.verify
      BY <3>1 DEF ecdsa_recover, Illegal, KeyObject
    <3>2. CASE ctx.verify
      <4>1. ecdsa_recover(ctx, sig, msg) = ecdsa_recover(Both, sig, msg)
        BY <3>2 DEF ecdsa_recover, Both
      <4>2. \/ ecdsa_recover(Both, sig, msg) = Result(FALSE, ZeroKey)
            \/ \E d \in 1 .. Order-1 : ecdsa_recover(Both, sig, msg) = Result(TRUE, Mult(d))
        BY <1>0, RecoverFacts
      <4> QED
        BY <4>1, <4>2 DEF Result, KeyObject, Points
    <3> QED
      BY <3>1, <3>2
  <2>3. KeyObject(pubkey')
    BY <2>1, <2>2
  <2> QED
    BY <1>0, <2>1, <2>3 DEF SecpInv, MadeHere, KeyObject
<1> QED
  BY <1>1, <1>2, <1>3, <1>6, <1>7, <1>8, <1>9, <1>10, <1>11, <1>12, <1>13 DEF Next

-----------------------------------------------------------------------------
(* The properties.                                                         *)

LEMMA PairsOfInv == SecpInv => KeyPairsStayPairs
<1> SUFFICES ASSUME SecpInv, Matching(seckey, pubkey)
             PROVE  /\ \A t \in B32 :
                        /\ Commute(ec_privkey_tweak_add(seckey, t), ec_pubkey_tweak_add(Both, pubkey, t))
                        /\ Commute(ec_privkey_tweak_mul(seckey, t), ec_pubkey_tweak_mul(Both, pubkey, t))
                    /\ \A j \in 1 .. Order-1 :
                        /\ ecdh(Mult(j), seckey) = ecdh(pubkey, j)
                        /\ ext_scalar_mul(Mult(j), seckey) = ext_scalar_mul(pubkey, j)
  BY DEF KeyPairsStayPairs
<1>1. pubkey = Mult(seckey) /\ ec_seckey_verify(seckey) /\ seckey \in B32
  BY DEF Matching, SecpInv
<1>2. seckey \in 1 .. Order-1
  BY <1>1, SeckeyFacts
<1> QED
  BY <1>1, <1>2, TweaksCommute, SecretsAgree

LEMMA SignedOfInv == SecpInv => SignedVerifies
<1> SUFFICES ASSUME SecpInv, signer # 0
             PROVE  /\ ecdsa_verify(Both, ecdsa_recoverable_signature_convert(sig), msg, Mult(signer)).ret
                    /\ ecdsa_recover(Both, sig, msg) = Result(TRUE, Mult(signer))
                    /\ ecdsa_recoverable_signature_parse_compact(sig.r, sig.s, sig.recid) = Result(TRUE, sig)
  BY DEF SignedVerifies, ecdsa_recoverable_signature_serialize_compact
<1>1. msg \in B32 /\ sig \in Sigs /\ signer \in 1 .. Order-1
  BY BytesAssumption DEF SecpInv, MadeHere, B32
<1>2. PICK non \in 1 .. Order-1 : Made(sig, signer, Scalar32(msg), non)
  BY DEF SecpInv, MadeHere
<1> QED
  BY <1>1, <1>2, MadeVerifies, CompactFacts

LEMMA ExactOfInv == SecpInv => RecoveryIsExact
<1> SUFFICES ASSUME SecpInv PROVE RecoveryIsExact
  OBVIOUS
<1>1. msg \in B32 /\ sig \in Sigs
  BY BytesAssumption DEF SecpInv, B32
<1> QED
  BY <1>1, Exact DEF RecoveryIsExact

LEMMA EncodingsOfInv == SecpInv => EncodingsNameKeys
<1> SUFFICES ASSUME SecpInv PROVE EncodingsNameKeys
  OBVIOUS
<1>1. pubkey = ZeroKey \/ pubkey \in Points
  BY DEF SecpInv, KeyObject
<1>2. ASSUME NEW q \in Points, NEW outlen \in {33, 65}
      PROVE  LET b == ec_pubkey_serialize(q, outlen, outlen = 33)
             IN  /\ b.ret /\ ec_pubkey_parse(b.out) = Result(TRUE, q)
                 /\ outlen = 65 => ec_pubkey_parse([b.out EXCEPT !.tag = 6 + (q[2] % 2)]).out = q
                 /\ \A l \in {33, 65} :
                      LET e == ext_reencode_pubkey(l, b.out)
                      IN  e.ret /\ ec_pubkey_parse(e.out).out = q
  <2> DEFINE b == ec_pubkey_serialize(q, outlen, outlen = 33)
  <2>1. /\ b = Result(TRUE, b.out) /\ ec_pubkey_parse(b.out) = Result(TRUE, q)
        /\ outlen = 65 => ec_pubkey_parse([b.out EXCEPT !.tag = 6 + (q[2] % 2)]) = Result(TRUE, q)
    BY SerializeFacts
  <2> HIDE DEF b
  <2>2. b.ret /\ ec_pubkey_parse(b.out).ret /\ ec_pubkey_parse(b.out).out = q
    BY <2>1 DEF Result
  <2>3. ASSUME NEW l \in {33, 65}
        PROVE  ext_reencode_pubkey(l, b.out).ret
               /\ ec_pubkey_parse(ext_reencode_pubkey(l, b.out).out).out = q
    <3> DEFINE e == ec_pubkey_serialize(q, l, l = 33)
    <3>1. ext_reencode_pubkey(l, b.out) = e
      BY <2>2 DEF ext_reencode_pubkey
    <3>2. e = Result(TRUE, e.out) /\ ec_pubkey_parse(e.out) = Result(TRUE, q)
      BY SerializeFacts
    <3> HIDE DEF e
    <3>3. e.ret /\ ec_pubkey_parse(e.out).out = q
      BY <3>2 DEF Result
    <3> QED
      BY <3>1, <3>3
  <2>4. outlen = 65 => ec_pubkey_parse([b.out EXCEPT !.tag = 6 + (q[2] % 2)]).out = q
    BY <2>1 DEF Result
  <2> QED
    BY <2>1, <2>2, <2>3, <2>4 DEF b
<1> QED
  BY <1>1, <1>2 DEF EncodingsNameKeys

-----------------------------------------------------------------------------
(* The Go binding (module Binding).                                        *)

\* A parsed signature is a signature, a refused one calls nothing.
LEMMA ParsedSignature ==
  ASSUME NEW r \in B32, NEW s \in B32, NEW v \in Recids
  PROVE  LET f == ecdsa_recoverable_signature_parse_compact(r, s, v)
             p == ecdsa_signature_parse_compact(r, s)
         IN  \/ f = Result(FALSE, ZeroSig) /\ p.ret = FALSE /\ p.illegal = FALSE
             \/ /\ [r |-> r, s |-> s, recid |-> v] \in Sigs
                /\ f = Result(TRUE, [r |-> r, s |-> s, recid |-> v])
                /\ p = Result(TRUE, [r |-> r, s |-> s])
<1>1. 0 \in Recids
  BY DEF Recids
<1>2. \A z : PlainResult(Result(FALSE, z)).ret = FALSE /\ PlainResult(Result(FALSE, z)).illegal = FALSE
  BY DEF PlainResult, Result
<1>3. CASE scalar_set_b32(r).overflow \/ scalar_set_b32(s).overflow
  BY <1>1, <1>2, <1>3 DEF ecdsa_recoverable_signature_parse_compact, ecdsa_signature_parse_compact
<1>4. CASE ~(scalar_set_b32(r).overflow \/ scalar_set_b32(s).overflow)
  <2> DEFINE g == [r |-> r, s |-> s, recid |-> v]
  <2>1. r \in 0 .. Order-1 /\ s \in 0 .. Order-1
    BY <1>4, ScalarFacts
  <2>2. g \in Sigs /\ g.r = r /\ g.s = s /\ g.recid = v
    BY <2>1 DEF Sigs
  <2>3. Plain(g) = [r |-> r, s |-> s]
    BY <2>2 DEF Plain
  <2> HIDE DEF g
  <2>4. /\ ecdsa_recoverable_signature_parse_compact(g.r, g.s, g.recid) = Result(TRUE, g)
        /\ ecdsa_signature_parse_compact(g.r, g.s) = Result(TRUE, Plain(g))
    BY <2>2, CompactFacts
  <2>5. /\ ecdsa_recoverable_signature_parse_compact(r, s, v) = Result(TRUE, g)
        /\ ecdsa_signature_parse_compact(r, s) = Result(TRUE, [r |-> r, s |-> s])
    BY <2>2, <2>3, <2>4
  <2> QED
    BY <2>2, <2>5 DEF g
<1> QED
  BY <1>3, <1>4

\* The long form of a point is its coordinates, and parses back to it.
LEMMA PointBytes ==
  ASSUME NEW q \in Points
  PROVE  /\ pubkey_load(q)
         /\ ec_pubkey_serialize(q, 65, FALSE) = Result(TRUE, Marshal(q))
         /\ Coordinates(Result(TRUE, Marshal(q))) = q
         /\ ec_pubkey_parse(Marshal(q)) = Result(TRUE, q)
<1>1. pubkey_load(q)
  BY PointIsMultiple, KeyFacts
<1>2. ec_pubkey_serialize(q, 65, FALSE) = Result(TRUE, Marshal(q))
  BY <1>1 DEF ec_pubkey_serialize, eckey_pubkey_serialize, Marshal
<1>3. q = <<q[1], q[2]>>
  <2>1. PICK j \in 1 .. Order-1 : q = Mult(j) /\ q # Inf
    BY PointIsMultiple
  <2>2. j \in Int
    BY OrderFacts
  <2> QED
    BY <2>1, <2>2, PointFacts
<1>4. Coordinates(Result(TRUE, Marshal(q))) = q
  <2>1. Result(TRUE, Marshal(q)).ret = TRUE /\ Result(TRUE, Marshal(q)).out = Marshal(q)
    BY DEF Result
  <2>2. Marshal(q).x = q[1] /\ Marshal(q).y = q[2]
    BY DEF Marshal
  <2> QED
    BY <1>3, <2>1, <2>2 DEF Coordinates
<1>5. ec_pubkey_parse(Marshal(q)) = Result(TRUE, q)
  <2>1. PICK l \in {33, 65} : l = 65
    OBVIOUS
  <2>2. ec_pubkey_serialize(q, l, l = 33) = ec_pubkey_serialize(q, 65, FALSE)
    <3>1. (l = 33) = FALSE
      BY <2>1
    <3> QED
      BY <2>1, <3>1
  <2>3. Result(TRUE, Marshal(q)).out = Marshal(q)
    BY DEF Result
  <2>4. ec_pubkey_parse(ec_pubkey_serialize(q, l, l = 33).out) = Result(TRUE, q)
    BY SerializeFacts
  <2> QED
    BY <1>2, <2>2, <2>3, <2>4
<1> QED
  BY <1>1, <1>2, <1>4, <1>5

\* Serialising a point fails in neither form.
LEMMA SerializedPoint ==
  ASSUME NEW q \in Points, NEW l \in {33, 65}
  PROVE  /\ ec_pubkey_serialize(q, l, l = 33).illegal = FALSE
         /\ ec_pubkey_serialize(q, l, l = 33).ret = TRUE
         /\ l = 65 => ec_pubkey_serialize(q, l, l = 33) = Result(TRUE, Marshal(q))
<1> DEFINE b == ec_pubkey_serialize(q, l, l = 33)
<1>1. b = Result(TRUE, b.out)
  BY SerializeFacts
<1>2. l = 65 => b = ec_pubkey_serialize(q, 65, FALSE)
  <2>1. l = 65 => (l = 33) = FALSE
    OBVIOUS
  <2> QED
    BY <2>1
<1> HIDE DEF b
<1>3. b.illegal = FALSE /\ b.ret = TRUE
  BY <1>1 DEF Result
<1>4. l = 65 => b = Result(TRUE, Marshal(q))
  BY <1>2, PointBytes
<1> QED
  BY <1>3, <1>4 DEF b

\* RecoverPubkey's call, for all bytes whose last is a recovery id.
LEMMA RecoverCall ==
  ASSUME NEW r \in B32, NEW s \in B32, NEW v \in Recids, NEW m \in B32
  PROVE  LET f == ext_ecdsa_recover(Both, r, s, v, m)
         IN  f.illegal = FALSE /\ KeyObject(Coordinates(f))
<1> DEFINE f == ext_ecdsa_recover(Both, r, s, v, m)
           g == [r |-> r, s |-> s, recid |-> v]
           p == ecdsa_recoverable_signature_parse_compact(r, s, v)
           e == ecdsa_recover(Both, g, m)
<1>1. \A z : Result(FALSE, z).illegal = FALSE /\ KeyObject(Coordinates(Result(FALSE, z)))
  BY DEF Result, KeyObject, Coordinates
<1>2. CASE p = Result(FALSE, ZeroSig)
  <2>1. f = Result(FALSE, ZeroSig)
    <3>1. p.ret = FALSE
      BY <1>2 DEF Result
    <3> QED
      BY <1>2, <3>1 DEF ext_ecdsa_recover
  <2> QED
    BY <1>1, <2>1
<1>3. CASE g \in Sigs /\ p = Result(TRUE, g)
  <2>1. e = Result(FALSE, ZeroKey) \/ \E d \in 1 .. Order-1 : e = Result(TRUE, Mult(d))
    BY <1>3, RecoverFacts
  <2>2. f = IF ~e.ret THEN e ELSE ec_pubkey_serialize(e.out, 65, FALSE)
    <3>1. p.ret = TRUE /\ p.out = g
      BY <1>3 DEF Result
    <3> HIDE DEF g
    <3> QED
      BY <3>1 DEF ext_ecdsa_recover
  <2> HIDE DEF e, f, g
  <2>3. CASE e = Result(FALSE, ZeroKey)
    <3>1. e.ret = FALSE
      BY <2>3 DEF Result
    <3>2. f = Result(FALSE, ZeroKey)
      BY <2>2, <2>3, <3>1
    <3> QED
      BY <1>1, <3>2 DEF f
  <2>4. CASE \E d \in 1 .. Order-1 : e = Result(TRUE, Mult(d))
    <3>1. PICK d \in 1 .. Order-1 : e = Result(TRUE, Mult(d))
      BY <2>4
    <3>2. e.ret = TRUE /\ e.out = Mult(d) /\ Mult(d) \in Points
      BY <3>1 DEF Result, Points
    <3>3. f = Result(TRUE, Marshal(Mult(d))) /\ Coordinates(f) = Mult(d)
      <4>1. PICK q \in Points : q = Mult(d)
        BY <3>2
      <4>2. f = ec_pubkey_serialize(q, 65, FALSE)
        BY <2>2, <3>2, <4>1
      <4> QED
        BY <4>1, <4>2, PointBytes
    <3>4. f.illegal = FALSE
      BY <3>3 DEF Result
    <3> QED
      BY <3>2, <3>3, <3>4 DEF KeyObject, f
  <2> QED
    BY <2>1, <2>3, <2>4
<1>4. p = Result(FALSE, ZeroSig) \/ (g \in Sigs /\ p = Result(TRUE, g))
  BY ParsedSignature
<1> QED
  BY <1>2, <1>3, <1>4

\* VerifySignature's call, for all bytes.
LEMMA VerifyCall ==
  ASSUME NEW r \in B32, NEW s \in B32, NEW m \in B32, NEW b, b.x \in Nat, b.y \in Nat
  PROVE  ext_ecdsa_verify(Both, r, s, m, b).illegal = FALSE
<1> DEFINE f == ext_ecdsa_verify(Both, r, s, m, b)
           g == [r |-> r, s |-> s]
           p == ecdsa_signature_parse_compact(r, s)
           e == ec_pubkey_parse(b)
<1>1. CASE p.ret = FALSE /\ p.illegal = FALSE
  <2>1. f = p
    BY <1>1 DEF ext_ecdsa_verify
  <2> QED
    BY <1>1, <2>1
<1>2. CASE p = Result(TRUE, g)
  <2>1. f = IF ~e.ret THEN e ELSE ecdsa_verify(Both, g, m, e.out)
    <3>1. p.ret = TRUE /\ p.out = g
      BY <1>2 DEF Result
    <3> HIDE DEF g
    <3> QED
      BY <3>1 DEF ext_ecdsa_verify
  <2>2. e = Result(FALSE, ZeroKey) \/ \E q \in Points : e = Result(TRUE, q)
    BY ParseIsKey
  <2> HIDE DEF e, f, g
  <2>3. CASE e = Result(FALSE, ZeroKey)
    <3>1. e.ret = FALSE /\ e.illegal = FALSE
      BY <2>3 DEF Result
    <3> QED
      BY <2>1, <3>1 DEF f
  <2>4. CASE \E q \in Points : e = Result(TRUE, q)
    <3>1. PICK q \in Points : e = Result(TRUE, q)
      BY <2>4
    <3>2. e.ret = TRUE /\ e.out = q
      BY <3>1 DEF Result
    <3>3. pubkey_load(q)
      BY PointBytes
    <3>4. ecdsa_verify(Both, g, m, q).illegal = FALSE
      BY <3>3 DEF ecdsa_verify, Both, Result
    <3> QED
      BY <2>1, <3>2, <3>4 DEF f
  <2> QED
    BY <2>2, <2>3, <2>4
<1>3. (p.ret = FALSE /\ p.illegal = FALSE) \/ p = Result(TRUE, g)
  <2>1. 0 \in Recids
    BY DEF Recids
  <2> QED
    BY <2>1, ParsedSignature
<1> QED
  BY <1>1, <1>2, <1>3

\* DecompressPubkey's and CompressPubkey's call, for all bytes, and for a key.
LEMMA ReencodeCall ==
  ASSUME NEW l \in {33, 65}
  PROVE  /\ \A b : b.x \in Nat /\ b.y \in Nat =>
              LET f == ext_reencode_pubkey(l, b)
              IN  f.illegal = FALSE /\ (l = 65 => KeyObject(Coordinates(f)))
         /\ \A q \in Points : LET f == ext_reencode_pubkey(l, Marshal(q))
                              IN  f.illegal = FALSE /\ f.ret = TRUE
<1>1. ASSUME NEW b, b.x \in Nat, b.y \in Nat
      PROVE  LET f == ext_reencode_pubkey(l, b)
             IN  f.illegal = FALSE /\ (l = 65 => KeyObject(Coordinates(f)))
  <2> DEFINE e == ec_pubkey_parse(b)
             f == ext_reencode_pubkey(l, b)
  <2>1. e = Result(FALSE, ZeroKey) \/ \E q \in Points : e = Result(TRUE, q)
    BY <1>1, ParseIsKey
  <2>2. f = IF ~e.ret THEN e ELSE ec_pubkey_serialize(e.out, l, l = 33)
    BY DEF ext_reencode_pubkey
  <2> HIDE DEF e, f
  <2>3. CASE e = Result(FALSE, ZeroKey)
    <3>1. e.ret = FALSE /\ e.illegal = FALSE
      BY <2>3 DEF Result
    <3>2. f = e
      BY <2>2, <3>1
    <3> QED
      BY <3>1, <3>2 DEF KeyObject, Coordinates, f
  <2>4. CASE \E q \in Points : e = Result(TRUE, q)
    <3>1. PICK q \in Points : e = Result(TRUE, q)
      BY <2>4
    <3>2. e.ret = TRUE /\ e.out = q
      BY <3>1 DEF Result
    <3>3. f = ec_pubkey_serialize(q, l, l = 33)
      BY <2>2, <3>2
    <3>4. f.illegal = FALSE
      BY <3>3, SerializedPoint
    <3>5. l = 65 => Coordinates(f) = q
      <4>1. l = 65 => f = Result(TRUE, Marshal(q))
        BY <3>3, SerializedPoint
      <4> QED
        BY <4>1, PointBytes
    <3> QED
      BY <3>4, <3>5 DEF KeyObject, f
  <2> QED
    BY <2>1, <2>3, <2>4
<1>2. ASSUME NEW q \in Points
      PROVE  LET f == ext_reencode_pubkey(l, Marshal(q)) IN f.illegal = FALSE /\ f.ret = TRUE
  <2>1. ec_pubkey_parse(Marshal(q)) = Result(TRUE, q)
    BY <1>2, PointBytes
  <2>2. ec_pubkey_parse(Marshal(q)).ret = TRUE /\ ec_pubkey_parse(Marshal(q)).out = q
    BY <2>1 DEF Result
  <2>3. ext_reencode_pubkey(l, Marshal(q)) = ec_pubkey_serialize(q, l, l = 33)
    BY <2>2 DEF ext_reencode_pubkey
  <2>4. /\ ec_pubkey_serialize(q, l, l = 33).illegal = FALSE
        /\ ec_pubkey_serialize(q, l, l = 33).ret = TRUE
    BY <1>2, SerializedPoint
  <2> QED
    BY <2>3, <2>4
<1> QED
  BY <1>1, <1>2

\* The invariant of the binding: its context has both tables, the key at hand
\* is nil or a point, and sig is nil or what Sign made with signer's key, which
\* is then the key at hand.
BindingInv ==
  /\ ctx \in {NoContext, Both} /\ panicked = FALSE /\ msg \in Msgs
  /\ KeyObject(pubkey) /\ sig \in Sigs
  /\ MadeHere /\ (sig # ZeroSig => signer # 0) /\ (signer # 0 => ctx = Both)
  /\ signer # 0 /\ pubkey # ZeroKey => pubkey = Mult(signer)

LEMMA BytesOfMsg == Msgs \subseteq B32 /\ Rs \subseteq B32 /\ Ss \subseteq B32
BY BytesAssumption DEF B32

\* The bytes Sign made: recovered, they give the signer's key, and both forms
\* of it verify them.
LEMMA OwnSignature ==
  ASSUME NEW k \in 1 .. Order-1, NEW m \in B32, NEW non \in 1 .. Order-1, NEW g,
         Made(g, k, Scalar32(m), non)
  PROVE  /\ Coordinates(ext_ecdsa_recover(Both, g.r, g.s, g.recid, m)) = Mult(k)
         /\ \A compressed \in BOOLEAN :
              ext_ecdsa_verify(Both, g.r, g.s, m, eckey_pubkey_serialize(Mult(k), compressed)).ret
<1>1. /\ g \in Sigs /\ ecdsa_verify(Both, Plain(g), m, Mult(k)).ret
      /\ ecdsa_recover(Both, g, m) = Result(TRUE, Mult(k))
  BY MadeVerifies DEF ecdsa_recoverable_signature_convert
<1>2. /\ ecdsa_recoverable_signature_parse_compact(g.r, g.s, g.recid) = Result(TRUE, g)
      /\ ecdsa_signature_parse_compact(g.r, g.s) = Result(TRUE, Plain(g))
  BY <1>1, CompactFacts
<1>3. PICK q \in Points : q = Mult(k)
  BY KeyFacts
<1>4. \A z : Result(TRUE, z).ret = TRUE /\ Result(TRUE, z).out = z
  BY DEF Result
<1>5. Coordinates(ext_ecdsa_recover(Both, g.r, g.s, g.recid, m)) = Mult(k)
  <2>1. ext_ecdsa_recover(Both, g.r, g.s, g.recid, m) = ec_pubkey_serialize(q, 65, FALSE)
    BY <1>1, <1>2, <1>3, <1>4 DEF ext_ecdsa_recover
  <2> QED
    BY <1>3, <2>1, PointBytes
<1>6. ASSUME NEW compressed \in BOOLEAN
      PROVE  ext_ecdsa_verify(Both, g.r, g.s, m, eckey_pubkey_serialize(Mult(k), compressed)).ret
  <2> DEFINE b == eckey_pubkey_serialize(q, compressed)
  <2>1. ec_pubkey_parse(b) = Result(TRUE, q)
    <3>1. CASE ~compressed
      <4>1. b = Marshal(q)
        BY <3>1 DEF eckey_pubkey_serialize, Marshal
      <4> QED
        BY <4>1, PointBytes
    <3>2. CASE compressed
      <4>1. PICK l \in {33, 65} : l = 33
        OBVIOUS
      <4>2. pubkey_load(q) /\ (l = 33) = TRUE /\ compressed = TRUE
        BY <3>2, <4>1, PointBytes
      <4>3. ec_pubkey_serialize(q, l, TRUE) = Result(TRUE, eckey_pubkey_serialize(q, TRUE))
        BY <4>1, <4>2 DEF ec_pubkey_serialize
      <4>4. ec_pubkey_serialize(q, l, l = 33) = Result(TRUE, b)
        BY <4>2, <4>3
      <4>5. ec_pubkey_parse(ec_pubkey_serialize(q, l, l = 33).out) = Result(TRUE, q)
        BY SerializeFacts
      <4>6. Result(TRUE, b).out = b
        BY <1>4
      <4> HIDE DEF b
      <4> QED
        BY <4>4, <4>5, <4>6
    <3> QED
      BY <3>1, <3>2
  <2> HIDE DEF b
  <2>2. ext_ecdsa_verify(Both, g.r, g.s, m, b) = ecdsa_verify(Both, Plain(g), m, Mult(k))
    BY <1>2, <1>3, <1>4, <2>1 DEF ext_ecdsa_verify
  <2> QED
    BY <1>1, <1>3, <2>2 DEF b
<1> QED
  BY <1>5, <1>6

LEMMA InitBindingInv == Init => BindingInv
<1> SUFFICES ASSUME Init PROVE BindingInv
  OBVIOUS
<1>1. sig \in Sigs
  BY ScalarsAreBytes DEF Init
<1> QED
  BY <1>1 DEF Init, BindingInv, KeyObject, MadeHere

LEMMA NextBindingInv == BindingInv /\ [GoNext]_vars => BindingInv'
<1> SUFFICES ASSUME BindingInv, [GoNext]_vars PROVE BindingInv'
  OBVIOUS
<1>0. msg \in B32 /\ (ctx.live => ctx = Both)
  BY BytesOfMsg DEF BindingInv, NoContext
<1>1. CASE UNCHANGED vars
  BY <1>1 DEF BindingInv, MadeHere, KeyObject, vars
<1>2. CASE Load
  BY <1>2 DEF Load, BindingInv, MadeHere, KeyObject
<1>3. ASSUME BindingCall PROVE ctx = Both /\ ctx' = ctx /\ msg' = msg
  BY <1>0, <1>3 DEF BindingCall, Call
<1>4. CASE Sign
  <2>1. PICK k \in B32, nonces \in NonceStreams :
          LET f == ecdsa_sign_recoverable(ctx, msg, k, nonces)
          IN  /\ ec_seckey_verify(k) /\ sig' = f.out /\ panicked' = f.illegal
              /\ signer' = IF f.ret THEN k ELSE 0
    BY <1>4 DEF Sign, Panic
  <2> DEFINE f == ecdsa_sign_recoverable(ctx, msg, k, nonces)
  <2>2. ctx = Both /\ ctx' = ctx /\ msg' = msg /\ pubkey' = ZeroKey
    BY <1>3, <1>4 DEF Sign, Fresh
  <2>3. panicked' = FALSE
    <3>1. f = FirstSignature(k, scalar_set_b32(msg).v, nonces)
      BY <2>1, <2>2 DEF ecdsa_sign_recoverable, Both
    <3>2. FirstSignature(k, scalar_set_b32(msg).v, nonces).illegal = FALSE
      BY DEF FirstSignature, Result
    <3> QED
      BY <2>1, <3>1, <3>2
  <2>4. \/ f.out = ZeroSig /\ f.ret = FALSE
        \/ /\ f.ret = TRUE /\ k \in 1 .. Order-1
           /\ \E non \in 1 .. Order-1 : Made(f.out, k, Scalar32(msg), non)
    BY <1>0, SigningCallFacts
  <2>5. sig' = f.out /\ signer' = IF f.ret THEN k ELSE 0
    BY <2>1
  <2> HIDE DEF f
  <2>6. CASE f.out = ZeroSig /\ f.ret = FALSE
    BY <2>2, <2>3, <2>5, <2>6, ScalarsAreBytes DEF BindingInv, MadeHere, KeyObject
  <2>7. CASE /\ f.ret = TRUE /\ k \in 1 .. Order-1
             /\ \E non \in 1 .. Order-1 : Made(f.out, k, Scalar32(msg), non)
    <3>1. PICK non \in 1 .. Order-1 : Made(f.out, k, Scalar32(msg), non)
      BY <2>7
    <3>2. f.out \in Sigs
      BY <1>0, <2>7, <3>1, MadeVerifies
    <3>3. signer' = k /\ signer' # 0
      BY <2>5, <2>7
    <3>4. MadeHere'
      BY <2>2, <2>5, <2>7, <3>1, <3>3 DEF MadeHere
    <3> QED
      BY <2>2, <2>3, <2>5, <3>2, <3>3, <3>4 DEF BindingInv, KeyObject
  <2> QED
    BY <2>4, <2>6, <2>7
<1>5. CASE RecoverPubkey
  <2>1. ctx = Both /\ ctx' = ctx /\ UNCHANGED <<msg, sig, signer>>
    BY <1>3, <1>5 DEF RecoverPubkey
  <2>2. CASE sig = ZeroSig /\ \E r, s \in B32, v \in LastBytes : RecoverFrom(r, s, v)
    <3>1. PICK r \in B32, s \in B32, v \in LastBytes : RecoverFrom(r, s, v)
      BY <2>2
    <3>2. v \in Recids
      BY <3>1 DEF RecoverFrom, LastBytes, Recids
    <3>3. panicked' = FALSE /\ KeyObject(pubkey')
      BY <1>0, <2>1, <3>1, <3>2, RecoverCall DEF RecoverFrom, Panic
    <3>4. signer = 0
      <4>1. ASSUME signer # 0 PROVE FALSE
        <5>1. signer \in 1 .. Order-1
          BY <4>1 DEF BindingInv, MadeHere
        <5>2. PICK non \in 1 .. Order-1 : Made(sig, signer, Scalar32(msg), non)
          BY <4>1 DEF BindingInv, MadeHere
        <5>3. Scalar32(msg) \in Int
          BY <1>0, ScalarFacts DEF Scalar32
        <5>4. sig.r # 0
          BY <5>1, <5>2, <5>3, SignFacts
        <5> QED
          BY <2>2, <5>4 DEF ZeroSig
      <4> QED
        BY <4>1
    <3> QED
      BY <2>1, <3>3, <3>4 DEF BindingInv, MadeHere, KeyObject
  <2>3. CASE sig # ZeroSig /\ RecoverFrom(sig.r, sig.s, sig.recid)
    <3>1. signer # 0 /\ signer \in 1 .. Order-1
      BY <2>3 DEF BindingInv, MadeHere
    <3>2. PICK non \in 1 .. Order-1 : Made(sig, signer, Scalar32(msg), non)
      BY <3>1 DEF BindingInv, MadeHere
    <3>3. pubkey' = Mult(signer)
      BY <1>0, <2>1, <2>3, <3>1, <3>2, OwnSignature DEF RecoverFrom
    <3>4. sig.r \in B32 /\ sig.s \in B32 /\ sig.recid \in Recids
      BY ScalarsAreBytes DEF BindingInv, Sigs
    <3>5. panicked' = FALSE /\ KeyObject(pubkey')
      BY <1>0, <2>1, <2>3, <3>4, RecoverCall DEF RecoverFrom, Panic
    <3> QED
      BY <2>1, <3>3, <3>5 DEF BindingInv, MadeHere, KeyObject
  <2> QED
    BY <1>5, <2>2, <2>3 DEF RecoverPubkey
<1>6. CASE VerifySignature
  <2>1. ctx = Both /\ ctx' = ctx /\ UNCHANGED <<msg, sig, pubkey, signer>>
    BY <1>3, <1>6 DEF VerifySignature
  <2>2. CASE \E r \in Rs, s \in Ss, b \in KeyBytes : Panic(ext_ecdsa_verify(ctx, r, s, msg, b))
    <3>1. PICK r \in Rs, s \in Ss, b \in KeyBytes : Panic(ext_ecdsa_verify(ctx, r, s, msg, b))
      BY <2>2
    <3>2. r \in B32 /\ s \in B32
      BY BytesOfMsg
    <3>3. b.x \in Nat /\ b.y \in Nat
      BY ScalarFacts DEF KeyBytes, Compressed
    <3>4. panicked' = FALSE
      BY <1>0, <2>1, <3>1, <3>2, <3>3, VerifyCall DEF Panic
    <3> QED
      BY <2>1, <3>4 DEF BindingInv, MadeHere, KeyObject
  <2>3. CASE sig # ZeroSig /\ pubkey # ZeroKey /\ Panic(ext_ecdsa_verify(ctx, sig.r, sig.s, msg, Marshal(pubkey)))
    <3>1. sig.r \in B32 /\ sig.s \in B32
      BY ScalarsAreBytes DEF BindingInv, Sigs
    <3>2. Marshal(pubkey).x \in Nat /\ Marshal(pubkey).y \in Nat
      <4>1. pubkey \in Points
        BY <2>3 DEF BindingInv, KeyObject
      <4>2. PICK j \in 1 .. Order-1 : pubkey = Mult(j) /\ pubkey # Inf
        BY <4>1, PointIsMultiple
      <4>3. j \in Int
        BY OrderFacts
      <4>4. pubkey[1] \in 0 .. P-1 /\ pubkey[2] \in 0 .. P-1
        BY <4>2, <4>3, PointFacts
      <4> QED
        BY <4>4, OrderFacts DEF Marshal
    <3>3. panicked' = FALSE
      BY <1>0, <2>1, <2>3, <3>1, <3>2, VerifyCall DEF Panic
    <3> QED
      BY <2>1, <3>3 DEF BindingInv, MadeHere, KeyObject
  <2> QED
    BY <1>6, <2>2, <2>3 DEF VerifySignature
<1>7. CASE DecompressPubkey
  <2>1. ctx = Both /\ ctx' = ctx /\ UNCHANGED <<msg, sig, signer>> /\ sig = ZeroSig
    BY <1>3, <1>7 DEF DecompressPubkey
  <2>2. PICK b \in Compressed : LET f == ext_reencode_pubkey(65, b)
                                IN  pubkey' = Coordinates(f) /\ panicked' = f.illegal
    BY <1>7 DEF DecompressPubkey, Panic
  <2>3. b.x \in Nat /\ b.y \in Nat
    BY ScalarFacts DEF Compressed
  <2>4. PICK l \in {33, 65} : l = 65
    OBVIOUS
  <2>5. panicked' = FALSE /\ KeyObject(pubkey')
    <3>1. LET f == ext_reencode_pubkey(l, b)
          IN  f.illegal = FALSE /\ (l = 65 => KeyObject(Coordinates(f)))
      BY <2>3, ReencodeCall
    <3> QED
      BY <2>2, <2>4, <3>1
  <2>6. signer = 0
    <3>1. ASSUME signer # 0 PROVE FALSE
      <4>1. signer \in 1 .. Order-1
        BY <3>1 DEF BindingInv, MadeHere
      <4>2. PICK non \in 1 .. Order-1 : Made(sig, signer, Scalar32(msg), non)
        BY <3>1 DEF BindingInv, MadeHere
      <4>3. Scalar32(msg) \in Int
        BY <1>0, ScalarFacts DEF Scalar32
      <4>4. sig.r # 0
        BY <4>1, <4>2, <4>3, SignFacts
      <4> QED
        BY <2>1, <4>4 DEF ZeroSig
    <3> QED
      BY <3>1
  <2> QED
    BY <2>1, <2>5, <2>6 DEF BindingInv, MadeHere, KeyObject
<1>8. CASE CompressPubkey
  <2>1. ctx = Both /\ ctx' = ctx /\ UNCHANGED <<msg, sig, pubkey, signer>>
    BY <1>3, <1>8 DEF CompressPubkey
  <2>2. pubkey \in Points
    BY <1>8 DEF CompressPubkey, BindingInv, KeyObject
  <2>3. PICK l \in {33, 65} : l = 33
    OBVIOUS
  <2>4. LET f == ext_reencode_pubkey(l, Marshal(pubkey)) IN f.illegal = FALSE /\ f.ret = TRUE
    BY <2>2, ReencodeCall
  <2>5. panicked' = FALSE
    BY <1>8, <2>3, <2>4 DEF CompressPubkey
  <2> QED
    BY <2>1, <2>5 DEF BindingInv, MadeHere, KeyObject
<1> QED
  BY <1>1, <1>2, <1>4, <1>5, <1>6, <1>7, <1>8 DEF GoNext

\* Both callers of the library: the Go binding keeps its own invariant and no
\* secret key, a C program keeps SecpInv.
CallersInv ==
  /\ inGo => BindingInv /\ seckey = 0
  /\ ~inGo => SecpInv

\* Whatever calls a program or the binding makes, in whatever order, and
\* whichever of them fail, the objects it holds stay meaningful: the invariant
\* of every theorem below.
THEOREM CallersInvariant == BindingSpec => []CallersInv
<1>1. BindingInit => CallersInv
  BY InitBindingInv, InitSecpInv DEF BindingInit, CallersInv, Init
<1>2. CallersInv /\ [BindingNext]_goVars => CallersInv'
  <2> SUFFICES ASSUME CallersInv, [BindingNext]_goVars PROVE CallersInv'
    OBVIOUS
  <2>1. CASE inGo /\ GoNext /\ UNCHANGED inGo
    <3>1. seckey' = seckey
      BY <2>1 DEF GoNext, Load, Sign, RecoverPubkey, VerifySignature, DecompressPubkey, CompressPubkey, BindingCall
    <3> QED
      BY <2>1, <3>1, NextBindingInv DEF CallersInv
  <2>2. CASE ~inGo /\ Next /\ UNCHANGED inGo
    BY <2>2, NextSecpInv DEF CallersInv
  <2>3. CASE UNCHANGED goVars
    <3>1. UNCHANGED vars /\ seckey' = seckey /\ inGo' = inGo
      BY <2>3 DEF goVars, vars
    <3> QED
      BY <3>1, NextBindingInv, NextSecpInv DEF CallersInv
  <2> QED
    BY <2>1, <2>2, <2>3 DEF BindingNext
<1> QED
  BY <1>1, <1>2, PTL DEF BindingSpec

\* What the binding leaves behind is what a C program may.
LEMMA SecpOfCallers == CallersInv => SecpInv
BY ScalarsAreBytes DEF CallersInv, BindingInv, SecpInv

\* Tweaking the two halves of a key pair by the same bytes succeeds or fails
\* for both and gives matching halves, and two key pairs derive the same shared
\* secret, on every curve of prime order and for all keys and tweaks.
THEOREM PairsStayPairs == BindingSpec => []KeyPairsStayPairs
BY CallersInvariant, SecpOfCallers, PairsOfInv, PTL

\* What ecdsa_sign_recoverable makes verifies under the signing key, recovers
\* it, and survives the compact encoding, for every key, message and nonce:
\* also when x of the nonce point exceeds the order and when s was negated.
THEOREM SignaturesVerify == BindingSpec => []SignedVerifies
BY CallersInvariant, SecpOfCallers, SignedOfInv, PTL

\* For every signature object, made here or received, the keys it verifies
\* under once normalised are exactly those its four recovery ids recover.
THEOREM RecoveryExact == BindingSpec => []RecoveryIsExact
BY CallersInvariant, SecpOfCallers, ExactOfInv, PTL

\* A public key object is zeroed or a point after any sequence of calls, and
\* all encodings of it parse back to it.
THEOREM EncodingsAreKeys == BindingSpec => []EncodingsNameKeys
BY CallersInvariant, SecpOfCallers, EncodingsOfInv, PTL

\* The Go binding never panics: whatever 65 bytes RecoverPubkey is given,
\* whatever key bytes VerifySignature and DecompressPubkey are given, on every
\* curve of prime order, for every secret key, message and nonce, no call
\* reaches the illegal callback and every key decoded is compressed again.
THEOREM BindingIsTotal == BindingSpec => []BindingNeverPanics
<1>1. CallersInv => BindingNeverPanics
  BY DEF CallersInv, BindingInv, BindingNeverPanics
<1> QED
  BY <1>1, CallersInvariant, PTL

\* What identifies the sender of a transaction: the key recovered from the
\* bytes Sign returned is the signer's, and VerifySignature accepts them under
\* both forms of that key.
SenderIsSigner ==
    signer # 0 /\ pubkey # ZeroKey =>
        /\ pubkey = Mult(signer)
        /\ \A compressed \in BOOLEAN :
             ext_ecdsa_verify(ctx, sig.r, sig.s, msg, eckey_pubkey_serialize(pubkey, compressed)).ret

LEMMA SenderOfInv == BindingInv => SenderIsSigner
<1> SUFFICES ASSUME BindingInv, signer # 0, pubkey # ZeroKey
             PROVE  /\ pubkey = Mult(signer)
                    /\ \A compressed \in BOOLEAN :
                         ext_ecdsa_verify(ctx, sig.r, sig.s, msg, eckey_pubkey_serialize(pubkey, compressed)).ret
  BY DEF SenderIsSigner
<1>1. signer \in 1 .. Order-1 /\ msg \in B32 /\ pubkey = Mult(signer)
  BY BytesOfMsg DEF BindingInv, MadeHere
<1>2. PICK non \in 1 .. Order-1 : Made(sig, signer, Scalar32(msg), non)
  BY DEF BindingInv, MadeHere
<1>3. ctx = Both
  BY DEF BindingInv
<1> QED
  BY <1>1, <1>2, <1>3, OwnSignature

\* Between Sign and the node's reading of the sender nothing is mixed up: in
\* the Go binding SenderIsSigner holds, for every secret key, message and nonce.
THEOREM SendersAreSigners == BindingSpec => [](inGo => SenderIsSigner)
<1>1. CallersInv => (inGo => SenderIsSigner)
  BY SenderOfInv DEF CallersInv
<1> QED
  BY <1>1, CallersInvariant, PTL
=============================================================================
