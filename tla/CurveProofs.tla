---------------------------- MODULE CurveProofs -----------------------------
(***************************************************************************)
(* Lemmas about the multiples of the generator, from the assumption that   *)
(* the points are a group: what adding, comparing and negating them does   *)
(* to their factors and to their coordinates.                              *)
(***************************************************************************)
EXTENDS Curve, Numbers

LEMMA OrderFacts ==
  /\ Order \in Nat \ {0} /\ Order >= 3 /\ Order < P /\ P < 2 * Order /\ Prime(Order)
  /\ P \in Nat \ {0} /\ Prime(P) /\ P % 2 = 1
<1>1. P \in Nat /\ P > 3 /\ P % 12 = 7 /\ \A d \in 2 .. P-1 : P % d # 0
  BY FieldAssumption
<1>2. Order \in 3 .. P-1 /\ 2 * Order > P /\ \A d \in 2 .. Order-1 : Order % d # 0
  BY CurveAssumption
<1>3. P % 2 = 1
  BY <1>1
<1>4. Prime(P)
  BY <1>1 DEF Prime
<1>5. Order \in Nat \ {0} /\ Order >= 3 /\ Order < P /\ P < 2 * Order
  BY <1>1, <1>2
<1>6. Prime(Order)
  BY <1>2, <1>5 DEF Prime
<1> QED
  BY <1>1, <1>3, <1>4, <1>5, <1>6

\* A multiple depends on its factor modulo the order only.
LEMMA MultCong ==
  ASSUME NEW i \in Int, NEW j \in Int, Cong(i, j, Order)
  PROVE  Mult(i) = Mult(j)
<1>1. i % Order = j % Order
  BY OrderFacts, CongMod
<1> QED
  BY <1>1 DEF Mult

\* Reduced is congruent.
LEMMA Reduced ==
  ASSUME NEW i \in Int
  PROVE  /\ i % Order \in 0 .. Order-1 /\ i % Order \in Int
         /\ Cong(i % Order, i, Order) /\ Cong(i, i % Order, Order)
         /\ Mult(i % Order) = Mult(i)
<1>1. i % Order \in 0 .. Order-1 /\ i % Order \in Int /\ Cong(i % Order, i, Order)
  BY OrderFacts, CongMod
<1>2. Cong(i, i % Order, Order)
  BY <1>1, OrderFacts, CongEquivalence
<1>3. Mult(i % Order) = Mult(i)
  BY <1>1, MultCong
<1> QED
  BY <1>1, <1>2, <1>3

\* The multiples by numbers congruent to zero are infinity, and no others.
LEMMA MultInf ==
  ASSUME NEW i \in Int
  PROVE  /\ Mult(i) = Inf <=> Cong(i, 0, Order)
         /\ Mult(i) = Inf <=> i % Order = 0
         /\ Mult(i) # Inf => i % Order \in 1 .. Order-1
<1> DEFINE r == i % Order
<1>1. r \in 0 .. Order-1 /\ Mult(r) = Mult(i) /\ Order \in Nat \ {0}
  BY Reduced, OrderFacts
<1>2. Cong(i, 0, Order) <=> r = 0
  <2>1. 0 % Order = 0
    BY OrderFacts
  <2>2. Order \in Nat \ {0} /\ 0 \in Int
    BY OrderFacts
  <2>3. Cong(i, 0, Order) <=> i % Order = 0 % Order
    BY <2>2, CongMod
  <2> QED
    BY <2>1, <2>3
<1> HIDE DEF r
<1>3. r = 0 \/ r \in 1 .. Order-1
  BY <1>1
<1>4. Mult(0) = Inf /\ \A j \in 1 .. Order-1 : Mult(j) # Inf
  BY GroupLaw, CurveAssumption
<1> QED
  BY <1>1, <1>2, <1>3, <1>4 DEF r

\* Adding points adds their factors.
LEMMA MultAdd ==
  ASSUME NEW i \in Int, NEW j \in Int
  PROVE  AffineAdd(Mult(i), Mult(j)) = Mult(i + j)
<1> DEFINE a == i % Order
           b == j % Order
<1>1. /\ a \in 0 .. Order-1 /\ a \in Int /\ Cong(a, i, Order) /\ Mult(a) = Mult(i)
      /\ b \in 0 .. Order-1 /\ b \in Int /\ Cong(b, j, Order) /\ Mult(b) = Mult(j)
  BY Reduced
<1> HIDE DEF a, b
<1>2. Cong(a + b, i + j, Order)
  BY <1>1, OrderFacts, CongArithmetic
<1>3. AffineAdd(Mult(a), Mult(b)) = Mult(a + b)
  BY <1>1, GroupLaw
<1>4. Mult(a + b) = Mult(i + j)
  <2>1. a + b \in Int /\ i + j \in Int
    BY <1>1
  <2> QED
    BY <1>2, <2>1, MultCong
<1> QED
  BY <1>1, <1>3, <1>4

\* Different residues have different multiples.
LEMMA MultInjective ==
  ASSUME NEW i \in Int, NEW j \in Int, Mult(i) = Mult(j)
  PROVE  Cong(i, j, Order)
<1>1. -j \in Int /\ i + (-j) \in Int /\ j + (-j) = 0 /\ i + (-j) = i - j
  OBVIOUS
<1>2. Mult(i + (-j)) = Mult(j + (-j))
  BY <1>1, MultAdd
<1>3. Mult(0) = Inf
  BY GroupLaw
<1>4. Cong(i - j, 0, Order)
  BY <1>1, <1>2, <1>3, MultInf
<1>5. PICK q \in Int : (i - j) - 0 = q * Order
  BY <1>4 DEF Cong
<1>6. i - j = q * Order
  BY <1>5
<1> QED
  BY <1>6 DEF Cong

\* What a point is.
LEMMA OnTheCurve ==
  ASSUME NEW j \in Int, Mult(j) # Inf
  PROVE  /\ Mult(j) \in (0 .. P-1) \X (0 .. P-1) /\ OnCurve(Mult(j))
         /\ Mult(j)[1] \in 0 .. P-1 /\ Mult(j)[2] \in 0 .. P-1
         /\ Mult(j) = <<Mult(j)[1], Mult(j)[2]>>
<1> DEFINE r == j % Order
<1>1. r \in 1 .. Order-1 /\ Mult(r) = Mult(j)
  BY Reduced, MultInf
<1> HIDE DEF r
<1>2. Mult(j) \in {q \in (0 .. P-1) \X (0 .. P-1) : OnCurve(q)}
  BY <1>1, GroupLaw
<1>3. Mult(j) \in (0 .. P-1) \X (0 .. P-1) /\ OnCurve(Mult(j))
  BY <1>2
<1> QED
  BY <1>3

\* Two points with the same x are the same point or opposite ones: the chord
\* and the tangent never give infinity.
LEMMA SameAbscissa ==
  ASSUME NEW i \in Int, NEW j \in Int, Mult(i) # Inf, Mult(j) # Inf
  PROVE  /\ Mult(i + j) = Inf <=> Mult(i)[1] = Mult(j)[1] /\ Mult(i)[2] # Mult(j)[2]
         /\ Mult(i)[1] = Mult(j)[1] => Mult(j) = Mult(i) \/ Mult(j) = Mult(-i)
<1> DEFINE p == Mult(i)
           q == Mult(j)
<1>1. AffineAdd(p, q) = Mult(i + j)
  BY MultAdd
<1>2. p = <<p[1], p[2]>> /\ q = <<q[1], q[2]>>
  BY OnTheCurve
<1>3. \A s : Chord(p, q, s) # Inf
  BY DEF Chord, Inf
<1>4. Mult(i + j) = Inf <=> p[1] = q[1] /\ p[2] # q[2]
  BY <1>1, <1>3 DEF AffineAdd
<1>5. ASSUME p[1] = q[1] PROVE q = p \/ q = Mult(-i)
  <2>1. CASE p[2] = q[2]
    BY <1>2, <1>5, <2>1
  <2>2. CASE p[2] # q[2]
    <3>1. Mult(i + j) = Inf
      BY <1>4, <1>5, <2>2
    <3>2. i + j \in Int /\ -i \in Int
      OBVIOUS
    <3>3. Cong(i + j, 0, Order)
      BY <3>1, <3>2, MultInf
    <3>4. PICK c \in Int : (i + j) - 0 = c * Order
      BY <3>3 DEF Cong
    <3>5. j - (-i) = c * Order
      BY <3>4
    <3>6. Cong(j, -i, Order)
      BY <3>5 DEF Cong
    <3> QED
      BY <3>2, <3>6, MultCong
  <2> QED
    BY <2>1, <2>2
<1> QED
  BY <1>4, <1>5

\* Residues with the same square are the same or add up to P.
LEMMA SameSquare ==
  ASSUME NEW a \in 0 .. P-1, NEW b \in 0 .. P-1, a > b, (a * a) % P = (b * b) % P
  PROVE  a + b = P
<1>1. P \in Nat \ {0} /\ Prime(P)
  BY OrderFacts
<1>2. a \in Int /\ b \in Int /\ a * a \in Int /\ b * b \in Int /\ a - b \in 1 .. P-1 /\ a + b \in Nat \ {0}
  BY <1>1
<1>3. Cong(a * a, b * b, P)
  BY <1>1, <1>2, CongMod
<1>4. PICK c \in Int : a * a - b * b = c * P
  BY <1>3 DEF Cong
<1>5. (a - b) * (a + b) - 0 = c * P
  BY <1>2, <1>4
<1>6. Cong((a - b) * (a + b), 0, P)
  BY <1>5 DEF Cong
<1>7. P <= a + b
  BY <1>1, <1>2, <1>6, PrimeCancels
<1>8. ASSUME a + b # P PROVE FALSE
  <2>1. (a + b) - P \in Nat \ {0}
    BY <1>1, <1>2, <1>7, <1>8
  <2>2. (a - b) * ((a + b) - P) - 0 = (c - (a - b)) * P
    BY <1>1, <1>2, <1>5
  <2>3. Cong((a - b) * ((a + b) - P), 0, P)
    <3>1. c - (a - b) \in Int
      BY <1>2
    <3> QED
      BY <2>2, <3>1 DEF Cong
  <2>4. P <= (a + b) - P
    BY <1>1, <1>2, <2>1, <2>3, PrimeCancels
  <2> QED
    BY <1>1, <1>2, <2>4
<1> QED
  BY <1>8

\* The opposite of a point has the same x, and y of the other parity.
LEMMA Opposite ==
  ASSUME NEW j \in Int, Mult(j) # Inf
  PROVE  /\ Mult(-j) # Inf /\ Mult(-j)[1] = Mult(j)[1]
         /\ Mult(j)[2] + Mult(-j)[2] = P
         /\ Mult(-j)[2] % 2 = 1 <=> ~(Mult(j)[2] % 2 = 1)
<1>1. -j \in Int /\ j + (-j) = 0 /\ 0 \in Int
  OBVIOUS
<1>2. Mult(-j) # Inf
  <2>1. Cong(-j, 0, Order) => Cong(j, 0, Order)
    <3> SUFFICES ASSUME NEW c \in Int, (-j) - 0 = c * Order PROVE Cong(j, 0, Order)
      BY DEF Cong
    <3>1. j - 0 = (-c) * Order /\ -c \in Int
      BY OrderFacts
    <3> QED
      BY <3>1 DEF Cong
  <2> QED
    BY <1>1, <2>1, MultInf
<1>3. Mult(j + (-j)) = Inf
  BY <1>1, GroupLaw
<1>4. Mult(-j)[1] = Mult(j)[1] /\ Mult(j)[2] # Mult(-j)[2]
  BY <1>1, <1>2, <1>3, SameAbscissa
<1> DEFINE x == Mult(j)[1]
           y == Mult(j)[2]
           z == Mult(-j)[2]
<1>5. x \in 0 .. P-1 /\ y \in 0 .. P-1 /\ z \in 0 .. P-1
  BY <1>1, <1>2, <1>4, OnTheCurve
<1>6. OnCurve(Mult(j)) /\ OnCurve(Mult(-j))
  BY <1>1, <1>2, OnTheCurve
<1>7. (y * y) % P = (x * x * x + CURVE_B) % P /\ (z * z) % P = (x * x * x + CURVE_B) % P
  BY <1>2, <1>4, <1>6 DEF OnCurve
<1>8. y # z
  BY <1>4
<1> HIDE DEF x, y, z
<1>9. y + z = P
  <2>1. P \in Nat \ {0}
    BY OrderFacts
  <2>2. y \in Nat /\ z \in Nat /\ (y > z \/ z > y)
    BY <1>5, <1>8, <2>1
  <2>3. (y * y) % P = (z * z) % P
    BY <1>7
  <2>4. CASE y > z
    BY <1>5, <2>3, <2>4, SameSquare
  <2>5. CASE z > y
    <3>1. z + y = P
      BY <1>5, <2>3, <2>5, SameSquare
    <3> QED
      BY <2>2, <3>1
  <2> QED
    BY <2>2, <2>4, <2>5
<1>10. z % 2 = 1 <=> ~(y % 2 = 1)
  <2>1. y \in Nat /\ z \in Nat /\ P \in Nat /\ P % 2 = 1
    BY <1>5, OrderFacts
  <2> QED
    BY <1>9, <2>1
<1> QED
  BY <1>2, <1>4, <1>9, <1>10 DEF x, y, z

-----------------------------------------------------------------------------
(* The chord and the tangent, without divisions.                           *)

LEMMA FieldFacts ==
  P \in Nat \ {0} /\ P > 3 /\ Prime(P) /\ ~Cong(2, 0, P) /\ ~Cong(1, 0, P)
<1>1. P \in Nat \ {0} /\ P > 3 /\ Prime(P)
  BY FieldAssumption, OrderFacts
<1>2. 2 \in 0 .. P-1 /\ 1 \in 0 .. P-1 /\ 0 \in 0 .. P-1
  BY <1>1
<1> QED
  BY <1>1, <1>2, CongSmall

\* A residue is congruent to zero only if it is zero.
LEMMA ResidueZero ==
  ASSUME NEW a \in 0 .. P-1
  PROVE  a \in Int /\ (Cong(a, 0, P) <=> a = 0)
<1>1. P \in Nat \ {0} /\ a \in Int /\ 0 \in 0 .. P-1 /\ 0 \in Int
  BY FieldFacts
<1>2. Cong(0, 0, P)
  BY <1>1, CongEquivalence
<1> QED
  BY <1>1, <1>2, CongSmall

\* Inverse0 inverts what P does not divide.
LEMMA InverseOf ==
  ASSUME NEW u \in Int, ~Cong(u, 0, P)
  PROVE  Inverse0[u % P] \in 1 .. P-1 /\ Inverse0[u % P] \in Int /\ Cong(u * Inverse0[u % P], 1, P)
<1> DEFINE s == u % P
           i == Inverse0[s]
<1>1. P \in Nat \ {0} /\ Prime(P) /\ 0 \in Int /\ 1 \in Int /\ 1 \in 0 .. P-1
  BY FieldFacts
<1>2. s \in 0 .. P-1 /\ s \in Int /\ Cong(s, u, P)
  BY <1>1, CongMod
<1>3. s # 0
  BY <1>1, <1>2, CongEquivalence
<1> HIDE DEF s
<1>4. s \in 1 .. P-1
  BY <1>1, <1>2, <1>3
<1>5. i = CHOOSE y \in 1 .. P-1 : (s * y) % P = 1
  BY <1>2, <1>3 DEF Inverse0
<1>6. \E y \in 1 .. P-1 : (s * y) % P = 1
  BY <1>1, <1>4, PrimeInverse
<1>7. i \in 1 .. P-1 /\ (s * i) % P = 1
  BY <1>5, <1>6
<1> HIDE DEF i
<1>8. i \in Int /\ s * i \in Int /\ u * i \in Int
  BY <1>1, <1>2, <1>7
<1>9. Cong(s * i, 1, P)
  <2>1. 1 % P = 1
    BY <1>1, CongMod
  <2> QED
    BY <1>1, <1>7, <1>8, <2>1, CongMod
<1>10. Cong(u, s, P)
  BY <1>1, <1>2, CongEquivalence
<1>11. Follows(u * i, s * i, i, u, s)
  BY <1>2, <1>8 DEF Follows
<1>12. Cong(u * i, s * i, P)
  BY <1>1, <1>2, <1>8, <1>10, <1>11, CongBy
<1>13. Cong(u * i, 1, P)
  BY <1>1, <1>8, <1>9, <1>12, CongEquivalence
<1> QED
  BY <1>7, <1>8, <1>13 DEF s, i

\* The third point on the line of slope l through p, mirrored.
LEMMA ChordPoint ==
  ASSUME NEW p1 \in Int, NEW p2 \in Int, NEW q1 \in Int, NEW q2 \in Int, NEW l \in Int
  PROVE  \E x \in 0 .. P-1, y \in 0 .. P-1 :
           /\ Chord(<<p1, p2>>, <<q1, q2>>, l) = <<x, y>> /\ x \in Int /\ y \in Int
           /\ Cong(x, l * l - p1 - q1, P) /\ Cong(y, l * (p1 - x) - p2, P)
<1> DEFINE x == (l * l - p1 - q1) % P
           y == (l * (p1 - x) - p2) % P
<1>1. Chord(<<p1, p2>>, <<q1, q2>>, l) = <<x, y>>
  BY DEF Chord
<1>2. l * l - p1 - q1 \in Int /\ P \in Nat \ {0}
  BY FieldFacts
<1>3. x \in 0 .. P-1 /\ x \in Int /\ Cong(x, l * l - p1 - q1, P)
  BY <1>2, CongMod
<1> HIDE DEF x
<1>4. l * (p1 - x) - p2 \in Int
  BY <1>3
<1>5. y \in 0 .. P-1 /\ y \in Int /\ Cong(y, l * (p1 - x) - p2, P)
  BY <1>2, <1>4, CongMod
<1> HIDE DEF y
<1> QED
  BY <1>1, <1>3, <1>5

\* Different residues differ modulo P.
LEMMA Different ==
  ASSUME NEW a \in 0 .. P-1, NEW b \in 0 .. P-1, a # b
  PROVE  a \in Int /\ b \in Int /\ b - a \in Int /\ ~Cong(b - a, 0, P)
<1>1. P \in Nat \ {0} /\ a \in Int /\ b \in Int /\ b - a \in Int /\ 0 \in Int
  BY FieldFacts
<1>2. ASSUME Cong(b - a, 0, P) PROVE FALSE
  <2>1. Follows(b, a, 1, b - a, 0)
    BY <1>1 DEF Follows
  <2>2. Cong(b, a, P)
    BY <1>1, <1>2, <2>1, CongBy
  <2> QED
    BY <1>1, <2>2, CongSmall
<1> QED
  BY <1>1, <1>2

\* The sum of two points that are not opposite lies on a line through both,
\* which is the tangent when they are the same.
LEMMA SumByLine ==
  ASSUME NEW p1 \in 0 .. P-1, NEW p2 \in 0 .. P-1, NEW q1 \in 0 .. P-1, NEW q2 \in 0 .. P-1,
         p1 = q1 => p2 = q2 /\ p2 # 0
  PROVE  \E l \in Int :
           /\ AffineAdd(<<p1, p2>>, <<q1, q2>>) = Chord(<<p1, p2>>, <<q1, q2>>, l)
           /\ Cong(l * (q1 - p1), q2 - p2, P)
           /\ p1 = q1 => Cong(l * (2 * p2), 3 * p1 * p1, P)
<1>0. /\ p1 \in Int /\ p2 \in Int /\ q1 \in Int /\ q2 \in Int /\ P \in Nat \ {0} /\ 0 \in Int /\ 1 \in Int
      /\ Prime(P)
  BY FieldFacts
<1>1. ASSUME NEW u \in Int, NEW v \in Int, ~Cong(u, 0, P)
      PROVE  /\ (v * Inverse0[u % P]) % P \in Int
             /\ Cong(((v * Inverse0[u % P]) % P) * u, v, P)
  <2> DEFINE i == Inverse0[u % P]
             l == (v * i) % P
  <2>1. i \in Int /\ Cong(u * i, 1, P)
    BY <1>1, InverseOf
  <2> HIDE DEF i
  <2>2. v * i \in Int /\ u * i \in Int /\ (v * i) * u \in Int
    BY <2>1
  <2>3. l \in Int /\ Cong(l, v * i, P)
    BY <1>0, <2>2, CongMod
  <2> HIDE DEF l
  <2>4. l * u \in Int
    BY <2>3
  <2>5. Follows(l * u, (v * i) * u, u, l, v * i) /\ Follows((v * i) * u, v, v, u * i, 1)
    BY <2>1, <2>3 DEF Follows
  <2>6. Cong(l * u, (v * i) * u, P) /\ Cong((v * i) * u, v, P)
    BY <1>0, <2>1, <2>2, <2>3, <2>4, <2>5, CongBy
  <2>7. Cong(l * u, v, P)
    BY <1>0, <2>2, <2>4, <2>6, CongEquivalence
  <2> QED
    BY <2>3, <2>7 DEF i, l
<1> DEFINE p == <<p1, p2>>
           q == <<q1, q2>>
<1>2. p # Inf /\ q # Inf /\ p[1] = p1 /\ p[2] = p2 /\ q[1] = q1 /\ q[2] = q2
  BY DEF Inf
<1>3. CASE p1 # q1
  <2> DEFINE l == ((q2 - p2) * Inverse0[(q1 - p1) % P]) % P
  <2>1. AffineAdd(p, q) = Chord(p, q, l)
    BY <1>2, <1>3 DEF AffineAdd
  <2>2. q1 - p1 \in Int /\ q2 - p2 \in Int /\ ~Cong(q1 - p1, 0, P)
    BY <1>0, <1>3, Different
  <2>3. l \in Int /\ Cong(l * (q1 - p1), q2 - p2, P)
    BY <1>1, <2>2
  <2> HIDE DEF l
  <2> QED
    BY <1>3, <2>1, <2>3
<1>4. CASE p1 = q1
  <2> DEFINE l == (3 * p1 * p1 * Inverse0[(2 * p2) % P]) % P
  <2>1. AffineAdd(p, q) = Chord(p, q, l)
    BY <1>2, <1>4 DEF AffineAdd
  <2>2. 2 * p2 \in Int /\ 3 * p1 * p1 \in Int /\ ~Cong(2 * p2, 0, P)
    <3>1. ~Cong(p2, 0, P)
      BY <1>4, ResidueZero
    <3>2. ~Cong(2, 0, P)
      BY FieldFacts
    <3>3. ~Cong(2 * p2, 0, P)
      BY <1>0, <3>1, <3>2, PrimeProduct
    <3> QED
      BY <1>0, <3>3
  <2>3. l \in Int /\ Cong(l * (2 * p2), 3 * p1 * p1, P)
    BY <1>1, <2>2
  <2> HIDE DEF l
  <2>4. l * (q1 - p1) = 0 /\ q2 - p2 = 0
    BY <1>0, <1>4, <2>3
  <2>5. Cong(l * (q1 - p1), q2 - p2, P)
    BY <1>0, <2>4, CongEquivalence
  <2> QED
    BY <2>1, <2>3, <2>5
<1> QED
  BY <1>3, <1>4

\* Two points that are not opposite have another expression of the slope, in
\* which the tangent is no special case: it needs the curve's equation.
LEMMA UnifiedSlope ==
  ASSUME NEW p1 \in 0 .. P-1, NEW p2 \in 0 .. P-1, NEW q1 \in 0 .. P-1, NEW q2 \in 0 .. P-1,
         OnCurve(<<p1, p2>>), OnCurve(<<q1, q2>>), NEW l \in Int,
         Cong(l * (q1 - p1), q2 - p2, P),
         p1 = q1 => p2 = q2 /\ Cong(l * (2 * p2), 3 * p1 * p1, P)
  PROVE  Cong(l * (p2 + q2), p1 * p1 + p1 * q1 + q1 * q1, P)
<1>0. /\ p1 \in Int /\ p2 \in Int /\ q1 \in Int /\ q2 \in Int /\ P \in Nat \ {0} /\ 0 \in Int
      /\ CURVE_B \in Int /\ Prime(P)
  BY FieldFacts, CurveAssumption
<1>1. CASE p1 = q1
  <2>1. l * (p2 + q2) = l * (2 * p2) /\ p1 * p1 + p1 * q1 + q1 * q1 = 3 * p1 * p1
    BY <1>0, <1>1
  <2> QED
    BY <1>1, <2>1
<1>2. CASE p1 # q1
  <2> DEFINE d == q1 - p1
             e == q2 - p2
             a == l * (p2 + q2)
             b == p1 * p1 + p1 * q1 + q1 * q1
  <2>1. d \in Int /\ e \in Int /\ a \in Int /\ b \in Int /\ ~Cong(d, 0, P)
    BY <1>0, <1>2, Different
  <2>2. Cong(p2 * p2, p1 * p1 * p1 + CURVE_B, P) /\ Cong(q2 * q2, q1 * q1 * q1 + CURVE_B, P)
    <3>1. /\ (p2 * p2) % P = (p1 * p1 * p1 + CURVE_B) % P
          /\ (q2 * q2) % P = (q1 * q1 * q1 + CURVE_B) % P
      BY DEF OnCurve, Inf
    <3>2. /\ p2 * p2 \in Int /\ p1 * p1 * p1 + CURVE_B \in Int
          /\ q2 * q2 \in Int /\ q1 * q1 * q1 + CURVE_B \in Int
      BY <1>0
    <3> QED
      BY <1>0, <3>1, <3>2, CongMod
  <2>3. Cong(q2 * q2 - p2 * p2, (q1 * q1 * q1 + CURVE_B) - (p1 * p1 * p1 + CURVE_B), P)
    BY <1>0, <2>2, CongArithmetic
  <2>4. Follows(d * a, e * (p2 + q2), p2 + q2, l * d, e)
    BY <1>0 DEF Follows
  <2>5. Cong(d * a, e * (p2 + q2), P)
    <3>1. /\ d * a \in Int /\ e * (p2 + q2) \in Int /\ p2 + q2 \in Int /\ l * d \in Int /\ e \in Int
      BY <1>0
    <3> QED
      BY <1>0, <2>4, <3>1, CongBy
  <2>6. /\ e * (p2 + q2) = q2 * q2 - p2 * p2
        /\ (q1 * q1 * q1 + CURVE_B) - (p1 * p1 * p1 + CURVE_B) = d * b
    BY <1>0
  <2>7. d * a \in Int /\ e * (p2 + q2) \in Int /\ d * b \in Int
    BY <1>0
  <2>8. Cong(d * a, d * b, P)
    BY <1>0, <2>3, <2>5, <2>6, <2>7, CongEquivalence
  <2> QED
    BY <1>0, <2>1, <2>8, PrimeFactor
<1> QED
  BY <1>1, <1>2

\* Every addition formula is this one: the slope l is a fraction n / h, and at
\* the scale h * e the sum <<r1, r2>> has coordinates without a division.  The
\* chord has h = q1 - p1, the tangent h = 2 * p2.
LineX(p1, q1, h, n, e) == (n * n - (p1 + q1) * h * h) * e * e
LineY(p1, p2, q1, h, n, e) ==
  n * (p1 * h * h * e * e - LineX(p1, q1, h, n, e)) * e - p2 * h * h * h * e * e * e

LEMMA LineFormula ==
  ASSUME NEW p1 \in Int, NEW p2 \in Int, NEW q1 \in Int, NEW l \in Int, NEW h \in Int, NEW n \in Int,
         NEW e \in Int, NEW r1 \in Int, NEW r2 \in Int,
         Cong(l * h, n, P), Cong(r1, l * l - p1 - q1, P), Cong(r2, l * (p1 - r1) - p2, P)
  PROVE  /\ Cong(LineX(p1, q1, h, n, e), r1 * (h * e) * (h * e), P)
         /\ Cong(LineY(p1, p2, q1, h, n, e), r2 * (h * e) * (h * e) * (h * e), P)
<1> DEFINE X == LineX(p1, q1, h, n, e)
           W == h * e
           M == l * h
           S == l * l - p1 - q1
           T == l * (p1 - r1) - p2
           B == p1 * h * h * e * e
           C == p2 * h * h * h * e * e * e
           A0 == n * (B - X) * e - C
           A1 == M * (B - X) * e - C
           A2 == M * (B - r1 * W * W) * e - C
<1>0. P \in Nat \ {0}
  BY FieldFacts
<1>1. X \in Int /\ W \in Int /\ M \in Int /\ S \in Int /\ T \in Int /\ B \in Int /\ C \in Int
  BY DEF LineX
<1>2. Follows(X, S * W * W, -((M + n) * e * e), M, n)
  BY DEF Follows, LineX
<1>3. Follows(S * W * W, r1 * W * W, -(W * W), r1, S)
  BY <1>1 DEF Follows
<1>4. A2 = T * W * W * W
  BY DEF LineX
<1>5. LineY(p1, p2, q1, h, n, e) = A0
  BY DEF LineY
<1> HIDE DEF X, W, M, S, T, B, C
<1>6. Cong(M, n, P) /\ Cong(r1, S, P) /\ Cong(r2, T, P)
  BY DEF M, S, T
<1>7. /\ S * W * W \in Int /\ r1 * W * W \in Int /\ -((M + n) * e * e) \in Int /\ -(W * W) \in Int
  BY <1>1
<1>8. Cong(X, S * W * W, P)
  BY <1>0, <1>1, <1>2, <1>6, <1>7, CongBy
<1>9. Cong(S * W * W, r1 * W * W, P)
  BY <1>0, <1>1, <1>3, <1>6, <1>7, CongBy
<1>10. Cong(X, r1 * W * W, P)
  BY <1>0, <1>1, <1>7, <1>8, <1>9, CongEquivalence
<1>11. /\ Follows(A0, A1, -((B - X) * e), M, n)
       /\ Follows(A1, A2, -(M * e), X, r1 * W * W)
       /\ Follows(T * W * W * W, r2 * W * W * W, -(W * W * W), r2, T)
  BY <1>1 DEF Follows
<1>12. /\ A0 \in Int /\ A1 \in Int /\ A2 \in Int /\ -((B - X) * e) \in Int /\ -(M * e) \in Int
       /\ T * W * W * W \in Int /\ r2 * W * W * W \in Int /\ -(W * W * W) \in Int
  BY <1>1
<1>13. Cong(A0, A1, P)
  BY <1>0, <1>1, <1>6, <1>11, <1>12, CongBy
<1>14. Cong(A1, A2, P)
  BY <1>0, <1>1, <1>7, <1>10, <1>11, <1>12, CongBy
<1> HIDE DEF A0, A1, A2
<1>15. Cong(A2, r2 * W * W * W, P)
  <2>1. Cong(T * W * W * W, r2 * W * W * W, P)
    BY <1>0, <1>1, <1>6, <1>11, <1>12, CongBy
  <2> QED
    BY <1>4, <2>1
<1>16. Cong(A0, r2 * W * W * W, P)
  BY <1>0, <1>12, <1>13, <1>14, <1>15, CongEquivalence
<1> QED
  BY <1>5, <1>10, <1>16 DEF X, W

\* The curve's equation for two points, without its constant.
LEMMA CubesAndSquares ==
  ASSUME NEW p1 \in 0 .. P-1, NEW p2 \in 0 .. P-1, NEW q1 \in 0 .. P-1, NEW q2 \in 0 .. P-1,
         OnCurve(<<p1, p2>>), OnCurve(<<q1, q2>>)
  PROVE  Cong((q1 - p1) * (p1 * p1 + p1 * q1 + q1 * q1), (q2 - p2) * (p2 + q2), P)
<1>0. /\ p1 \in Int /\ p2 \in Int /\ q1 \in Int /\ q2 \in Int /\ P \in Nat \ {0} /\ CURVE_B \in Int
  BY FieldFacts, CurveAssumption
<1> DEFINE u1 == p2 * p2
           v1 == p1 * p1 * p1 + CURVE_B
           u2 == q2 * q2
           v2 == q1 * q1 * q1 + CURVE_B
<1>1. u1 % P = v1 % P /\ u2 % P = v2 % P
  BY DEF OnCurve, Inf
<1>2. u1 \in Int /\ v1 \in Int /\ u2 \in Int /\ v2 \in Int
  BY <1>0
<1>3. /\ v2 - v1 = (q1 - p1) * (p1 * p1 + p1 * q1 + q1 * q1)
      /\ u2 - u1 = (q2 - p2) * (p2 + q2)
  BY <1>0
<1> HIDE DEF u1, v1, u2, v2
<1>4. Cong(v1, u1, P) /\ Cong(v2, u2, P)
  BY <1>0, <1>1, <1>2, CongMod
<1>5. Cong(v2 - v1, u2 - u1, P)
  BY <1>0, <1>2, <1>4, CongArithmetic
<1> QED
  BY <1>3, <1>5

\* The unified slope serves two points unless they are opposite, and then its
\* denominator is zero; it fails only when its numerator is zero as well.
LEMMA RegularSlope ==
  ASSUME NEW p1 \in 0 .. P-1, NEW p2 \in 0 .. P-1, NEW q1 \in 0 .. P-1, NEW q2 \in 0 .. P-1,
         p2 # 0, OnCurve(<<p1, p2>>), OnCurve(<<q1, q2>>),
         ~(Cong(p2 + q2, 0, P) /\ Cong(p1 * p1 + p1 * q1 + q1 * q1, 0, P))
  PROVE  /\ Cong(p2 + q2, 0, P) => AffineAdd(<<p1, p2>>, <<q1, q2>>) = Inf
         /\ ~Cong(p2 + q2, 0, P) =>
              \E l \in Int : /\ AffineAdd(<<p1, p2>>, <<q1, q2>>) = Chord(<<p1, p2>>, <<q1, q2>>, l)
                             /\ Cong(l * (p2 + q2), p1 * p1 + p1 * q1 + q1 * q1, P)
<1> DEFINE n == p1 * p1 + p1 * q1 + q1 * q1
           h == p2 + q2
           d == q1 - p1
           f == q2 - p2
<1>0. /\ p1 \in Int /\ p2 \in Int /\ q1 \in Int /\ q2 \in Int /\ P \in Nat \ {0} /\ Prime(P) /\ 0 \in Int
      /\ n \in Int /\ h \in Int /\ d \in Int /\ f \in Int
  BY FieldFacts
<1>1. Cong(d * n, f * h, P)
  BY CubesAndSquares
<1>2. d * n \in Int /\ f * h \in Int
  BY <1>0
<1>3. /\ p1 # q1 => ~Cong(d, 0, P)
      /\ p2 # q2 => ~Cong(f, 0, P)
  BY Different
<1>4. ASSUME Cong(h, 0, P) PROVE AffineAdd(<<p1, p2>>, <<q1, q2>>) = Inf
  <2>1. Follows(f * h, 0, f, h, 0)
    BY <1>0 DEF Follows
  <2> HIDE DEF n, h, d, f
  <2>2. Cong(f * h, 0, P)
    BY <1>0, <1>2, <1>4, <2>1, CongBy
  <2>3. Cong(d * n, 0, P)
    BY <1>0, <1>1, <1>2, <2>2, CongEquivalence
  <2>4. ~Cong(n, 0, P)
    BY <1>4 DEF n, h
  <2>5. p1 = q1
    BY <1>0, <1>3, <2>3, <2>4, PrimeProduct
  <2>6. p2 # q2
    <3>1. SUFFICES ASSUME p2 = q2 PROVE FALSE
      OBVIOUS
    <3>2. h = 2 * p2
      BY <1>0, <3>1 DEF h
    <3>3. ~Cong(p2, 0, P) /\ ~Cong(2, 0, P) /\ 2 \in Int
      BY ResidueZero, FieldFacts
    <3>4. ~Cong(2 * p2, 0, P)
      BY <1>0, <3>3, PrimeProduct
    <3> QED
      BY <1>4, <3>2, <3>4
  <2> QED
    BY <2>5, <2>6 DEF AffineAdd, Inf
<1>5. ASSUME ~Cong(h, 0, P)
      PROVE  \E l \in Int : /\ AffineAdd(<<p1, p2>>, <<q1, q2>>) = Chord(<<p1, p2>>, <<q1, q2>>, l)
                            /\ Cong(l * h, n, P)
  <2>1. p1 = q1 => p2 = q2
    <3>1. SUFFICES ASSUME p1 = q1, p2 # q2 PROVE FALSE
      OBVIOUS
    <3>2. d * n = 0
      BY <1>0, <3>1
    <3> HIDE DEF n, h, d, f
    <3>3. Cong(f * h, 0, P)
      BY <1>0, <1>1, <1>2, <3>2, CongEquivalence
    <3> QED
      BY <1>0, <1>3, <1>5, <3>1, <3>3, PrimeProduct
  <2>2. PICK l \in Int :
          /\ AffineAdd(<<p1, p2>>, <<q1, q2>>) = Chord(<<p1, p2>>, <<q1, q2>>, l)
          /\ Cong(l * (q1 - p1), q2 - p2, P)
          /\ p1 = q1 => Cong(l * (2 * p2), 3 * p1 * p1, P)
    BY <2>1, SumByLine
  <2>3. Cong(l * h, n, P)
    BY <2>1, <2>2, UnifiedSlope
  <2> QED
    BY <2>2, <2>3
<1> QED
  BY <1>4, <1>5

\* Where it fails, the chord of y1 = -y2 serves, or the points are opposite.
LEMMA DegenerateSlope ==
  ASSUME NEW p1 \in 0 .. P-1, NEW p2 \in 0 .. P-1, NEW q1 \in 0 .. P-1, NEW q2 \in 0 .. P-1,
         p2 # 0, Cong(p2 + q2, 0, P)
  PROVE  /\ Cong(p1 - q1, 0, P) => AffineAdd(<<p1, p2>>, <<q1, q2>>) = Inf
         /\ ~Cong(p1 - q1, 0, P) =>
              \E l \in Int : /\ AffineAdd(<<p1, p2>>, <<q1, q2>>) = Chord(<<p1, p2>>, <<q1, q2>>, l)
                             /\ Cong(l * (p1 - q1), 2 * p2, P)
<1>0. /\ p1 \in Int /\ p2 \in Int /\ q1 \in Int /\ q2 \in Int /\ P \in Nat \ {0} /\ Prime(P) /\ 0 \in Int
      /\ 2 \in Int
  BY FieldFacts
<1>1. ASSUME Cong(p1 - q1, 0, P) PROVE AffineAdd(<<p1, p2>>, <<q1, q2>>) = Inf
  <2>1. p1 = q1
    BY <1>1, Different
  <2>2. p2 # q2
    <3>1. SUFFICES ASSUME p2 = q2 PROVE FALSE
      OBVIOUS
    <3>2. p2 + q2 = 2 * p2
      BY <1>0, <3>1
    <3>3. ~Cong(p2, 0, P) /\ ~Cong(2, 0, P)
      BY ResidueZero, FieldFacts
    <3>4. ~Cong(2 * p2, 0, P)
      BY <1>0, <3>3, PrimeProduct
    <3> QED
      BY <3>2, <3>4
  <2> QED
    BY <2>1, <2>2 DEF AffineAdd, Inf
<1>2. ASSUME ~Cong(p1 - q1, 0, P)
      PROVE  \E l \in Int : /\ AffineAdd(<<p1, p2>>, <<q1, q2>>) = Chord(<<p1, p2>>, <<q1, q2>>, l)
                            /\ Cong(l * (p1 - q1), 2 * p2, P)
  <2>1. p1 # q1
    <3>1. SUFFICES ASSUME p1 = q1 PROVE FALSE
      OBVIOUS
    <3>2. p1 - q1 = 0
      BY <1>0, <3>1
    <3> QED
      BY <1>0, <1>2, <3>2, CongEquivalence
  <2>2. PICK l \in Int :
          /\ AffineAdd(<<p1, p2>>, <<q1, q2>>) = Chord(<<p1, p2>>, <<q1, q2>>, l)
          /\ Cong(l * (q1 - p1), q2 - p2, P)
    BY <2>1, SumByLine
  <2>3. /\ l * (p1 - q1) \in Int /\ p2 - q2 \in Int /\ l * (q1 - p1) \in Int /\ q2 - p2 \in Int
        /\ 2 * p2 \in Int /\ p2 + q2 \in Int /\ -1 \in Int
    BY <1>0
  <2>4. /\ Follows(l * (p1 - q1), p2 - q2, -1, l * (q1 - p1), q2 - p2)
        /\ Follows(p2 - q2, 2 * p2, -1, p2 + q2, 0)
    BY <1>0 DEF Follows
  <2>5. Cong(l * (p1 - q1), p2 - q2, P)
    BY <1>0, <2>2, <2>3, <2>4, CongBy
  <2>6. Cong(p2 - q2, 2 * p2, P)
    BY <1>0, <2>3, <2>4, CongBy
  <2>7. Cong(l * (p1 - q1), 2 * p2, P)
    BY <1>0, <2>3, <2>5, <2>6, CongEquivalence
  <2> QED
    BY <2>2, <2>7
<1> QED
  BY <1>1, <1>2
=============================================================================
