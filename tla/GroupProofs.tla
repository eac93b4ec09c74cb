----------------------------- MODULE GroupProofs ----------------------------
(***************************************************************************)
(* Proofs about the group law of module Group, for every curve and every   *)
(* sequence of operations: the magnitudes that the comments of             *)
(* group_impl.h promise are respected, the formulas compute the            *)
(* chord-and-tangent law in all their special cases, and what is asked of  *)
(* a point is answered as the curve answers it.                            *)
(***************************************************************************)
EXTENDS Group, CurveProofs

-----------------------------------------------------------------------------
(* Field elements with their magnitude.                                    *)

Fes == [v : 0 .. P-1, m : Nat, normal : BOOLEAN, ok : BOOLEAN]

\* An element every check on the way to which passed, of magnitude at most n.
Fine(a, n) == a \in Fes /\ a.ok = TRUE /\ a.m <= n

LEMMA PrimeP == P \in Nat \ {0} /\ P > 3 /\ Prime(P)
BY FieldAssumption DEF Prime

LEMMA ModP == \A x \in Int : x % P \in 0 .. P-1
BY PrimeP

LEMMA FineFacts ==
  ASSUME NEW n \in Nat, NEW a, Fine(a, n)
  PROVE  /\ a.v \in 0 .. P-1 /\ a.v \in Int /\ a.m \in Nat /\ a.m <= n /\ a.ok = TRUE
         /\ a.normal \in BOOLEAN
<1>1. a.v \in 0 .. P-1 /\ a.m \in Nat /\ a.m <= n /\ a.ok = TRUE /\ a.normal \in BOOLEAN
  BY DEF Fine, Fes
<1>2. a.v \in Int
  BY <1>1, PrimeP
<1> QED
  BY <1>1, <1>2

LEMMA FineUp ==
  ASSUME NEW n \in Nat, NEW p \in Nat, n <= p, NEW a, Fine(a, n)
  PROVE  Fine(a, p)
<1>1. a.m \in Nat
  BY DEF Fine, Fes
<1> QED
  BY <1>1 DEF Fine

LEMMA FineInt ==
  ASSUME NEW v \in Int
  PROVE  Fine(fe_set_int(v), 1) /\ Fine(fe_clear, 1)
<1>1. v % P \in 0 .. P-1 /\ 0 \in 0 .. P-1
  BY ModP, PrimeP
<1> QED
  BY <1>1 DEF Fine, Elem, Fes, fe_set_int, fe_clear

LEMMA FineMul ==
  ASSUME NEW i \in 0 .. 8, NEW j \in 0 .. 8, NEW a, NEW b, Fine(a, i), Fine(b, j)
  PROVE  Fine(fe_mul(a, b), 1)
<1>0. Fine(a, 8) /\ Fine(b, 8)
  BY FineUp
<1>1. /\ a.v \in Int /\ b.v \in Int /\ a.m <= 8 /\ b.m <= 8 /\ a.ok = TRUE /\ b.ok = TRUE
  BY <1>0, FineFacts
<1>2. (a.v * b.v) % P \in 0 .. P-1
  BY <1>1, ModP
<1>3. (a.ok /\ b.ok /\ a.m <= MaxMul /\ b.m <= MaxMul) = TRUE
  BY <1>1 DEF MaxMul
<1>4. fe_mul(a, b) = Elem((a.v * b.v) % P, 1, FALSE, TRUE)
  BY <1>3 DEF fe_mul
<1> QED
  BY <1>2, <1>4 DEF Fine, Elem, Fes

LEMMA FineSqr ==
  ASSUME NEW i \in 0 .. 8, NEW a, Fine(a, i)
  PROVE  Fine(fe_sqr(a), 1)
<1>0. Fine(a, 8)
  BY FineUp
<1>1. a.v \in Int /\ a.m <= 8 /\ a.ok = TRUE
  BY <1>0, FineFacts
<1>2. (a.v * a.v) % P \in 0 .. P-1
  BY <1>1, ModP
<1>3. (a.ok /\ a.m <= MaxMul) = TRUE
  BY <1>1 DEF MaxMul
<1>4. fe_sqr(a) = Elem((a.v * a.v) % P, 1, FALSE, TRUE)
  BY <1>3 DEF fe_sqr
<1> QED
  BY <1>2, <1>4 DEF Fine, Elem, Fes

LEMMA FineAdd ==
  ASSUME NEW i \in Nat, NEW j \in Nat, NEW a, NEW b, Fine(a, i), Fine(b, j)
  PROVE  Fine(fe_add(a, b), i + j)
<1>1. /\ a.v \in Int /\ b.v \in Int /\ a.m <= i /\ b.m <= j /\ a.ok = TRUE /\ b.ok = TRUE
      /\ a.m \in Nat /\ b.m \in Nat
  BY FineFacts
<1>2. (a.v + b.v) % P \in 0 .. P-1 /\ a.m + b.m \in Nat /\ a.m + b.m <= i + j /\ i + j \in Nat
  BY <1>1, ModP
<1>3. fe_add(a, b) = Elem((a.v + b.v) % P, a.m + b.m, FALSE, TRUE)
  BY <1>1 DEF fe_add
<1> QED
  BY <1>2, <1>3 DEF Fine, Elem, Fes

LEMMA FineNegate ==
  ASSUME NEW i \in Nat, NEW a, Fine(a, i)
  PROVE  Fine(fe_negate(a, i), i + 1)
<1>1. a.v \in Int /\ a.m <= i /\ a.ok = TRUE
  BY FineFacts
<1>2. (-a.v) % P \in 0 .. P-1 /\ i + 1 \in Nat
  <2>1. -a.v \in Int
    BY <1>1
  <2> QED
    BY <2>1, ModP
<1>3. (a.ok /\ a.m <= i) = TRUE
  BY <1>1
<1>4. fe_negate(a, i) = Elem((-a.v) % P, i + 1, FALSE, TRUE)
  BY <1>3 DEF fe_negate
<1> QED
  BY <1>2, <1>4 DEF Fine, Elem, Fes

LEMMA FineMulInt ==
  ASSUME NEW i \in Nat, NEW c \in Nat, NEW a, Fine(a, i)
  PROVE  Fine(fe_mul_int(a, c), i * c)
<1>1. a.v \in Int /\ a.m \in Nat /\ a.m <= i /\ a.ok = TRUE
  BY FineFacts
<1>2. (a.v * c) % P \in 0 .. P-1 /\ a.m * c \in Nat /\ i * c \in Nat
  BY <1>1, ModP
<1>3. a.m * c <= i * c
  <2>1. (i - a.m) * c >= 0 /\ (i - a.m) * c = i * c - a.m * c
    BY <1>1
  <2> QED
    BY <1>2, <2>1
<1>4. fe_mul_int(a, c) = Elem((a.v * c) % P, a.m * c, FALSE, TRUE)
  BY <1>1 DEF fe_mul_int
<1> QED
  BY <1>2, <1>3, <1>4 DEF Fine, Elem, Fes

LEMMA FineWeak ==
  ASSUME NEW i \in Nat, NEW a, Fine(a, i)
  PROVE  Fine(fe_normalize_weak(a), 1)
<1>1. a \in Fes /\ a.ok = TRUE
  BY DEF Fine
<1>2. fe_normalize_weak(a) \in Fes /\ fe_normalize_weak(a).ok = TRUE /\ fe_normalize_weak(a).m = 1
  BY <1>1 DEF fe_normalize_weak, Fes
<1> QED
  BY <1>2 DEF Fine

LEMMA FineCmov ==
  ASSUME NEW i \in Nat, NEW r, NEW a, NEW flag, Fine(r, i), Fine(a, i)
  PROVE  Fine(fe_cmov(r, a, flag), i)
<1> DEFINE v == IF flag THEN a.v ELSE r.v
           m == IF a.m > r.m THEN a.m ELSE r.m
<1>1. /\ a.v \in 0 .. P-1 /\ r.v \in 0 .. P-1 /\ a.m \in Nat /\ r.m \in Nat /\ a.m <= i /\ r.m <= i
      /\ a.ok = TRUE /\ r.ok = TRUE
  BY FineFacts
<1>2. v \in 0 .. P-1 /\ m \in Nat /\ m <= i
  BY <1>1
<1>3. fe_cmov(r, a, flag) = Elem(v, m, a.normal /\ r.normal, TRUE)
  BY <1>1 DEF fe_cmov
<1>4. (a.normal /\ r.normal) \in BOOLEAN
  BY FineFacts
<1> HIDE DEF v, m
<1> QED
  BY <1>2, <1>3, <1>4 DEF Fine, Elem, Fes

LEMMA FineInv ==
  ASSUME NEW a, Fine(a, 8)
  PROVE  Fine(fe_inv(a), 1)
<1>1. a.v \in 0 .. P-1 /\ a.m <= 8 /\ a.ok = TRUE
  BY FineFacts
<1>2. Inverse0[a.v] \in 0 .. P-1
  <2>1. Inverse0[a.v] = IF a.v = 0 THEN 0 ELSE CHOOSE y \in 1 .. P-1 : (a.v * y) % P = 1
    BY <1>1 DEF Inverse0
  <2>2. CASE a.v = 0
    BY <2>1, <2>2, PrimeP
  <2>3. CASE a.v # 0
    <3>1. a.v \in 1 .. P-1
      BY <1>1, <2>3, PrimeP
    <3>2. \E y \in 1 .. P-1 : (a.v * y) % P = 1
      BY <3>1, PrimeP, PrimeInverse
    <3>3. Inverse0[a.v] \in 1 .. P-1
      BY <2>1, <2>3, <3>2
    <3> QED
      BY <3>3, PrimeP
  <2> QED
    BY <2>2, <2>3
<1>3. (a.ok /\ a.m <= MaxMul) = TRUE
  BY <1>1 DEF MaxMul
<1>4. fe_inv(a) = Elem(Inverse0[a.v], 1, FALSE, TRUE)
  BY <1>3 DEF fe_inv
<1> QED
  BY <1>2, <1>4 DEF Fine, Elem, Fes

LEMMA FineCheck ==
  ASSUME NEW i \in Nat, NEW a, Fine(a, i), NEW cond, cond = TRUE
  PROVE  Fine(Check(a, cond), i)
<1>1. a \in Fes /\ a.ok = TRUE /\ a.m <= i
  BY DEF Fine
<1>2. (a.ok /\ cond) = TRUE
  BY <1>1
<1>3. Check(a, cond) = [a EXCEPT !.ok = TRUE]
  BY <1>2 DEF Check
<1>4. [a EXCEPT !.ok = TRUE] \in Fes /\ [a EXCEPT !.ok = TRUE].ok = TRUE /\ [a EXCEPT !.ok = TRUE].m = a.m
  BY <1>1 DEF Fes
<1> QED
  BY <1>1, <1>3, <1>4 DEF Fine

-----------------------------------------------------------------------------
(* Points.  The bounds are the largest that any operation produces: 6 for  *)
(* x and 4 for y (gej_double_var), 2 for z.                                *)

GejFine(a) ==
  /\ a \in [x : Fes, y : Fes, z : Fes, infinity : BOOLEAN]
  /\ Fine(a.x, 6) /\ Fine(a.y, 4) /\ Fine(a.z, 2)
GeFine(a) ==
  /\ a \in [x : Fes, y : Fes, infinity : BOOLEAN]
  /\ Fine(a.x, 1) /\ Fine(a.y, 2)

LEMMA GejOf ==
  ASSUME NEW a \in [x : Fes, y : Fes, z : Fes, infinity : BOOLEAN],
         NEW i \in 0 .. 6, NEW j \in 0 .. 4, NEW l \in 0 .. 2,
         Fine(a.x, i), Fine(a.y, j), Fine(a.z, l)
  PROVE  GejFine(a)
<1>1. Fine(a.x, 6) /\ Fine(a.y, 4) /\ Fine(a.z, 2)
  BY FineUp
<1> QED
  BY <1>1 DEF GejFine

LEMMA DoubleFine ==
  ASSUME NEW a, GejFine(a)
  PROVE  GejFine(gej_double_var(a).r)
<1>1. Fine(a.x, 6) /\ Fine(a.y, 4) /\ Fine(a.z, 2)
  BY DEF GejFine
<1> DEFINE t1 == fe_mul_int(fe_sqr(a.x), 3)
           t2 == fe_sqr(t1)
           t3 == fe_mul_int(fe_sqr(a.y), 2)
           t4 == fe_mul_int(fe_sqr(t3), 2)
           t5 == fe_mul(t3, a.x)
           t6 == fe_add(fe_mul_int(t5, 6), fe_negate(t2, 1))
           x == fe_add(fe_negate(fe_mul_int(t5, 4), 4), t2)
           y == fe_add(fe_mul(t1, t6), fe_negate(t4, 2))
           z == fe_mul_int(fe_mul(a.z, a.y), 2)
<1>2. DoubleFinite(a) \in [x : {x}, y : {y}, z : {z}, infinity : BOOLEAN]
  BY DEF DoubleFinite, Gej
<1>3. Fine(t1, 3)
  BY <1>1, FineSqr, FineMulInt
<1> HIDE DEF t1
<1>4. Fine(t2, 1)
  BY <1>3, FineSqr
<1>5. Fine(t3, 2)
  BY <1>1, FineSqr, FineMulInt
<1> HIDE DEF t2, t3
<1>6. Fine(t4, 2)
  BY <1>5, FineSqr, FineMulInt
<1>7. Fine(t5, 1)
  BY <1>1, <1>5, FineMul
<1> HIDE DEF t4, t5
<1>8. Fine(t6, 8)
  <2>1. Fine(fe_mul_int(t5, 6), 6) /\ Fine(fe_negate(t2, 1), 2)
    BY <1>4, <1>7, FineMulInt, FineNegate
  <2> QED
    BY <2>1, FineAdd
<1> HIDE DEF t6
<1>9. Fine(x, 6)
  <2>1. Fine(fe_negate(fe_mul_int(t5, 4), 4), 5)
    BY <1>7, FineMulInt, FineNegate
  <2> QED
    BY <1>4, <2>1, FineAdd
<1>10. Fine(y, 4)
  <2>1. Fine(fe_mul(t1, t6), 1) /\ Fine(fe_negate(t4, 2), 3)
    BY <1>3, <1>6, <1>8, FineMul, FineNegate
  <2> QED
    BY <2>1, FineAdd
<1>11. Fine(z, 2)
  <2>1. Fine(fe_mul(a.z, a.y), 1)
    BY <1>1, FineMul
  <2> QED
    BY <2>1, FineMulInt
<1> HIDE DEF x, y, z
<1>12. GejFine(DoubleFinite(a))
  <2> DEFINE r == DoubleFinite(a)
  <2>1. r \in [x : Fes, y : Fes, z : Fes, infinity : BOOLEAN] /\ r.x = x /\ r.y = y /\ r.z = z
    BY <1>2, <1>9, <1>10, <1>11 DEF Fine
  <2> HIDE DEF r
  <2>2. GejFine(r)
    BY <1>9, <1>10, <1>11, <2>1, GejOf
  <2> QED
    BY <2>2 DEF r
<1> QED
  BY <1>12 DEF gej_double_var, Sum

\* The end of the variable-time additions, from operands of any Z.
LEMMA AddFromFine ==
  ASSUME NEW a, GejFine(a), NEW z, NEW u1, NEW s1, NEW h, NEW i, NEW hz,
         Fine(z, 2), Fine(u1, 1), Fine(s1, 1), Fine(h, 3), Fine(i, 3), Fine(hz, 3)
  PROVE  GejFine(AddFrom(a, z, u1, s1, h, i, hz).r)
<1> DEFINE h2 == fe_sqr(h)
           h3 == fe_mul(h, h2)
           t  == fe_mul(u1, h2)
           x  == fe_add(fe_negate(fe_add(fe_mul_int(t, 2), h3), 3), fe_sqr(i))
           y  == fe_add(fe_mul(fe_add(fe_negate(x, 5), t), i), fe_negate(fe_mul(h3, s1), 1))
           zz == fe_mul(z, hz)
<1>1. AddDistinct(zz, u1, s1, h, i) \in [x : {x}, y : {y}, z : {zz}, infinity : BOOLEAN]
  BY DEF AddDistinct, Gej
<1>2. Fine(h2, 1)
  BY FineSqr
<1> HIDE DEF h2
<1>3. Fine(h3, 1) /\ Fine(t, 1)
  BY <1>2, FineMul
<1> HIDE DEF h3, t
<1>4. Fine(x, 5)
  <2>1. Fine(fe_mul_int(t, 2), 2)
    BY <1>3, FineMulInt
  <2>2. Fine(fe_add(fe_mul_int(t, 2), h3), 3)
    BY <1>3, <2>1, FineAdd
  <2>3. Fine(fe_negate(fe_add(fe_mul_int(t, 2), h3), 3), 4) /\ Fine(fe_sqr(i), 1)
    BY <2>2, FineNegate, FineSqr
  <2> QED
    BY <2>3, FineAdd
<1> HIDE DEF x
<1>5. Fine(y, 3)
  <2>1. Fine(fe_add(fe_negate(x, 5), t), 7)
    BY <1>3, <1>4, FineNegate, FineAdd
  <2>2. Fine(fe_mul(fe_add(fe_negate(x, 5), t), i), 1)
    BY <2>1, FineMul
  <2>3. Fine(fe_negate(fe_mul(h3, s1), 1), 2)
    BY <1>3, FineMul, FineNegate
  <2> QED
    BY <2>2, <2>3, FineAdd
<1>6. Fine(zz, 1)
  BY FineMul
<1> HIDE DEF y, zz
<1>7. GejFine(AddDistinct(zz, u1, s1, h, i))
  <2> DEFINE r == AddDistinct(zz, u1, s1, h, i)
  <2>1. r \in [x : Fes, y : Fes, z : Fes, infinity : BOOLEAN] /\ r.x = x /\ r.y = y /\ r.z = zz
    BY <1>1, <1>4, <1>5, <1>6 DEF Fine
  <2> HIDE DEF r
  <2>2. GejFine(r)
    BY <1>4, <1>5, <1>6, <2>1, GejOf
  <2> QED
    BY <2>2 DEF r
<1>8. GejFine(SameX(a, i).r)
  <2>1. GejFine([a EXCEPT !.infinity = TRUE])
    BY DEF GejFine
  <2> QED
    BY <2>1, DoubleFine DEF SameX, Sum
<1> QED
  BY <1>7, <1>8 DEF AddFrom, Sum, zz

LEMMA DiffFine ==
  ASSUME NEW u1, NEW u2, Fine(u1, 1), Fine(u2, 1)
  PROVE  Fine(Diff(u1, u2), 3)
<1>1. Fine(fe_negate(u1, 1), 2)
  BY FineNegate
<1> QED
  BY <1>1, FineAdd DEF Diff

LEMMA AddVarFine ==
  ASSUME NEW a, NEW b, GejFine(a), GejFine(b)
  PROVE  GejFine(gej_add_var(a, b).r)
<1>1. /\ Fine(a.x, 6) /\ Fine(a.y, 4) /\ Fine(a.z, 2)
      /\ Fine(b.x, 6) /\ Fine(b.y, 4) /\ Fine(b.z, 2)
  BY DEF GejFine
<1> DEFINE z22 == fe_sqr(b.z)
           z12 == fe_sqr(a.z)
           u1  == fe_mul(a.x, z22)
           u2  == fe_mul(b.x, z12)
           s1  == fe_mul(fe_mul(a.y, z22), b.z)
           s2  == fe_mul(fe_mul(b.y, z12), a.z)
           h   == Diff(u1, u2)
<1>2. Fine(z22, 1) /\ Fine(z12, 1)
  BY <1>1, FineSqr
<1> HIDE DEF z22, z12
<1>3. Fine(u1, 1) /\ Fine(u2, 1) /\ Fine(s1, 1) /\ Fine(s2, 1)
  BY <1>1, <1>2, FineMul
<1> HIDE DEF u1, u2, s1, s2
<1>4. Fine(h, 3) /\ Fine(Diff(s1, s2), 3)
  BY <1>3, DiffFine
<1> HIDE DEF h
<1>5. Fine(fe_mul(h, b.z), 1)
  BY <1>1, <1>4, FineMul
<1>6. Fine(fe_mul(h, b.z), 3)
  BY <1>5, FineUp
<1>7. GejFine(AddFrom(a, a.z, u1, s1, h, Diff(s1, s2), fe_mul(h, b.z)).r)
  BY <1>1, <1>3, <1>4, <1>6, AddFromFine
<1>8. CASE a.infinity
  BY <1>8 DEF gej_add_var, Sum
<1>9. CASE ~a.infinity /\ b.infinity
  BY <1>9 DEF gej_add_var, Sum
<1>10. CASE ~a.infinity /\ ~b.infinity
  <2>1. gej_add_var(a, b) = AddFrom(a, a.z, u1, s1, h, Diff(s1, s2), fe_mul(h, b.z))
    BY <1>10 DEF gej_add_var, u1, u2, s1, s2, h, z22, z12
  <2> QED
    BY <1>7, <2>1
<1> QED
  BY <1>8, <1>9, <1>10

LEMMA AddAffineFine ==
  ASSUME NEW a, NEW b, NEW az, GejFine(a), Fine(b.x, 6), Fine(b.y, 4), Fine(az, 2)
  PROVE  GejFine(AddAffine(a, b, az).r)
<1>1. Fine(a.x, 6) /\ Fine(a.y, 4) /\ Fine(a.z, 2)
  BY DEF GejFine
<1> DEFINE z12 == fe_sqr(az)
           u1  == fe_normalize_weak(a.x)
           u2  == fe_mul(b.x, z12)
           s1  == fe_normalize_weak(a.y)
           s2  == fe_mul(fe_mul(b.y, z12), az)
           h   == Diff(u1, u2)
<1>2. Fine(z12, 1) /\ Fine(u1, 1) /\ Fine(s1, 1)
  BY <1>1, FineSqr, FineWeak
<1> HIDE DEF z12, u1, s1
<1>3. Fine(u2, 1) /\ Fine(s2, 1)
  BY <1>2, FineMul
<1> HIDE DEF u2, s2
<1>4. Fine(h, 3) /\ Fine(Diff(s1, s2), 3)
  BY <1>2, <1>3, DiffFine
<1> HIDE DEF h
<1>5. GejFine(AddFrom(a, a.z, u1, s1, h, Diff(s1, s2), h).r)
  BY <1>1, <1>2, <1>4, AddFromFine
<1> QED
  BY <1>5 DEF AddAffine, u1, u2, s1, s2, h, z12

LEMMA SetGeFine ==
  ASSUME NEW a, GeFine(a)
  PROVE  GejFine(gej_set_ge(a))
<1>1. Fine(a.x, 1) /\ Fine(a.y, 2) /\ a.infinity \in BOOLEAN
  BY DEF GeFine
<1>2. Fine(fe_set_int(1), 1)
  BY FineInt
<1> DEFINE r == gej_set_ge(a)
<1>3. /\ r \in [x : Fes, y : Fes, z : Fes, infinity : BOOLEAN]
      /\ r.x = a.x /\ r.y = a.y /\ r.z = fe_set_int(1)
  BY <1>1, <1>2 DEF gej_set_ge, Gej, Fine
<1> HIDE DEF r
<1>4. GejFine(r)
  BY <1>1, <1>2, <1>3, GejOf
<1> QED
  BY <1>4 DEF r

\* The affine point of a, given any element for the inverse of Z.
LEMMA ZinvFine ==
  ASSUME NEW a, NEW zi, NEW i \in 0 .. 8, Fine(zi, i), Fine(a.x, 6), Fine(a.y, 4), a.infinity \in BOOLEAN
  PROVE  GeFine(ge_set_gej_zinv(a, zi))
<1> DEFINE zi2 == fe_sqr(zi)
           r == ge_set_gej_zinv(a, zi)
<1>1. Fine(zi2, 1)
  BY FineSqr
<1>2. r = Ge(fe_mul(a.x, zi2), fe_mul(a.y, fe_mul(zi2, zi)), a.infinity)
  BY DEF ge_set_gej_zinv
<1> HIDE DEF zi2, r
<1>3. Fine(fe_mul(a.x, zi2), 1) /\ Fine(fe_mul(zi2, zi), 1)
  BY <1>1, FineMul
<1>4. Fine(fe_mul(a.y, fe_mul(zi2, zi)), 1)
  BY <1>3, FineMul
<1>5. Fine(fe_mul(a.y, fe_mul(zi2, zi)), 2)
  BY <1>4, FineUp
<1>6. GeFine(r)
  BY <1>2, <1>3, <1>5 DEF GeFine, Ge, Fine
<1> QED
  BY <1>6 DEF r

LEMMA SetGejFine ==
  ASSUME NEW a, GejFine(a)
  PROVE  GeFine(ge_set_gej(a))
<1>1. Fine(a.x, 6) /\ Fine(a.y, 4) /\ Fine(a.z, 2) /\ a.infinity \in BOOLEAN
  BY DEF GejFine
<1>2. Fine(a.z, 8)
  BY <1>1, FineUp
<1>3. Fine(fe_inv(a.z), 1)
  BY <1>2, FineInv
<1> QED
  BY <1>1, <1>3, ZinvFine DEF ge_set_gej

LEMMA NegFine ==
  ASSUME NEW a
  PROVE  /\ GejFine(a) => GejFine(gej_neg(a))
         /\ GeFine(a) => GeFine(ge_neg(a))
<1>1. ASSUME NEW y, NEW i \in Nat, Fine(y, i)
      PROVE  Fine(fe_negate(fe_normalize_weak(y), 1), 2)
  BY <1>1, FineWeak, FineNegate
<1>2. ASSUME GejFine(a) PROVE GejFine(gej_neg(a))
  <2> DEFINE y == fe_negate(fe_normalize_weak(a.y), 1)
  <2>1. Fine(y, 2)
    BY <1>1, <1>2 DEF GejFine
  <2>2. gej_neg(a) = [a EXCEPT !.y = y]
    BY DEF gej_neg
  <2> HIDE DEF y
  <2>3. Fine(y, 4)
    BY <2>1, FineUp
  <2> QED
    BY <1>2, <2>2, <2>3 DEF GejFine, Fine
<1>3. ASSUME GeFine(a) PROVE GeFine(ge_neg(a))
  <2> DEFINE y == fe_negate(fe_normalize_weak(a.y), 1)
  <2>1. Fine(y, 2)
    BY <1>1, <1>3 DEF GeFine
  <2>2. ge_neg(a) = [a EXCEPT !.y = y]
    BY DEF ge_neg
  <2> HIDE DEF y
  <2> QED
    BY <1>3, <2>1, <2>2 DEF GeFine, Fine
<1> QED
  BY <1>2, <1>3

LEMMA AddGeVarFine ==
  ASSUME NEW a, NEW b, GejFine(a), GeFine(b)
  PROVE  GejFine(gej_add_ge_var(a, b).r)
<1>1. Fine(b.x, 6) /\ Fine(b.y, 4) /\ Fine(a.z, 2)
  <2>1. Fine(b.x, 1) /\ Fine(b.y, 2)
    BY DEF GeFine
  <2> QED
    BY <2>1, FineUp DEF GejFine
<1>2. GejFine(AddAffine(a, b, a.z).r) /\ GejFine(gej_set_ge(b))
  BY <1>1, AddAffineFine, SetGeFine
<1> QED
  BY <1>2 DEF gej_add_ge_var, Sum

LEMMA AddZinvVarFine ==
  ASSUME NEW a, NEW b, NEW zi, GejFine(a), GejFine(b), Fine(zi, 1)
  PROVE  GejFine(gej_add_zinv_var(a, b, zi))
<1>1. /\ Fine(b.x, 6) /\ Fine(b.y, 4) /\ Fine(a.z, 2) /\ b.infinity \in BOOLEAN
  BY DEF GejFine
<1>2. GejFine(gej_set_ge(ge_set_gej_zinv(b, zi)))
  BY <1>1, ZinvFine, SetGeFine
<1>3. Fine(fe_mul(a.z, zi), 1)
  BY <1>1, FineMul
<1>4. Fine(fe_mul(a.z, zi), 2)
  BY <1>3, FineUp
<1>5. GejFine(AddAffine(a, b, fe_mul(a.z, zi)).r)
  BY <1>1, <1>4, AddAffineFine
<1> QED
  BY <1>2, <1>5 DEF gej_add_zinv_var

LEMMA RescaleFine ==
  ASSUME NEW a, GejFine(a), NEW z \in 1 .. P-1
  PROVE  GejFine(gej_rescale(a, fe_set_int(z)))
<1> DEFINE s == fe_set_int(z)
           zz == fe_sqr(s)
           x == fe_mul(a.x, zz)
           y == fe_mul(fe_mul(a.y, zz), s)
           w == fe_mul(a.z, s)
           r == gej_rescale(a, s)
<1>1. z \in Int /\ z % P = z
  BY PrimeP
<1>2. Fine(s, 1)
  BY <1>1, FineInt
<1>3. (s.normal /\ s.v # 0) = TRUE
  BY <1>1, PrimeP DEF fe_set_int, Elem
<1>4. Fine(a.x, 6) /\ Fine(a.y, 4) /\ Fine(a.z, 2) /\ a.infinity \in BOOLEAN
  BY DEF GejFine
<1>5. r = Gej(Check(x, s.normal /\ s.v # 0), y, w, a.infinity)
  BY DEF gej_rescale
<1> HIDE DEF s, r
<1>6. Fine(zz, 1)
  BY <1>2, FineSqr
<1> HIDE DEF zz
<1>7. Fine(x, 1) /\ Fine(y, 1) /\ Fine(w, 1)
  BY <1>2, <1>4, <1>6, FineMul
<1> HIDE DEF x, y, w
<1>8. Fine(Check(x, s.normal /\ s.v # 0), 1)
  BY <1>3, <1>7, FineCheck
<1> DEFINE xc == Check(x, s.normal /\ s.v # 0)
<1>9. r = Gej(xc, y, w, a.infinity) /\ Fine(xc, 1)
  BY <1>5, <1>8
<1> HIDE DEF xc
<1>10. r \in [x : Fes, y : Fes, z : Fes, infinity : BOOLEAN] /\ r.x = xc /\ r.y = y /\ r.z = w
  BY <1>4, <1>7, <1>9 DEF Gej, Fine
<1>11. GejFine(r)
  BY <1>7, <1>9, <1>10, GejOf
<1> QED
  BY <1>11 DEF r, s

LEMMA MulLambdaFine ==
  ASSUME NEW a, GeFine(a)
  PROVE  GeFine(ge_mul_lambda(a))
<1>1. Fine(a.x, 1) /\ Fine(fe_set_int(Beta), 1)
  <2>1. Beta \in Int
    BY GroupAssumption, PrimeP
  <2> QED
    BY <2>1, FineInt DEF GeFine
<1> DEFINE x == fe_mul(a.x, fe_set_int(Beta))
<1>2. Fine(x, 1)
  BY <1>1, FineMul
<1>3. ge_mul_lambda(a) = [a EXCEPT !.x = x]
  BY DEF ge_mul_lambda
<1> HIDE DEF x
<1> QED
  BY <1>2, <1>3 DEF GeFine, Fine

\* The constant-time addition.
LEMMA AddGeFine ==
  ASSUME NEW a, NEW b, GejFine(a), GeFine(b), b.infinity = FALSE
  PROVE  GejFine(gej_add_ge(a, b))
<1>1. /\ Fine(a.x, 6) /\ Fine(a.y, 4) /\ Fine(a.z, 2) /\ a.infinity \in BOOLEAN
      /\ Fine(b.x, 1) /\ Fine(b.y, 2)
  BY DEF GejFine, GeFine
<1> DEFINE zz == fe_sqr(a.z)
           u1 == fe_normalize_weak(a.x)
           u2 == fe_mul(b.x, zz)
           s1 == fe_normalize_weak(a.y)
           t  == fe_add(u1, u2)
           m  == fe_add(s1, fe_mul(fe_mul(b.y, zz), a.z))
           rr == fe_add(fe_sqr(t), fe_mul(u1, fe_negate(u2, 1)))
           deg == fe_normalizes_to_zero(m) /\ fe_normalizes_to_zero(rr)
           m_alt == fe_cmov(fe_add(fe_negate(u2, 1), u1), m, ~deg)
           rr_alt == fe_cmov(fe_mul_int(s1, 2), rr, ~deg)
           n  == fe_sqr(m_alt)
           q  == fe_negate(fe_mul(n, t), 1)
           n2 == fe_cmov(fe_sqr(n), m, deg)
           z  == fe_mul(a.z, m_alt)
           x3 == fe_normalize_weak(fe_add(fe_sqr(rr_alt), q))
           ty == fe_add(fe_mul(fe_add(fe_mul_int(x3, 2), q), rr_alt), n2)
           y3 == fe_normalize_weak(fe_negate(ty, 3))
           x4 == fe_cmov(fe_mul_int(x3, 4), b.x, a.infinity)
           y4 == fe_cmov(fe_mul_int(y3, 4), b.y, a.infinity)
           z4 == fe_cmov(fe_mul_int(z, 2), fe_set_int(1), a.infinity)
           r == Gej(x4, y4, z4, fe_normalizes_to_zero(z) /\ ~a.infinity)
<1>2. gej_add_ge(a, b) = Checked(r, ~b.infinity)
  BY DEF gej_add_ge, Unified, UnifiedEnd
<1>3. Fine(zz, 1) /\ Fine(u1, 1) /\ Fine(s1, 1)
  BY <1>1, FineSqr, FineWeak
<1> HIDE DEF zz, u1, s1
<1>4. Fine(u2, 1)
  BY <1>1, <1>3, FineMul
<1> HIDE DEF u2
<1>5. Fine(t, 2) /\ Fine(fe_negate(u2, 1), 2)
  BY <1>3, <1>4, FineAdd, FineNegate
<1> HIDE DEF t
<1>6. Fine(m, 2)
  <2>1. Fine(fe_mul(fe_mul(b.y, zz), a.z), 1)
    BY <1>1, <1>3, FineMul
  <2> QED
    BY <1>3, <2>1, FineAdd
<1> HIDE DEF m
<1>7. Fine(rr, 2)
  <2>1. Fine(fe_sqr(t), 1) /\ Fine(fe_mul(u1, fe_negate(u2, 1)), 1)
    BY <1>3, <1>5, FineSqr, FineMul
  <2> QED
    BY <2>1, FineAdd
<1> HIDE DEF rr, deg
<1>8. Fine(m_alt, 3)
  <2>1. Fine(fe_add(fe_negate(u2, 1), u1), 3)
    BY <1>3, <1>5, FineAdd
  <2>2. Fine(m, 3)
    BY <1>6, FineUp
  <2> QED
    BY <2>1, <2>2, FineCmov
<1>9. Fine(rr_alt, 2)
  <2>1. Fine(fe_mul_int(s1, 2), 2)
    BY <1>3, FineMulInt
  <2> QED
    BY <1>7, <2>1, FineCmov
<1> HIDE DEF m_alt, rr_alt
<1>10. Fine(n, 1) /\ Fine(z, 1)
  BY <1>1, <1>8, FineSqr, FineMul
<1> HIDE DEF n, z
<1>11. Fine(q, 2)
  <2>1. Fine(fe_mul(n, t), 1)
    BY <1>5, <1>10, FineMul
  <2> QED
    BY <2>1, FineNegate
<1>12. Fine(n2, 2)
  <2>1. Fine(fe_sqr(n), 1)
    BY <1>10, FineSqr
  <2>2. Fine(fe_sqr(n), 2)
    BY <2>1, FineUp
  <2> QED
    BY <1>6, <2>2, FineCmov
<1> HIDE DEF q, n2
<1>13. Fine(x3, 1)
  <2>1. Fine(fe_sqr(rr_alt), 1)
    BY <1>9, FineSqr
  <2>2. Fine(fe_add(fe_sqr(rr_alt), q), 3)
    BY <1>11, <2>1, FineAdd
  <2> QED
    BY <2>2, FineWeak
<1> HIDE DEF x3
<1>14. Fine(ty, 3)
  <2>1. Fine(fe_mul_int(x3, 2), 2)
    BY <1>13, FineMulInt
  <2>2. Fine(fe_add(fe_mul_int(x3, 2), q), 4)
    BY <1>11, <2>1, FineAdd
  <2>3. Fine(fe_mul(fe_add(fe_mul_int(x3, 2), q), rr_alt), 1)
    BY <1>9, <2>2, FineMul
  <2> QED
    BY <1>12, <2>3, FineAdd
<1> HIDE DEF ty
<1>15. Fine(y3, 1)
  <2>1. Fine(fe_negate(ty, 3), 4)
    BY <1>14, FineNegate
  <2> QED
    BY <2>1, FineWeak
<1> HIDE DEF y3
<1>16. Fine(x4, 4) /\ Fine(y4, 4)
  <2>1. Fine(fe_mul_int(x3, 4), 4) /\ Fine(fe_mul_int(y3, 4), 4)
    BY <1>13, <1>15, FineMulInt
  <2>2. Fine(b.x, 4) /\ Fine(b.y, 4)
    BY <1>1, FineUp
  <2> QED
    BY <2>1, <2>2, FineCmov
<1>17. Fine(z4, 2)
  <2>1. Fine(fe_mul_int(z, 2), 2)
    BY <1>10, FineMulInt
  <2>2. Fine(fe_set_int(1), 1)
    BY FineInt
  <2>3. Fine(fe_set_int(1), 2)
    BY <2>2, FineUp
  <2> QED
    BY <2>1, <2>3, FineCmov
<1> HIDE DEF x4, y4, z4
<1>18. /\ r \in [x : Fes, y : Fes, z : Fes, infinity : BOOLEAN] /\ r.x = x4 /\ r.y = y4 /\ r.z = z4
  <2>1. (fe_normalizes_to_zero(z) /\ ~a.infinity) \in BOOLEAN
    OBVIOUS
  <2> QED
    BY <1>16, <1>17, <2>1 DEF Gej, Fine
<1> HIDE DEF r
<1>19. Fine(Check(x4, ~b.infinity), 4)
  BY <1>16, FineCheck
<1> DEFINE xc == Check(x4, ~b.infinity)
           w == [r EXCEPT !.x = xc]
<1>20. gej_add_ge(a, b) = w
  BY <1>2, <1>18 DEF Checked
<1> HIDE DEF xc
<1>21. w \in [x : Fes, y : Fes, z : Fes, infinity : BOOLEAN] /\ w.x = xc /\ w.y = y4 /\ w.z = z4
  BY <1>18, <1>19 DEF Fine, xc
<1> HIDE DEF w
<1>22. GejFine(w)
  BY <1>16, <1>17, <1>19, <1>21, GejOf DEF xc
<1> QED
  BY <1>20, <1>22

-----------------------------------------------------------------------------
(* The operands, and every sequence of operations.                         *)

\* The entries of a table have magnitude 1.
LEMMA FreshFine ==
  ASSUME NEW j \in Logs, NEW z \in Zs
  PROVE  GejFine(Fresh(j, z)) /\ z \in 1 .. P-1 /\ z \in Int
<1>1. j \in 0 .. Order-1 /\ z \in 1 .. P-1 /\ z \in Int
  BY GroupAssumption, PrimeP
<1>2. Fine(fe_clear, 1)
  BY FineInt
<1>3. CASE j = 0
  <2> DEFINE r == Gej(fe_clear, fe_clear, fe_clear, TRUE)
  <2>1. /\ r \in [x : Fes, y : Fes, z : Fes, infinity : BOOLEAN]
        /\ r.x = fe_clear /\ r.y = fe_clear /\ r.z = fe_clear
    BY <1>2 DEF Gej, Fine
  <2>2. Fresh(j, z) = r
    BY <1>3 DEF Fresh
  <2> HIDE DEF r
  <2> QED
    BY <1>1, <1>2, <2>1, <2>2, GejOf
<1>4. CASE j # 0
  <2>1. Mult(j)[1] \in Int /\ Mult(j)[2] \in Int
    <3>1. j \in 1 .. Order-1
      BY <1>1, <1>4, CurveAssumption
    <3>2. Mult(j) \in (0 .. P-1) \X (0 .. P-1)
      BY <3>1, GroupLaw
    <3> QED
      BY <3>2, PrimeP
  <2> DEFINE x == fe_set_int(Mult(j)[1] * z * z)
             y == fe_set_int(Mult(j)[2] * ((z * z * z) % P))
             w == fe_set_int(z)
             r == Gej(x, y, w, FALSE)
  <2>2. Fine(x, 1) /\ Fine(y, 1) /\ Fine(w, 1)
    <3>1. z * z \in Int /\ z * z * z \in Int
      BY <1>1
    <3>2. (z * z * z) % P \in Int
      BY <3>1, ModP, PrimeP
    <3>3. Mult(j)[1] * z * z \in Int /\ Mult(j)[2] * ((z * z * z) % P) \in Int
      BY <1>1, <2>1, <3>2
    <3> QED
      BY <1>1, <3>3, FineInt
  <2>3. Fresh(j, z) = r
    BY <1>4 DEF Fresh
  <2> HIDE DEF x, y, w
  <2>4. /\ r \in [x : Fes, y : Fes, z : Fes, infinity : BOOLEAN]
        /\ r.x = x /\ r.y = y /\ r.z = w
    BY <2>2 DEF Gej, Fine
  <2> HIDE DEF r
  <2> QED
    BY <1>1, <2>2, <2>3, <2>4, GejOf
<1> QED
  BY <1>3, <1>4

LEMMA FreshGeFine ==
  ASSUME NEW j \in 0 .. Order-1
  PROVE  GeFine(FreshGe(j))
<1>1. CASE j = 0
  <2>1. Fine(fe_clear, 1) /\ Fine(fe_clear, 2)
    BY FineInt, FineUp
  <2>2. FreshGe(j) = Ge(fe_clear, fe_clear, TRUE)
    BY <1>1 DEF FreshGe
  <2> QED
    BY <2>1, <2>2 DEF GeFine, Ge, Fine
<1>2. CASE j # 0
  <2>1. Mult(j)[1] \in Int /\ Mult(j)[2] \in Int
    <3>1. j \in 1 .. Order-1
      BY <1>2, CurveAssumption
    <3>2. Mult(j) \in (0 .. P-1) \X (0 .. P-1)
      BY <3>1, GroupLaw
    <3> QED
      BY <3>2, PrimeP
  <2> DEFINE x == fe_set_int(Mult(j)[1])
             y == fe_set_int(Mult(j)[2])
  <2>2. Fine(x, 1) /\ Fine(y, 1)
    BY <2>1, FineInt
  <2>3. FreshGe(j) = Ge(x, y, FALSE)
    BY <1>2 DEF FreshGe
  <2> HIDE DEF x, y
  <2>4. Fine(y, 2)
    BY <2>2, FineUp
  <2> QED
    BY <2>2, <2>3, <2>4 DEF GeFine, Ge, Fine
<1> QED
  BY <1>1, <1>2

LEMMA OperandsFine ==
  /\ \A o \in GejOperands : GejFine(o.b)
  /\ \A o \in GeOperands : GeFine(o.b)
<1>1. ASSUME NEW o \in GejOperands PROVE GejFine(o.b)
  <2>1. PICK j \in Logs, z \in Zs : o.b = Fresh(j, z) \/ o.b = gej_double_var(Fresh(j, z)).r
    BY <1>1 DEF GejOperands
  <2>2. GejFine(Fresh(j, z))
    BY FreshFine
  <2>3. GejFine(gej_double_var(Fresh(j, z)).r)
    BY <2>2, DoubleFine
  <2> QED
    BY <2>1, <2>2, <2>3
<1>2. ASSUME NEW o \in GeOperands PROVE GeFine(o.b)
  <2>1. PICK j \in Logs : o.b = FreshGe(j) \/ o.b = ge_neg(FreshGe(j))
    BY <1>2 DEF GeOperands
  <2>2. GeFine(FreshGe(j))
    BY FreshGeFine, GroupAssumption
  <2>3. GeFine(ge_neg(FreshGe(j)))
    BY <2>2, NegFine
  <2> QED
    BY <2>1, <2>2, <2>3
<1> QED
  BY <1>1, <1>2

LEMMA InfinityFine == GejFine(gej_set_infinity)
<1>1. Fine(fe_clear, 1)
  BY FineInt
<1> DEFINE r == gej_set_infinity
<1>2. /\ r \in [x : Fes, y : Fes, z : Fes, infinity : BOOLEAN]
      /\ r.x = fe_clear /\ r.y = fe_clear /\ r.z = fe_clear
  BY <1>1 DEF gej_set_infinity, Gej, Fine
<1> HIDE DEF r
<1>3. GejFine(r)
  BY <1>1, <1>2, GejOf
<1> QED
  BY <1>3 DEF r

LEMMA StepFine ==
  GejFine(acc) /\ [GroupNext]_groupVars => GejFine(acc)'
<1> SUFFICES ASSUME GejFine(acc), [GroupNext]_groupVars
             PROVE  GejFine(acc')
  BY DEF GejFine, Fine
<1>1. CASE SetInfinity
  BY <1>1, InfinityFine DEF SetInfinity, Compute
<1>2. CASE SetGe
  <2>1. PICK o \in GeOperands : acc' = gej_set_ge(o.b)
    BY <1>2 DEF SetGe, Compute
  <2> QED
    BY <2>1, OperandsFine, SetGeFine
<1>3. CASE Double
  BY <1>3, DoubleFine DEF Double, Compute
<1>4. CASE Neg
  BY <1>4, NegFine DEF Neg, Compute
<1>5. CASE AddVar
  <2>1. PICK o \in GejOperands : acc' = gej_add_var(acc, o.b).r
    BY <1>5 DEF AddVar, Compute
  <2> QED
    BY <2>1, OperandsFine, AddVarFine
<1>6. CASE AddGeVar
  <2>1. PICK o \in GeOperands : acc' = gej_add_ge_var(acc, o.b).r
    BY <1>6 DEF AddGeVar, Compute
  <2> QED
    BY <2>1, OperandsFine, AddGeVarFine
<1>7. CASE AddZinvVar
  <2>1. PICK j \in Logs, z \in Zs : acc' = gej_add_zinv_var(acc, Fresh(j, z), fe_inv(fe_set_int(z)))
    BY <1>7 DEF AddZinvVar, Compute
  <2>2. GejFine(Fresh(j, z)) /\ Fine(fe_set_int(z), 1)
    BY FreshFine, FineInt
  <2>3. Fine(fe_set_int(z), 8)
    BY <2>2, FineUp
  <2>4. Fine(fe_inv(fe_set_int(z)), 1)
    BY <2>3, FineInv
  <2> QED
    BY <2>1, <2>2, <2>4, AddZinvVarFine
<1>8. CASE AddGe
  <2>1. PICK o \in GeOperands : ~o.b.infinity /\ acc' = gej_add_ge(acc, o.b)
    BY <1>8 DEF AddGe, Compute
  <2>2. GeFine(o.b)
    BY OperandsFine
  <2>3. o.b.infinity = FALSE
    BY <2>1, <2>2 DEF GeFine
  <2> QED
    BY <2>1, <2>2, <2>3, AddGeFine
<1>9. CASE Rescale
  <2>1. PICK z \in Zs : acc' = gej_rescale(acc, fe_set_int(z))
    BY <1>9 DEF Rescale, Compute
  <2>2. z \in 1 .. P-1
    BY GroupAssumption
  <2> QED
    BY <2>1, <2>2, RescaleFine
<1>10. GeFine(ge_set_gej(acc)) /\ GejFine(gej_set_ge(ge_set_gej(acc)))
  BY SetGejFine, SetGeFine
<1>11. CASE ToAffine
  BY <1>10, <1>11 DEF ToAffine, Compute, ge_set_gej_a
<1>12. CASE ToAffineVar
  BY <1>10, <1>12 DEF ToAffineVar, Compute, ge_set_gej_var_a, ge_set_gej_a
<1>13. CASE MulLambda
  <2>1. GejFine(gej_set_ge(ge_mul_lambda(ge_set_gej(acc))))
    BY <1>10, MulLambdaFine, SetGeFine
  <2> QED
    BY <1>13, <2>1 DEF MulLambda, Compute
<1>14. CASE UNCHANGED groupVars
  BY <1>14 DEF groupVars
<1> QED
  BY <1>1, <1>2, <1>3, <1>4, <1>5, <1>6, <1>7, <1>8, <1>9, <1>11, <1>12, <1>13, <1>14 DEF GroupNext

\* No sequence of group operations, of any length, on any curve, makes a
\* VERIFY_CHECK of group_impl.h or of a field operation it calls fail: no
\* operand of fe_mul or fe_sqr ever has magnitude above 8, none of fe_negate
\* more than the caller announces.  The accumulator keeps x within magnitude 6,
\* y within 4 and z within 2, whichever operations meet.
THEOREM MagnitudesAlwaysHold == GroupSpec => []MagnitudesHold
<1>1. GroupInit => GejFine(acc)
  BY InfinityFine DEF GroupInit
<1>2. GejFine(acc) /\ [GroupNext]_groupVars => GejFine(acc)'
  BY StepFine
<1>3. GejFine(acc) => MagnitudesHold
  BY DEF GejFine, Fine, MagnitudesHold, Ok
<1> QED
  BY <1>1, <1>2, <1>3, PTL DEF GroupSpec

-----------------------------------------------------------------------------
(* What the formulas compute: the residues of field elements, as integers  *)
(* modulo P.                                                               *)

\* The residue of a is that of the number n.
Val(a, n) == a.v \in 0 .. P-1 /\ n \in Int /\ Cong(a.v, n, P)

\* The numbers' arithmetic, as names the provers leave alone.
Times(i, j) == i * j
Plus(i, j) == i + j
Minus(i) == -i

LEMMA ValMod ==
  ASSUME NEW x \in Int, NEW n \in Int, Cong(x, n, P)
  PROVE  x % P \in 0 .. P-1 /\ Cong(x % P, n, P)
<1>1. P \in Nat \ {0} /\ x % P \in 0 .. P-1 /\ x % P \in Int /\ Cong(x % P, x, P)
  BY FieldFacts, CongMod
<1> QED
  BY <1>1, CongEquivalence

LEMMA ValMul ==
  ASSUME NEW a, NEW b, NEW i, NEW j, Val(a, i), Val(b, j)
  PROVE  Val(fe_mul(a, b), Times(i, j))
<1>1. /\ P \in Nat \ {0} /\ a.v \in Int /\ b.v \in Int /\ i \in Int /\ j \in Int
      /\ Cong(a.v, i, P) /\ Cong(b.v, j, P)
  BY FieldFacts DEF Val
<1>2. a.v * b.v \in Int /\ i * j \in Int
  BY <1>1
<1>3. Cong(a.v * b.v, i * j, P)
  BY <1>1, CongArithmetic
<1>4. fe_mul(a, b).v = (a.v * b.v) % P
  BY DEF fe_mul, Elem
<1> QED
  BY <1>2, <1>3, <1>4, ValMod DEF Val, Times

LEMMA ValSqr ==
  ASSUME NEW a, NEW i, Val(a, i)
  PROVE  Val(fe_sqr(a), Times(i, i))
<1>1. Val(fe_mul(a, a), Times(i, i))
  BY ValMul
<1>2. fe_sqr(a).v = fe_mul(a, a).v
  BY DEF fe_mul, fe_sqr, Elem
<1> QED
  BY <1>1, <1>2 DEF Val

LEMMA ValAdd ==
  ASSUME NEW a, NEW b, NEW i, NEW j, Val(a, i), Val(b, j)
  PROVE  Val(fe_add(a, b), Plus(i, j))
<1>1. /\ P \in Nat \ {0} /\ a.v \in Int /\ b.v \in Int /\ i \in Int /\ j \in Int
      /\ Cong(a.v, i, P) /\ Cong(b.v, j, P)
  BY FieldFacts DEF Val
<1>2. a.v + b.v \in Int /\ i + j \in Int
  BY <1>1
<1>3. Cong(a.v + b.v, i + j, P)
  BY <1>1, CongArithmetic
<1>4. fe_add(a, b).v = (a.v + b.v) % P
  BY DEF fe_add, Elem
<1> QED
  BY <1>2, <1>3, <1>4, ValMod DEF Val, Plus

LEMMA ValMulInt ==
  ASSUME NEW a, NEW i, Val(a, i), NEW c, c \in Int
  PROVE  Val(fe_mul_int(a, c), Times(i, c))
<1>1. P \in Nat \ {0} /\ a.v \in Int /\ i \in Int /\ Cong(a.v, i, P)
  BY FieldFacts DEF Val
<1>2. Follows(a.v * c, i * c, c, a.v, i) /\ a.v * c \in Int /\ i * c \in Int
  BY <1>1 DEF Follows
<1>3. Cong(a.v * c, i * c, P)
  BY <1>1, <1>2, CongBy
<1>4. fe_mul_int(a, c).v = (a.v * c) % P
  BY DEF fe_mul_int, Elem
<1> QED
  BY <1>2, <1>3, <1>4, ValMod DEF Val, Times

LEMMA ValNegate ==
  ASSUME NEW a, NEW i, Val(a, i), NEW c
  PROVE  Val(fe_negate(a, c), Minus(i))
<1>1. P \in Nat \ {0} /\ a.v \in Int /\ i \in Int /\ Cong(a.v, i, P)
  BY FieldFacts DEF Val
<1>2. Follows(-a.v, -i, -1, a.v, i) /\ -a.v \in Int /\ -i \in Int
  BY <1>1 DEF Follows
<1>3. Cong(-a.v, -i, P)
  BY <1>1, <1>2, CongBy
<1>4. fe_negate(a, c).v = (-a.v) % P
  BY DEF fe_negate, Elem
<1> QED
  BY <1>2, <1>3, <1>4, ValMod DEF Val, Minus

LEMMA ValWeak ==
  ASSUME NEW a \in Fes, NEW i, Val(a, i)
  PROVE  Val(fe_normalize_weak(a), i)
<1>1. fe_normalize_weak(a).v = a.v
  BY DEF fe_normalize_weak, Fes
<1> QED
  BY <1>1 DEF Val

LEMMA ValInt ==
  ASSUME NEW n \in Int
  PROVE  Val(fe_set_int(n), n)
<1>1. n % P \in 0 .. P-1 /\ Cong(n % P, n, P)
  BY FieldFacts, CongMod
<1> QED
  BY <1>1 DEF Val, fe_set_int, Elem

\* The same residue by another number.
LEMMA ValSame ==
  ASSUME NEW a, NEW i, Val(a, i), NEW j \in Int, Cong(i, j, P)
  PROVE  Val(a, j)
<1>1. P \in Nat \ {0} /\ a.v \in Int /\ i \in Int /\ Cong(a.v, i, P)
  BY FieldFacts DEF Val
<1> QED
  BY <1>1, CongEquivalence DEF Val

\* An element is zero when its number is a multiple of P.
LEMMA ValZero ==
  ASSUME NEW a, NEW i, Val(a, i)
  PROVE  fe_normalizes_to_zero(a) <=> Cong(i, 0, P)
<1>1. P \in Nat \ {0} /\ a.v \in 0 .. P-1 /\ a.v \in Int /\ i \in Int /\ Cong(a.v, i, P) /\ 0 \in Int
  BY FieldFacts DEF Val
<1>2. Cong(a.v, 0, P) <=> a.v = 0
  BY <1>1, ResidueZero
<1>3. Cong(i, 0, P) <=> Cong(a.v, 0, P)
  BY <1>1, CongEquivalence
<1> QED
  BY <1>2, <1>3 DEF fe_normalizes_to_zero

\* a is the affine point <<p1, p2>> at the scale z.
At(a, z, p1, p2) ==
  /\ a.infinity = FALSE
  /\ z \in Int /\ ~Cong(z, 0, P) /\ Val(a.z, z) /\ Val(a.x, p1 * z * z) /\ Val(a.y, p2 * z * z * z)

\* Doubling goes along the tangent.
LEMMA DoubleAt ==
  ASSUME NEW a, NEW z, NEW p1 \in 0 .. P-1, NEW p2 \in 0 .. P-1, p2 # 0, At(a, z, p1, p2)
  PROVE  \E w \in Int, r1 \in 0 .. P-1, r2 \in 0 .. P-1 :
           /\ At(DoubleFinite(a), w, r1, r2)
           /\ AffineAdd(<<p1, p2>>, <<p1, p2>>) = <<r1, r2>>
<1>0. /\ P \in Nat \ {0} /\ Prime(P) /\ p1 \in Int /\ p2 \in Int /\ z \in Int /\ 0 \in Int
      /\ ~Cong(z, 0, P) /\ Val(a.z, z) /\ Val(a.x, p1 * z * z) /\ Val(a.y, p2 * z * z * z)
  BY FieldFacts DEF At
<1>1. PICK l \in Int :
        /\ AffineAdd(<<p1, p2>>, <<p1, p2>>) = Chord(<<p1, p2>>, <<p1, p2>>, l)
        /\ Cong(l * (2 * p2), 3 * p1 * p1, P)
  BY SumByLine
<1>2. PICK r1 \in 0 .. P-1, r2 \in 0 .. P-1 :
        /\ Chord(<<p1, p2>>, <<p1, p2>>, l) = <<r1, r2>> /\ r1 \in Int /\ r2 \in Int
        /\ Cong(r1, l * l - p1 - p1, P) /\ Cong(r2, l * (p1 - r1) - p2, P)
  BY <1>0, ChordPoint
<1> DEFINE X == p1 * z * z
           Y == p2 * z * z * z
           T1 == Times(Times(X, X), 3)
           T2 == Times(T1, T1)
           T3 == Times(Times(Y, Y), 2)
           T4 == Times(Times(T3, T3), 2)
           T5 == Times(T3, X)
           T6 == Plus(Times(T5, 6), Minus(T2))
           X3 == Plus(Minus(Times(T5, 4)), T2)
           Y3 == Plus(Times(T1, T6), Minus(T4))
           W3 == Times(Times(z, Y), 2)
           t1 == fe_mul_int(fe_sqr(a.x), 3)
           t2 == fe_sqr(t1)
           t3 == fe_mul_int(fe_sqr(a.y), 2)
           t4 == fe_mul_int(fe_sqr(t3), 2)
           t5 == fe_mul(t3, a.x)
           t6 == fe_add(fe_mul_int(t5, 6), fe_negate(t2, 1))
           r == DoubleFinite(a)
<1>3. /\ r.x = fe_add(fe_negate(fe_mul_int(t5, 4), 4), t2)
      /\ r.y = fe_add(fe_mul(t1, t6), fe_negate(t4, 2))
      /\ r.z = fe_mul_int(fe_mul(a.z, a.y), 2) /\ r.infinity = FALSE
  BY DEF DoubleFinite, Gej
<1> DEFINE h == 2 * p2
           n == 3 * p1 * p1
           e == z * z * z * z
           W == h * e
<1>4. /\ X3 = LineX(p1, p1, h, n, e) /\ Y3 = LineY(p1, p2, p1, h, n, e) /\ W3 = W
  BY <1>0 DEF Times, Plus, Minus, LineX, LineY
<1> HIDE DEF X, Y, r
<1>5. Val(a.x, X) /\ Val(a.y, Y) /\ Val(a.z, z)
  BY <1>0 DEF X, Y
<1>6. Val(r.x, X3) /\ Val(r.y, Y3) /\ Val(r.z, W3)
  BY <1>3, <1>5, ValMul, ValSqr, ValAdd, ValMulInt, ValNegate
<1> HIDE DEF X3, Y3, W3, t1, t2, t3, t4, t5, t6
<1>7. h \in Int /\ n \in Int /\ e \in Int /\ W \in Int /\ Cong(l * h, n, P)
  BY <1>0, <1>1
<1>8. Cong(X3, r1 * W * W, P) /\ Cong(Y3, r2 * W * W * W, P)
  BY <1>0, <1>2, <1>4, <1>7, LineFormula
<1>9. ~Cong(W, 0, P)
  <2>1. ~Cong(p2, 0, P) /\ ~Cong(2, 0, P)
    BY ResidueZero, FieldFacts
  <2>2. ~Cong(h, 0, P) /\ ~Cong(z * z, 0, P)
    BY <1>0, <2>1, PrimeProduct
  <2>3. ~Cong((z * z) * (z * z), 0, P) /\ (z * z) * (z * z) = e
    BY <1>0, <2>2, PrimeProduct
  <2> QED
    BY <1>0, <1>7, <2>2, <2>3, PrimeProduct
<1> HIDE DEF W
<1>10. r1 * W * W \in Int /\ r2 * W * W * W \in Int
  BY <1>2, <1>7
<1>11. Val(r.x, r1 * W * W) /\ Val(r.y, r2 * W * W * W) /\ Val(r.z, W)
  BY <1>4, <1>6, <1>8, <1>10, ValSame
<1>12. At(r, W, r1, r2)
  BY <1>3, <1>7, <1>9, <1>11 DEF At
<1> QED
  BY <1>1, <1>2, <1>7, <1>12 DEF r, W

\* a stands for the point q.
Stands(a, q) ==
  \/ q = Inf /\ a.infinity = TRUE
  \/ \E z \in Int, p1 \in 0 .. P-1, p2 \in 0 .. P-1 : q = <<p1, p2>> /\ At(a, z, p1, p2)
GeStands(a, q) ==
  \/ q = Inf /\ a.infinity = TRUE
  \/ /\ q # Inf /\ a.infinity = FALSE
     /\ q = <<a.x.v, a.y.v>> /\ a.x.v \in 0 .. P-1 /\ a.y.v \in 0 .. P-1

\* The registers of an addition: the points <<p1, p2>> and <<q1, q2>> are at the
\* common scale D, and so are their differences.
Common(z, u1, s1, h, i, D, p1, p2, q1, q2) ==
  /\ Val(u1, p1 * D * D) /\ Val(s1, p2 * D * D * D) /\ Val(h, (q1 - p1) * D * D)
  /\ Val(i, (q2 - p2) * D * D * D) /\ Val(z, (q1 - p1) * D * D * D)

\* Adding points of different x goes along the chord.
LEMMA DistinctStands ==
  ASSUME NEW z, NEW u1, NEW s1, NEW h, NEW i, NEW D \in Int, ~Cong(D, 0, P),
         NEW p1 \in 0 .. P-1, NEW p2 \in 0 .. P-1, NEW q1 \in 0 .. P-1, NEW q2 \in 0 .. P-1, p1 # q1,
         Common(z, u1, s1, h, i, D, p1, p2, q1, q2)
  PROVE  Stands(AddDistinct(z, u1, s1, h, i), AffineAdd(<<p1, p2>>, <<q1, q2>>))
<1>0. /\ P \in Nat \ {0} /\ Prime(P) /\ p1 \in Int /\ p2 \in Int /\ q1 \in Int /\ q2 \in Int
      /\ q1 - p1 \in Int /\ ~Cong(q1 - p1, 0, P)
  BY FieldFacts, Different
<1>1. PICK l \in Int :
        /\ AffineAdd(<<p1, p2>>, <<q1, q2>>) = Chord(<<p1, p2>>, <<q1, q2>>, l)
        /\ Cong(l * (q1 - p1), q2 - p2, P)
  BY SumByLine
<1>2. PICK r1 \in 0 .. P-1, r2 \in 0 .. P-1 :
        /\ Chord(<<p1, p2>>, <<q1, q2>>, l) = <<r1, r2>> /\ r1 \in Int /\ r2 \in Int
        /\ Cong(r1, l * l - p1 - q1, P) /\ Cong(r2, l * (p1 - r1) - p2, P)
  BY <1>0, ChordPoint
<1> DEFINE U == p1 * D * D
           S == p2 * D * D * D
           H == (q1 - p1) * D * D
           I == (q2 - p2) * D * D * D
           H2 == Times(H, H)
           H3 == Times(H, H2)
           T == Times(U, H2)
           X3 == Plus(Minus(Plus(Times(T, 2), H3)), Times(I, I))
           Y3 == Plus(Times(Plus(Minus(X3), T), I), Minus(Times(H3, S)))
           d == q1 - p1
           n == q2 - p2
           e == D * D * D
           W == d * e
           h2 == fe_sqr(h)
           h3 == fe_mul(h, h2)
           t  == fe_mul(u1, h2)
           x  == fe_add(fe_negate(fe_add(fe_mul_int(t, 2), h3), 3), fe_sqr(i))
           r  == AddDistinct(z, u1, s1, h, i)
<1>3. /\ r.x = x
      /\ r.y = fe_add(fe_mul(fe_add(fe_negate(x, 5), t), i), fe_negate(fe_mul(h3, s1), 1))
      /\ r.z = z /\ r.infinity = FALSE
  BY DEF AddDistinct, Gej
<1>4. X3 = LineX(p1, q1, d, n, e) /\ Y3 = LineY(p1, p2, q1, d, n, e) /\ (q1 - p1) * D * D * D = W
  BY <1>0 DEF Times, Plus, Minus, LineX, LineY
<1> HIDE DEF U, S, H, I, r
<1>5. Val(u1, U) /\ Val(s1, S) /\ Val(h, H) /\ Val(i, I)
  BY DEF U, S, H, I, Common
<1>6. Val(r.x, X3) /\ Val(r.y, Y3)
  BY <1>3, <1>5, ValMul, ValSqr, ValAdd, ValMulInt, ValNegate
<1> HIDE DEF X3, Y3
<1>7. d \in Int /\ n \in Int /\ e \in Int /\ W \in Int /\ Cong(l * d, n, P)
  BY <1>0, <1>1
<1>8. Cong(X3, r1 * W * W, P) /\ Cong(Y3, r2 * W * W * W, P)
  BY <1>0, <1>2, <1>4, <1>7, LineFormula
<1>9. ~Cong(W, 0, P)
  <2>1. D * D \in Int /\ ~Cong(D * D, 0, P)
    BY <1>0, PrimeProduct
  <2>2. ~Cong((D * D) * D, 0, P) /\ (D * D) * D = e
    BY <1>0, <2>1, PrimeProduct
  <2> QED
    BY <1>0, <1>7, <2>2, PrimeProduct
<1>10. Val(r.z, W)
  BY <1>3, <1>4 DEF Common
<1> HIDE DEF W
<1>11. r1 * W * W \in Int /\ r2 * W * W * W \in Int
  BY <1>2, <1>7
<1>12. Val(r.x, r1 * W * W) /\ Val(r.y, r2 * W * W * W)
  BY <1>6, <1>8, <1>11, ValSame
<1>13. At(r, W, r1, r2)
  BY <1>3, <1>7, <1>9, <1>10, <1>12 DEF At
<1> QED
  BY <1>1, <1>2, <1>7, <1>13 DEF r, Stands

-----------------------------------------------------------------------------
(* Points of the group.                                                    *)

\* Infinity is not a pair, and no point has order two.
LEMMA FinitePoint ==
  ASSUME NEW j \in Int, NEW p1, NEW p2, Mult(j) = <<p1, p2>>
  PROVE  /\ Mult(j) # Inf /\ p1 \in 0 .. P-1 /\ p2 \in 0 .. P-1 /\ p2 # 0 /\ OnCurve(<<p1, p2>>)
<1>1. Mult(j) # Inf
  BY DEF Inf
<1>2. Mult(j)[1] = p1 /\ Mult(j)[2] = p2
  OBVIOUS
<1>3. Mult(j)[1] \in 0 .. P-1 /\ Mult(j)[2] \in 0 .. P-1 /\ OnCurve(Mult(j))
  BY <1>1, OnTheCurve
<1>4. p2 # 0
  <2>1. -j \in Int /\ Mult(-j) # Inf /\ Mult(j)[2] + Mult(-j)[2] = P
    BY <1>1, Opposite
  <2>2. Mult(-j)[2] \in 0 .. P-1
    BY <2>1, OnTheCurve
  <2> QED
    BY <1>2, <1>3, <2>1, <2>2, FieldFacts
<1> QED
  BY <1>1, <1>2, <1>3, <1>4

LEMMA DoubleStands ==
  ASSUME NEW a, NEW k1 \in Int, Stands(a, Mult(k1))
  PROVE  Stands(gej_double_var(a).r, Mult(2 * k1))
<1>1. Mult(2 * k1) = AffineAdd(Mult(k1), Mult(k1))
  <2>1. k1 + k1 = 2 * k1
    OBVIOUS
  <2> QED
    BY <2>1, MultAdd
<1>2. CASE Mult(k1) = Inf /\ a.infinity = TRUE
  BY <1>1, <1>2 DEF gej_double_var, Sum, AffineAdd, Stands
<1>3. CASE \E z \in Int, p1 \in 0 .. P-1, p2 \in 0 .. P-1 : Mult(k1) = <<p1, p2>> /\ At(a, z, p1, p2)
  <2>1. PICK z \in Int, p1 \in 0 .. P-1, p2 \in 0 .. P-1 : Mult(k1) = <<p1, p2>> /\ At(a, z, p1, p2)
    BY <1>3
  <2>2. p2 # 0
    BY <2>1, FinitePoint
  <2>3. PICK w \in Int, r1 \in 0 .. P-1, r2 \in 0 .. P-1 :
          At(DoubleFinite(a), w, r1, r2) /\ AffineAdd(<<p1, p2>>, <<p1, p2>>) = <<r1, r2>>
    BY <2>1, <2>2, DoubleAt
  <2>4. gej_double_var(a).r = DoubleFinite(a)
    BY <2>1 DEF gej_double_var, Sum, At
  <2> QED
    BY <1>1, <2>1, <2>3, <2>4 DEF Stands
<1> QED
  BY <1>2, <1>3 DEF Stands

\* A product that is zero although the scale is not.
LEMMA ScaleAway ==
  ASSUME NEW D \in Int, ~Cong(D, 0, P), NEW c \in Int
  PROVE  /\ Cong(c * D * D, 0, P) <=> Cong(c, 0, P)
         /\ Cong(c * D * D * D, 0, P) <=> Cong(c, 0, P)
<1>1. P \in Nat \ {0} /\ Prime(P) /\ 0 \in Int
  BY FieldFacts
<1>2. D * D \in Int /\ D * D * D \in Int /\ c * D * D \in Int /\ c * D * D * D \in Int
  OBVIOUS
<1>3. ~Cong(D * D, 0, P)
  BY <1>1, PrimeProduct
<1>4. ~Cong((D * D) * D, 0, P)
  BY <1>1, <1>2, <1>3, PrimeProduct
<1>5. ASSUME Cong(c, 0, P) PROVE Cong(c * D * D, 0, P) /\ Cong(c * D * D * D, 0, P)
  <2>1. Follows(c * D * D, 0, D * D, c, 0) /\ Follows(c * D * D * D, 0, D * D * D, c, 0)
    BY DEF Follows
  <2> QED
    BY <1>1, <1>2, <1>5, <2>1, CongBy
<1>6. ASSUME ~Cong(c, 0, P) PROVE ~Cong(c * D * D, 0, P) /\ ~Cong(c * D * D * D, 0, P)
  <2>1. ~Cong(c * (D * D), 0, P) /\ ~Cong(c * ((D * D) * D), 0, P)
    BY <1>1, <1>2, <1>3, <1>4, <1>6, PrimeProduct
  <2>2. c * (D * D) = c * D * D /\ c * ((D * D) * D) = c * D * D * D
    OBVIOUS
  <2> QED
    BY <2>1, <2>2
<1> QED
  BY <1>5, <1>6

\* The common end of the variable-time additions, in all its cases.
LEMMA AddFromStands ==
  ASSUME NEW a, NEW z, NEW u1, NEW s1, NEW h, NEW i, NEW hz, NEW D \in Int, ~Cong(D, 0, P),
         a \in [x : Fes, y : Fes, z : Fes, infinity : BOOLEAN],
         NEW k1 \in Int, NEW k2 \in Int,
         NEW p1 \in 0 .. P-1, NEW p2 \in 0 .. P-1, NEW q1 \in 0 .. P-1, NEW q2 \in 0 .. P-1,
         Mult(k1) = <<p1, p2>>, Mult(k2) = <<q1, q2>>, Stands(a, Mult(k1)),
         Common(fe_mul(z, hz), u1, s1, h, i, D, p1, p2, q1, q2)
  PROVE  Stands(AddFrom(a, z, u1, s1, h, i, hz).r, Mult(k1 + k2))
<1>0. Mult(k1 + k2) = AffineAdd(<<p1, p2>>, <<q1, q2>>)
  BY MultAdd
<1>1. /\ p1 \in Int /\ p2 \in Int /\ q1 \in Int /\ q2 \in Int /\ q1 - p1 \in Int /\ q2 - p2 \in Int
      /\ P \in Nat \ {0} /\ 0 \in Int
  BY <1>0, FieldFacts
<1>2. /\ Cong(q1 - p1, 0, P) <=> p1 = q1
      /\ Cong(q2 - p2, 0, P) <=> p2 = q2
  <2>1. ASSUME NEW b \in 0 .. P-1, NEW c \in 0 .. P-1 PROVE Cong(c - b, 0, P) <=> b = c
    <3>1. CASE b = c
      <4>1. c - b = 0
        BY <2>1, <3>1, FieldFacts
      <4> QED
        BY <1>1, <3>1, <4>1, CongEquivalence
    <3>2. CASE b # c
      BY <2>1, <3>2, Different
    <3> QED
      BY <3>1, <3>2
  <2> QED
    BY <1>0, <2>1
<1>3. fe_normalizes_to_zero(h) <=> p1 = q1
  <2>1. Cong((q1 - p1) * D * D, 0, P) <=> Cong(q1 - p1, 0, P)
    BY <1>1, ScaleAway
  <2> QED
    BY <1>2, <2>1, ValZero DEF Common
<1>4. fe_normalizes_to_zero(i) <=> p2 = q2
  <2>1. Cong((q2 - p2) * D * D * D, 0, P) <=> Cong(q2 - p2, 0, P)
    BY <1>1, ScaleAway
  <2> QED
    BY <1>2, <2>1, ValZero DEF Common
<1>5. CASE p1 = q1 /\ p2 = q2
  <2>1. AddFrom(a, z, u1, s1, h, i, hz) = gej_double_var(a)
    BY <1>3, <1>4, <1>5 DEF AddFrom, SameX
  <2>2. Mult(k1 + k2) = Mult(k1 + k1)
    BY <1>0, <1>5, MultAdd
  <2>3. k1 + k1 = 2 * k1
    OBVIOUS
  <2> QED
    BY <2>1, <2>2, <2>3, DoubleStands
<1>6. CASE p1 = q1 /\ p2 # q2
  <2>1. AddFrom(a, z, u1, s1, h, i, hz).r = [a EXCEPT !.infinity = TRUE]
    BY <1>3, <1>4, <1>6 DEF AddFrom, SameX, Sum
  <2>2. Mult(k1 + k2) = Inf
    BY <1>0, <1>6 DEF AffineAdd, Inf
  <2>3. [a EXCEPT !.infinity = TRUE].infinity = TRUE
    OBVIOUS
  <2> QED
    BY <2>1, <2>2, <2>3 DEF Stands
<1>7. CASE p1 # q1
  <2> DEFINE zz == fe_mul(z, hz)
  <2>1. AddFrom(a, z, u1, s1, h, i, hz).r = AddDistinct(zz, u1, s1, h, i)
    BY <1>3, <1>7 DEF AddFrom, Sum
  <2>2. Common(zz, u1, s1, h, i, D, p1, p2, q1, q2)
    OBVIOUS
  <2> HIDE DEF zz
  <2>3. Stands(AddDistinct(zz, u1, s1, h, i), AffineAdd(<<p1, p2>>, <<q1, q2>>))
    BY <1>7, <2>2, DistinctStands
  <2> QED
    BY <1>0, <2>1, <2>3
<1> QED
  BY <1>5, <1>6, <1>7

\* The difference of two elements.
LEMMA ValDiff ==
  ASSUME NEW a, NEW b, NEW i, NEW j, NEW n, Val(a, i), Val(b, j), i \in Int, j \in Int, n = j - i
  PROVE  Val(Diff(a, b), n)
<1>1. Val(Diff(a, b), Plus(Minus(i), j))
  BY ValAdd, ValNegate DEF Diff
<1>2. Plus(Minus(i), j) = n
  BY DEF Plus, Minus
<1> QED
  BY <1>1, <1>2

LEMMA AddVarStands ==
  ASSUME NEW a, NEW b, GejFine(a), GejFine(b), NEW k1 \in Int, NEW k2 \in Int,
         Stands(a, Mult(k1)), Stands(b, Mult(k2))
  PROVE  Stands(gej_add_var(a, b).r, Mult(k1 + k2))
<1>0. Mult(k1 + k2) = AffineAdd(Mult(k1), Mult(k2))
  BY MultAdd
<1>1. CASE Mult(k1) = Inf /\ a.infinity = TRUE
  BY <1>0, <1>1 DEF gej_add_var, Sum, AffineAdd
<1>2. ASSUME NEW z1 \in Int, NEW p1 \in 0 .. P-1, NEW p2 \in 0 .. P-1,
             Mult(k1) = <<p1, p2>>, At(a, z1, p1, p2)
      PROVE  Stands(gej_add_var(a, b).r, Mult(k1 + k2))
  <2>1. a.infinity = FALSE /\ Mult(k1) # Inf
    BY <1>2, FinitePoint DEF At
  <2>2. CASE Mult(k2) = Inf /\ b.infinity = TRUE
    BY <1>0, <2>1, <2>2 DEF gej_add_var, Sum, AffineAdd
  <2>3. ASSUME NEW z2 \in Int, NEW q1 \in 0 .. P-1, NEW q2 \in 0 .. P-1,
               Mult(k2) = <<q1, q2>>, At(b, z2, q1, q2)
        PROVE  Stands(gej_add_var(a, b).r, Mult(k1 + k2))
    <3> DEFINE z22 == fe_sqr(b.z)
               z12 == fe_sqr(a.z)
               u1  == fe_mul(a.x, z22)
               u2  == fe_mul(b.x, z12)
               s1  == fe_mul(fe_mul(a.y, z22), b.z)
               s2  == fe_mul(fe_mul(b.y, z12), a.z)
               h   == Diff(u1, u2)
               i   == Diff(s1, s2)
               hz  == fe_mul(h, b.z)
               D   == z1 * z2
    <3>1. b.infinity = FALSE
      BY <2>3 DEF At
    <3>2. gej_add_var(a, b) = AddFrom(a, a.z, u1, s1, h, i, hz)
      BY <2>1, <3>1 DEF gej_add_var
    <3>3. /\ p1 \in Int /\ p2 \in Int /\ q1 \in Int /\ q2 \in Int /\ D \in Int /\ P \in Nat \ {0} /\ Prime(P)
      BY FieldFacts
    <3>4. /\ Val(a.x, p1 * z1 * z1) /\ Val(a.y, p2 * z1 * z1 * z1) /\ Val(a.z, z1) /\ ~Cong(z1, 0, P)
          /\ Val(b.x, q1 * z2 * z2) /\ Val(b.y, q2 * z2 * z2 * z2) /\ Val(b.z, z2) /\ ~Cong(z2, 0, P)
      BY <1>2, <2>3 DEF At
    <3>5. ~Cong(D, 0, P)
      BY <3>3, <3>4, PrimeProduct
    <3>6. /\ Val(u1, Times(p1 * z1 * z1, Times(z2, z2)))
          /\ Val(u2, Times(q1 * z2 * z2, Times(z1, z1)))
          /\ Val(s1, Times(Times(p2 * z1 * z1 * z1, Times(z2, z2)), z2))
          /\ Val(s2, Times(Times(q2 * z2 * z2 * z2, Times(z1, z1)), z1))
      BY <3>4, ValMul, ValSqr
    <3>7. /\ Times(p1 * z1 * z1, Times(z2, z2)) = p1 * D * D
          /\ Times(q1 * z2 * z2, Times(z1, z1)) = q1 * D * D
          /\ Times(Times(p2 * z1 * z1 * z1, Times(z2, z2)), z2) = p2 * D * D * D
          /\ Times(Times(q2 * z2 * z2 * z2, Times(z1, z1)), z1) = q2 * D * D * D
      BY <3>3 DEF Times
    <3> HIDE DEF D, u1, u2, s1, s2
    <3>8. Val(u1, p1 * D * D) /\ Val(u2, q1 * D * D) /\ Val(s1, p2 * D * D * D) /\ Val(s2, q2 * D * D * D)
      BY <3>6, <3>7
    <3>9. /\ (q1 - p1) * D * D = q1 * D * D - p1 * D * D /\ p1 * D * D \in Int /\ q1 * D * D \in Int
          /\ (q2 - p2) * D * D * D = q2 * D * D * D - p2 * D * D * D
          /\ p2 * D * D * D \in Int /\ q2 * D * D * D \in Int
      BY <3>3
    <3>10. Val(h, (q1 - p1) * D * D) /\ Val(i, (q2 - p2) * D * D * D)
      BY <3>8, <3>9, ValDiff
    <3> HIDE DEF h, i
    <3>11. Val(fe_mul(a.z, hz), Times(z1, Times((q1 - p1) * D * D, z2)))
      BY <3>4, <3>10, ValMul
    <3>12. Times(z1, Times((q1 - p1) * D * D, z2)) = (q1 - p1) * D * D * D
      BY <3>3 DEF Times, D
    <3>13. Val(fe_mul(a.z, hz), (q1 - p1) * D * D * D)
      BY <3>11, <3>12
    <3>14. a \in [x : Fes, y : Fes, z : Fes, infinity : BOOLEAN]
      BY DEF GejFine
    <3> HIDE DEF hz
    <3>15. Common(fe_mul(a.z, hz), u1, s1, h, i, D, p1, p2, q1, q2)
      BY <3>8, <3>10, <3>13 DEF Common
    <3>16. Stands(a, Mult(k1))
      BY <1>2 DEF Stands
    <3>17. Stands(AddFrom(a, a.z, u1, s1, h, i, hz).r, Mult(k1 + k2))
      BY <1>2, <2>3, <3>3, <3>5, <3>14, <3>15, <3>16, AddFromStands
    <3> QED
      BY <3>2, <3>17
  <2> QED
    BY <2>2, <2>3 DEF Stands
<1> QED
  BY <1>1, <1>2 DEF Stands

\* The addition of a point that az brings to the scale of a.
LEMMA AddAffineStands ==
  ASSUME NEW a, NEW b, NEW az, a \in [x : Fes, y : Fes, z : Fes, infinity : BOOLEAN],
         NEW k1 \in Int, NEW k2 \in Int, NEW z1 \in Int,
         NEW p1 \in 0 .. P-1, NEW p2 \in 0 .. P-1, NEW q1 \in 0 .. P-1, NEW q2 \in 0 .. P-1,
         Mult(k1) = <<p1, p2>>, Mult(k2) = <<q1, q2>>, At(a, z1, p1, p2),
         Val(fe_mul(b.x, fe_sqr(az)), q1 * z1 * z1),
         Val(fe_mul(fe_mul(b.y, fe_sqr(az)), az), q2 * z1 * z1 * z1)
  PROVE  Stands(AddAffine(a, b, az).r, Mult(k1 + k2))
<1> DEFINE u1 == fe_normalize_weak(a.x)
           s1 == fe_normalize_weak(a.y)
           u2 == fe_mul(b.x, fe_sqr(az))
           s2 == fe_mul(fe_mul(b.y, fe_sqr(az)), az)
           h == Diff(u1, u2)
           i == Diff(s1, s2)
<1>1. AddAffine(a, b, az) = AddFrom(a, a.z, u1, s1, h, i, h)
  BY DEF AddAffine
<1>2. p1 \in Int /\ p2 \in Int /\ q1 \in Int /\ q2 \in Int
  BY FieldFacts
<1>3. /\ ~Cong(z1, 0, P) /\ Val(a.z, z1) /\ Val(a.x, p1 * z1 * z1) /\ Val(a.y, p2 * z1 * z1 * z1)
      /\ a.x \in Fes /\ a.y \in Fes
  BY DEF At
<1>4. Val(u1, p1 * z1 * z1) /\ Val(s1, p2 * z1 * z1 * z1)
  BY <1>3, ValWeak
<1>5. Val(u2, q1 * z1 * z1) /\ Val(s2, q2 * z1 * z1 * z1)
  OBVIOUS
<1> HIDE DEF u1, s1, u2, s2
<1>6. /\ (q1 - p1) * z1 * z1 = q1 * z1 * z1 - p1 * z1 * z1
      /\ p1 * z1 * z1 \in Int /\ q1 * z1 * z1 \in Int
      /\ (q2 - p2) * z1 * z1 * z1 = q2 * z1 * z1 * z1 - p2 * z1 * z1 * z1
      /\ p2 * z1 * z1 * z1 \in Int /\ q2 * z1 * z1 * z1 \in Int
  BY <1>2
<1>7. Val(h, (q1 - p1) * z1 * z1) /\ Val(i, (q2 - p2) * z1 * z1 * z1)
  <2> DEFINE c1 == p1 * z1 * z1
             c2 == q1 * z1 * z1
             c3 == (q1 - p1) * z1 * z1
             d1 == p2 * z1 * z1 * z1
             d2 == q2 * z1 * z1 * z1
             d3 == (q2 - p2) * z1 * z1 * z1
  <2>1. /\ Val(u1, c1) /\ Val(u2, c2) /\ c1 \in Int /\ c2 \in Int /\ c3 = c2 - c1
        /\ Val(s1, d1) /\ Val(s2, d2) /\ d1 \in Int /\ d2 \in Int /\ d3 = d2 - d1
    BY <1>4, <1>5, <1>6
  <2> HIDE DEF c1, c2, c3, d1, d2, d3
  <2>2. Val(h, c3) /\ Val(i, d3)
    BY <2>1, ValDiff
  <2> QED
    BY <2>2 DEF c3, d3
<1> HIDE DEF h, i
<1>8. Val(fe_mul(a.z, h), Times(z1, (q1 - p1) * z1 * z1))
  BY <1>3, <1>7, ValMul
<1>9. Times(z1, (q1 - p1) * z1 * z1) = (q1 - p1) * z1 * z1 * z1
  BY <1>2 DEF Times
<1>10. Common(fe_mul(a.z, h), u1, s1, h, i, z1, p1, p2, q1, q2)
  BY <1>4, <1>7, <1>8, <1>9 DEF Common
<1>11. Stands(a, Mult(k1))
  BY DEF Stands
<1>12. Stands(AddFrom(a, a.z, u1, s1, h, i, h).r, Mult(k1 + k2))
  BY <1>3, <1>10, <1>11, AddFromStands
<1> QED
  BY <1>1, <1>12

\* The coordinates of an affine point.
LEMMA GeVal ==
  ASSUME NEW b, NEW q1 \in 0 .. P-1, NEW q2 \in 0 .. P-1, GeStands(b, <<q1, q2>>)
  PROVE  b.infinity = FALSE /\ Val(b.x, q1) /\ Val(b.y, q2)
<1>1. <<q1, q2>> # Inf /\ b.infinity = FALSE /\ <<q1, q2>> = <<b.x.v, b.y.v>>
  BY DEF GeStands, Inf
<1>2. b.x.v = q1 /\ b.y.v = q2
  BY <1>1
<1>3. P \in Nat \ {0} /\ q1 \in Int /\ q2 \in Int
  BY FieldFacts
<1>4. Cong(q1, q1, P) /\ Cong(q2, q2, P)
  BY <1>3, CongEquivalence
<1> QED
  BY <1>1, <1>2, <1>3, <1>4 DEF Val

\* An affine point is one at the scale 1.
LEMMA SetGeStands ==
  ASSUME NEW b, NEW k2 \in Int, GeStands(b, Mult(k2))
  PROVE  Stands(gej_set_ge(b), Mult(k2))
<1> DEFINE r == gej_set_ge(b)
<1>0. r.x = b.x /\ r.y = b.y /\ r.z = fe_set_int(1) /\ r.infinity = b.infinity
  BY DEF gej_set_ge, Gej
<1> HIDE DEF r
<1>1. CASE Mult(k2) = Inf /\ b.infinity = TRUE
  BY <1>0, <1>1 DEF Stands, r
<1>2. CASE Mult(k2) # Inf
  <2>1. PICK q1 \in 0 .. P-1, q2 \in 0 .. P-1 : Mult(k2) = <<q1, q2>>
    BY <1>2, OnTheCurve
  <2>2. b.infinity = FALSE /\ Val(b.x, q1) /\ Val(b.y, q2)
    BY <2>1, GeVal
  <2>3. q1 \in Int /\ q2 \in Int /\ 1 \in Int /\ ~Cong(1, 0, P)
    BY FieldFacts
  <2>4. q1 * 1 * 1 = q1 /\ q2 * 1 * 1 * 1 = q2
    BY <2>3
  <2>5. Val(fe_set_int(1), 1)
    BY ValInt
  <2>6. At(r, 1, q1, q2)
    BY <1>0, <2>2, <2>3, <2>4, <2>5 DEF At
  <2> QED
    BY <2>1, <2>3, <2>6 DEF Stands, r
<1> QED
  BY <1>1, <1>2 DEF GeStands

LEMMA AddGeVarStands ==
  ASSUME NEW a, NEW b, GejFine(a), NEW k1 \in Int, NEW k2 \in Int,
         Stands(a, Mult(k1)), GeStands(b, Mult(k2))
  PROVE  Stands(gej_add_ge_var(a, b).r, Mult(k1 + k2))
<1>0. Mult(k1 + k2) = AffineAdd(Mult(k1), Mult(k2))
  BY MultAdd
<1>1. CASE Mult(k1) = Inf /\ a.infinity = TRUE
  <2>1. Mult(k1 + k2) = Mult(k2)
    BY <1>0, <1>1 DEF AffineAdd
  <2>2. gej_add_ge_var(a, b).r = gej_set_ge(b)
    BY <1>1 DEF gej_add_ge_var, Sum
  <2> QED
    BY <2>1, <2>2, SetGeStands
<1>2. ASSUME NEW z1 \in Int, NEW p1 \in 0 .. P-1, NEW p2 \in 0 .. P-1,
             Mult(k1) = <<p1, p2>>, At(a, z1, p1, p2)
      PROVE  Stands(gej_add_ge_var(a, b).r, Mult(k1 + k2))
  <2>1. a.infinity = FALSE /\ Mult(k1) # Inf
    BY <1>2, FinitePoint DEF At
  <2>2. CASE Mult(k2) = Inf /\ b.infinity = TRUE
    <3>1. gej_add_ge_var(a, b).r = a /\ Mult(k1 + k2) = Mult(k1)
      BY <1>0, <2>1, <2>2 DEF gej_add_ge_var, Sum, AffineAdd
    <3> QED
      BY <3>1
  <2>3. CASE Mult(k2) # Inf
    <3>1. PICK q1 \in 0 .. P-1, q2 \in 0 .. P-1 : Mult(k2) = <<q1, q2>>
      BY <2>3, OnTheCurve
    <3>2. b.infinity = FALSE /\ Val(b.x, q1) /\ Val(b.y, q2) /\ Val(a.z, z1)
      BY <1>2, <3>1, GeVal DEF At
    <3>3. q1 \in Int /\ q2 \in Int
      BY FieldFacts
    <3>4. /\ Val(fe_mul(b.x, fe_sqr(a.z)), Times(q1, Times(z1, z1)))
          /\ Val(fe_mul(fe_mul(b.y, fe_sqr(a.z)), a.z), Times(Times(q2, Times(z1, z1)), z1))
      BY <3>2, ValMul, ValSqr
    <3>5. /\ Times(q1, Times(z1, z1)) = q1 * z1 * z1
          /\ Times(Times(q2, Times(z1, z1)), z1) = q2 * z1 * z1 * z1
      BY <3>3 DEF Times
    <3>6. a \in [x : Fes, y : Fes, z : Fes, infinity : BOOLEAN]
      BY DEF GejFine
    <3> DEFINE az == a.z
    <3>7. /\ Val(fe_mul(b.x, fe_sqr(az)), q1 * z1 * z1)
          /\ Val(fe_mul(fe_mul(b.y, fe_sqr(az)), az), q2 * z1 * z1 * z1)
      BY <3>4, <3>5
    <3>8. gej_add_ge_var(a, b).r = AddAffine(a, b, az).r
      BY <2>1, <3>2 DEF gej_add_ge_var
    <3> HIDE DEF az
    <3>9. Stands(AddAffine(a, b, az).r, Mult(k1 + k2))
      BY <1>2, <3>1, <3>6, <3>7, AddAffineStands
    <3> QED
      BY <3>8, <3>9
  <2> QED
    BY <2>2, <2>3 DEF GeStands
<1> QED
  BY <1>1, <1>2 DEF Stands

\* The product of the scale and its inverse disappears.
LEMMA InverseCancels ==
  ASSUME NEW q \in Int, NEW z \in Int, NEW w \in Int, NEW f \in Int, Cong(z * w, 1, P)
  PROVE  /\ Cong((q * z * z) * (f * f * w * w), q * f * f, P)
         /\ Cong((q * z * z * z) * (f * f * f * w * w * w), q * f * f * f, P)
<1>1. P \in Nat \ {0} /\ 1 \in Int /\ z * w \in Int
  BY FieldFacts
<1>2. /\ (q * z * z) * (f * f * w * w) \in Int /\ q * f * f \in Int
      /\ (q * z * z * z) * (f * f * f * w * w * w) \in Int /\ q * f * f * f \in Int
      /\ q * f * f * (z * w + 1) \in Int
      /\ q * f * f * f * ((z * w) * (z * w) + z * w + 1) \in Int
  OBVIOUS
<1>3. Follows((q * z * z) * (f * f * w * w), q * f * f, q * f * f * (z * w + 1), z * w, 1)
  BY DEF Follows
<1>4. Follows((q * z * z * z) * (f * f * f * w * w * w), q * f * f * f,
              q * f * f * f * ((z * w) * (z * w) + z * w + 1), z * w, 1)
  BY DEF Follows
<1>5. Cong((q * z * z) * (f * f * w * w), q * f * f, P)
  BY <1>1, <1>2, <1>3, CongBy
<1>6. Cong((q * z * z * z) * (f * f * f * w * w * w), q * f * f * f, P)
  BY <1>1, <1>2, <1>4, CongBy
<1> QED
  BY <1>5, <1>6

\* fe_inv inverts what is not zero.
LEMMA ValInv ==
  ASSUME NEW a, NEW n, Val(a, n), ~Cong(n, 0, P)
  PROVE  \E w \in Int : Val(fe_inv(a), w) /\ Cong(n * w, 1, P)
<1> DEFINE w == Inverse0[a.v]
<1>1. P \in Nat \ {0} /\ a.v \in 0 .. P-1 /\ a.v \in Int /\ n \in Int /\ Cong(a.v, n, P) /\ 0 \in Int /\ 1 \in Int
  BY FieldFacts DEF Val
<1>2. ~Cong(a.v, 0, P) /\ Cong(n, a.v, P)
  BY <1>1, CongEquivalence
<1>3. a.v % P = a.v
  BY <1>1, CongMod
<1>4. w \in 1 .. P-1 /\ w \in Int /\ Cong(a.v * w, 1, P)
  BY <1>1, <1>2, <1>3, InverseOf
<1>5. fe_inv(a).v = w
  BY DEF fe_inv, Elem
<1> HIDE DEF w
<1>6. w \in 0 .. P-1 /\ a.v * w \in Int /\ n * w \in Int
  BY <1>1, <1>4
<1>7. Follows(n * w, a.v * w, w, n, a.v)
  BY <1>1, <1>4 DEF Follows
<1>8. Cong(n * w, a.v * w, P)
  BY <1>1, <1>2, <1>4, <1>6, <1>7, CongBy
<1>9. Cong(n * w, 1, P)
  BY <1>1, <1>4, <1>6, <1>8, CongEquivalence
<1>10. Val(fe_inv(a), w)
  BY <1>1, <1>4, <1>5, <1>6, CongEquivalence DEF Val
<1> QED
  BY <1>4, <1>9, <1>10

\* An element that is congruent to a residue is that residue.
LEMMA ValResidue ==
  ASSUME NEW a, NEW q \in 0 .. P-1, Val(a, q)
  PROVE  a.v = q
<1>1. P \in Nat \ {0} /\ a.v \in 0 .. P-1 /\ Cong(a.v, q, P)
  BY FieldFacts DEF Val
<1> QED
  BY <1>1, CongSmall

\* Multiplying by the inverse of Z brings a point to the scale 1.
LEMMA ZinvAt ==
  ASSUME NEW b, NEW z \in Int, NEW q1 \in 0 .. P-1, NEW q2 \in 0 .. P-1, At(b, z, q1, q2),
         NEW zi, NEW w \in Int, Val(zi, w), Cong(z * w, 1, P)
  PROVE  GeStands(ge_set_gej_zinv(b, zi), <<q1, q2>>)
<1> DEFINE r == ge_set_gej_zinv(b, zi)
<1>1. /\ r.x = fe_mul(b.x, fe_sqr(zi)) /\ r.y = fe_mul(b.y, fe_mul(fe_sqr(zi), zi))
      /\ r.infinity = b.infinity
  BY DEF ge_set_gej_zinv, Ge
<1> HIDE DEF r
<1>2. q1 \in Int /\ q2 \in Int /\ 1 \in Int
  BY FieldFacts
<1>3. b.infinity = FALSE /\ Val(b.x, q1 * z * z) /\ Val(b.y, q2 * z * z * z)
  BY DEF At
<1>4. /\ Val(r.x, Times(q1 * z * z, Times(w, w)))
      /\ Val(r.y, Times(q2 * z * z * z, Times(Times(w, w), w)))
  BY <1>1, <1>3, ValMul, ValSqr
<1>5. /\ Times(q1 * z * z, Times(w, w)) = (q1 * z * z) * (1 * 1 * w * w)
      /\ Times(q2 * z * z * z, Times(Times(w, w), w)) = (q2 * z * z * z) * (1 * 1 * 1 * w * w * w)
      /\ q1 * 1 * 1 = q1 /\ q2 * 1 * 1 * 1 = q2
  BY <1>2 DEF Times
<1>6. /\ Cong((q1 * z * z) * (1 * 1 * w * w), q1 * 1 * 1, P)
      /\ Cong((q2 * z * z * z) * (1 * 1 * 1 * w * w * w), q2 * 1 * 1 * 1, P)
  BY <1>2, InverseCancels
<1>7. /\ Cong(Times(q1 * z * z, Times(w, w)), q1, P)
      /\ Cong(Times(q2 * z * z * z, Times(Times(w, w), w)), q2, P)
  BY <1>5, <1>6
<1>8. Val(r.x, q1) /\ Val(r.y, q2)
  BY <1>2, <1>4, <1>7, ValSame
<1>9. r.x.v = q1 /\ r.y.v = q2
  BY <1>8, ValResidue
<1>10. <<q1, q2>> # Inf
  BY DEF Inf
<1> QED
  BY <1>1, <1>3, <1>9, <1>10 DEF GeStands, r

LEMMA SetGejStands ==
  ASSUME NEW a, NEW k1 \in Int, Stands(a, Mult(k1))
  PROVE  GeStands(ge_set_gej(a), Mult(k1))
<1>1. CASE Mult(k1) = Inf /\ a.infinity = TRUE
  BY <1>1 DEF ge_set_gej, ge_set_gej_zinv, Ge, GeStands
<1>2. ASSUME NEW z1 \in Int, NEW p1 \in 0 .. P-1, NEW p2 \in 0 .. P-1,
             Mult(k1) = <<p1, p2>>, At(a, z1, p1, p2)
      PROVE  GeStands(ge_set_gej(a), Mult(k1))
  <2> DEFINE zi == fe_inv(a.z)
  <2>1. PICK w \in Int : Val(zi, w) /\ Cong(z1 * w, 1, P)
    BY <1>2, ValInv DEF At
  <2> HIDE DEF zi
  <2>2. GeStands(ge_set_gej_zinv(a, zi), <<p1, p2>>)
    BY <1>2, <2>1, ZinvAt
  <2> QED
    BY <1>2, <2>2 DEF ge_set_gej, zi
<1> QED
  BY <1>1, <1>2 DEF Stands

\* The addition of a point of which the inverse of Z is known.
LEMMA AddZinvVarStands ==
  ASSUME NEW a, GejFine(a), NEW b, NEW zi, NEW k1 \in Int, NEW k2 \in Int,
         Stands(a, Mult(k1)), Stands(b, Mult(k2)),
         b.infinity = FALSE => zi = fe_inv(b.z)
  PROVE  Stands(gej_add_zinv_var(a, b, zi), Mult(k1 + k2))
<1>0. Mult(k1 + k2) = AffineAdd(Mult(k1), Mult(k2))
  BY MultAdd
<1>1. CASE Mult(k2) = Inf /\ b.infinity = TRUE
  <2>1. Mult(k1 + k2) = Mult(k1) /\ gej_add_zinv_var(a, b, zi) = a
    BY <1>0, <1>1 DEF AffineAdd, gej_add_zinv_var
  <2> QED
    BY <2>1
<1>2. ASSUME NEW z2 \in Int, NEW q1 \in 0 .. P-1, NEW q2 \in 0 .. P-1,
             Mult(k2) = <<q1, q2>>, At(b, z2, q1, q2)
      PROVE  Stands(gej_add_zinv_var(a, b, zi), Mult(k1 + k2))
  <2>1. b.infinity = FALSE /\ Mult(k2) # Inf /\ ~Cong(z2, 0, P) /\ Val(b.z, z2)
    BY <1>2, FinitePoint DEF At
  <2>2. PICK w \in Int : Val(zi, w) /\ Cong(z2 * w, 1, P)
    BY <2>1, ValInv
  <2>3. CASE Mult(k1) = Inf /\ a.infinity = TRUE
    <3>1. Mult(k1 + k2) = Mult(k2) /\ gej_add_zinv_var(a, b, zi) = gej_set_ge(ge_set_gej_zinv(b, zi))
      BY <1>0, <2>1, <2>3 DEF AffineAdd, gej_add_zinv_var
    <3> DEFINE r == ge_set_gej_zinv(b, zi)
    <3>2. GeStands(r, Mult(k2))
      BY <1>2, <2>2, ZinvAt
    <3> HIDE DEF r
    <3>3. Stands(gej_set_ge(r), Mult(k2))
      BY <3>2, SetGeStands
    <3> QED
      BY <3>1, <3>3 DEF r
  <2>4. ASSUME NEW z1 \in Int, NEW p1 \in 0 .. P-1, NEW p2 \in 0 .. P-1,
               Mult(k1) = <<p1, p2>>, At(a, z1, p1, p2)
        PROVE  Stands(gej_add_zinv_var(a, b, zi), Mult(k1 + k2))
    <3> DEFINE az == fe_mul(a.z, zi)
    <3>1. /\ a.infinity = FALSE /\ Val(a.z, z1)
          /\ Val(b.x, q1 * z2 * z2) /\ Val(b.y, q2 * z2 * z2 * z2)
      BY <1>2, <2>4 DEF At
    <3>2. gej_add_zinv_var(a, b, zi) = AddAffine(a, b, az).r
      BY <2>1, <3>1 DEF gej_add_zinv_var
    <3>3. q1 \in Int /\ q2 \in Int
      BY FieldFacts
    <3>4. Val(az, Times(z1, w))
      BY <2>2, <3>1, ValMul
    <3> HIDE DEF az
    <3>5. /\ Val(fe_mul(b.x, fe_sqr(az)),
                 Times(q1 * z2 * z2, Times(Times(z1, w), Times(z1, w))))
          /\ Val(fe_mul(fe_mul(b.y, fe_sqr(az)), az),
                 Times(Times(q2 * z2 * z2 * z2, Times(Times(z1, w), Times(z1, w))), Times(z1, w)))
      BY <3>1, <3>4, ValMul, ValSqr
    <3>6. /\ Times(q1 * z2 * z2, Times(Times(z1, w), Times(z1, w)))
               = (q1 * z2 * z2) * (z1 * z1 * w * w)
          /\ Times(Times(q2 * z2 * z2 * z2, Times(Times(z1, w), Times(z1, w))), Times(z1, w))
               = (q2 * z2 * z2 * z2) * (z1 * z1 * z1 * w * w * w)
          /\ q1 * z1 * z1 \in Int /\ q2 * z1 * z1 * z1 \in Int
      BY <3>3 DEF Times
    <3>7. /\ Cong((q1 * z2 * z2) * (z1 * z1 * w * w), q1 * z1 * z1, P)
          /\ Cong((q2 * z2 * z2 * z2) * (z1 * z1 * z1 * w * w * w), q2 * z1 * z1 * z1, P)
      BY <2>2, <3>3, InverseCancels
    <3> DEFINE c1 == Times(q1 * z2 * z2, Times(Times(z1, w), Times(z1, w)))
               c2 == Times(Times(q2 * z2 * z2 * z2, Times(Times(z1, w), Times(z1, w))), Times(z1, w))
               d1 == q1 * z1 * z1
               d2 == q2 * z1 * z1 * z1
    <3>8. /\ Val(fe_mul(b.x, fe_sqr(az)), c1) /\ Val(fe_mul(fe_mul(b.y, fe_sqr(az)), az), c2)
          /\ Cong(c1, d1, P) /\ Cong(c2, d2, P) /\ d1 \in Int /\ d2 \in Int
      BY <3>5, <3>6, <3>7
    <3> HIDE DEF c1, c2, d1, d2
    <3>9. Val(fe_mul(b.x, fe_sqr(az)), d1) /\ Val(fe_mul(fe_mul(b.y, fe_sqr(az)), az), d2)
      BY <3>8, ValSame
    <3>10. /\ Val(fe_mul(b.x, fe_sqr(az)), q1 * z1 * z1)
           /\ Val(fe_mul(fe_mul(b.y, fe_sqr(az)), az), q2 * z1 * z1 * z1)
           /\ a \in [x : Fes, y : Fes, z : Fes, infinity : BOOLEAN]
      BY <3>9 DEF d1, d2, GejFine
    <3>11. Stands(AddAffine(a, b, az).r, Mult(k1 + k2))
      BY <1>2, <2>4, <3>10, AddAffineStands
    <3> QED
      BY <3>2, <3>11
  <2> QED
    BY <2>3, <2>4 DEF Stands
<1> QED
  BY <1>1, <1>2 DEF Stands

LEMMA CubeMod ==
  ASSUME NEW w \in Int
  PROVE  (w * w * w) % P \in Int /\ Cong((w * w * w) % P, w * w * w, P) /\ w * w * w \in Int
<1>1. ASSUME NEW n \in Int PROVE n % P \in Int /\ Cong(n % P, n, P) /\ n \in Int
  BY FieldFacts, CongMod
<1>2. w * w * w \in Int
  OBVIOUS
<1> QED
  BY <1>1, <1>2

\* The opposite of a pair.
LEMMA OppositePair ==
  ASSUME NEW j \in Int, NEW p1 \in 0 .. P-1, NEW p2 \in 0 .. P-1, Mult(j) = <<p1, p2>>
  PROVE  /\ Mult(-j) = <<p1, P - p2>> /\ P - p2 \in 0 .. P-1
         /\ p2 \in Int /\ P - p2 \in Int /\ Cong(P, 0, P)
<1>1. Mult(j) # Inf /\ Mult(j)[1] = p1 /\ Mult(j)[2] = p2 /\ p2 # 0
  BY FinitePoint
<1>2. -j \in Int /\ Mult(-j) # Inf /\ Mult(-j)[1] = p1 /\ p2 + Mult(-j)[2] = P
  BY <1>1, Opposite
<1>3. Mult(-j)[2] \in 0 .. P-1 /\ Mult(-j) = <<Mult(-j)[1], Mult(-j)[2]>>
  BY <1>2, OnTheCurve
<1>4. Mult(-j)[2] = P - p2 /\ p2 \in Int /\ P - p2 \in Int
  BY <1>2, <1>3, FieldFacts
<1>5. P - 0 = 1 * P /\ 1 \in Int
  BY FieldFacts
<1>6. Cong(P, 0, P)
  BY <1>5 DEF Cong
<1> QED
  BY <1>2, <1>3, <1>4, <1>6

LEMMA NegStands ==
  ASSUME NEW a, GejFine(a), NEW k1 \in Int, Stands(a, Mult(k1))
  PROVE  Stands(gej_neg(a), Mult(-k1))
<1> DEFINE y == fe_negate(fe_normalize_weak(a.y), 1)
           r == gej_neg(a)
<1>0. a \in [x : Fes, y : Fes, z : Fes, infinity : BOOLEAN]
  BY DEF GejFine
<1>1. r.x = a.x /\ r.y = y /\ r.z = a.z /\ r.infinity = a.infinity
  BY <1>0 DEF gej_neg
<1> HIDE DEF r
<1>2. CASE Mult(k1) = Inf /\ a.infinity = TRUE
  <2>1. Mult(-k1) = Inf
    <3>1. -k1 \in Int /\ -(-k1) = k1
      OBVIOUS
    <3>2. ASSUME Mult(-k1) # Inf PROVE FALSE
      BY <1>2, <3>1, <3>2, Opposite
    <3> QED
      BY <3>2
  <2> QED
    BY <1>1, <1>2, <2>1 DEF Stands, r
<1>3. ASSUME NEW z \in Int, NEW p1 \in 0 .. P-1, NEW p2 \in 0 .. P-1,
             Mult(k1) = <<p1, p2>>, At(a, z, p1, p2)
      PROVE  Stands(gej_neg(a), Mult(-k1))
  <2>1. /\ Mult(-k1) = <<p1, P - p2>> /\ P - p2 \in 0 .. P-1
        /\ p2 \in Int /\ P - p2 \in Int /\ Cong(P, 0, P)
    BY <1>3, OppositePair
  <2>2. Val(a.y, p2 * z * z * z) /\ a.y \in Fes
    BY <1>0, <1>3 DEF At
  <2>3. Val(y, Minus(p2 * z * z * z))
    BY <2>2, ValWeak, ValNegate
  <2>4. /\ Minus(p2 * z * z * z) \in Int /\ (P - p2) * z * z * z \in Int /\ -(z * z * z) \in Int
        /\ P \in Nat \ {0} /\ P \in Int /\ 0 \in Int
    BY <2>1, FieldFacts DEF Minus
  <2>5. Follows(Minus(p2 * z * z * z), (P - p2) * z * z * z, -(z * z * z), P, 0)
    BY <2>1, <2>4 DEF Follows, Minus
  <2>6. Cong(Minus(p2 * z * z * z), (P - p2) * z * z * z, P)
    BY <2>1, <2>4, <2>5, CongBy
  <2>7. Val(y, (P - p2) * z * z * z)
    BY <2>3, <2>4, <2>6, ValSame
  <2> HIDE DEF y
  <2>8. At(r, z, p1, P - p2)
    BY <1>1, <1>3, <2>7 DEF At
  <2> QED
    BY <2>1, <2>8 DEF Stands, r
<1> QED
  BY <1>2, <1>3 DEF Stands

LEMMA RescaleStands ==
  ASSUME NEW a, GejFine(a), NEW s \in 1 .. P-1, NEW k1 \in Int, Stands(a, Mult(k1))
  PROVE  Stands(gej_rescale(a, fe_set_int(s)), Mult(k1))
<1> DEFINE f == fe_set_int(s)
           r == gej_rescale(a, f)
<1>0. s \in 0 .. P-1 /\ s \in Int /\ s # 0
  BY FieldFacts
<1>1. Val(f, s) /\ ~Cong(s, 0, P)
  BY <1>0, ValInt, ResidueZero
<1> HIDE DEF f
<1> DEFINE x == fe_mul(a.x, fe_sqr(f))
<1>2. /\ r.x.v = x.v
      /\ r.y = fe_mul(fe_mul(a.y, fe_sqr(f)), f) /\ r.z = fe_mul(a.z, f) /\ r.infinity = a.infinity
  BY DEF gej_rescale, Gej, Check, fe_mul, Elem
<1> HIDE DEF r
<1>3. CASE Mult(k1) = Inf /\ a.infinity = TRUE
  BY <1>2, <1>3 DEF Stands, r, f
<1>4. ASSUME NEW z \in Int, NEW p1 \in 0 .. P-1, NEW p2 \in 0 .. P-1,
             Mult(k1) = <<p1, p2>>, At(a, z, p1, p2)
      PROVE  Stands(r, Mult(k1))
  <2>1. /\ ~Cong(z, 0, P) /\ Val(a.z, z) /\ Val(a.x, p1 * z * z) /\ Val(a.y, p2 * z * z * z)
        /\ a.infinity = FALSE
    BY <1>4 DEF At
  <2>2. /\ Val(x, Times(p1 * z * z, Times(s, s)))
        /\ Val(r.y, Times(Times(p2 * z * z * z, Times(s, s)), s))
        /\ Val(r.z, Times(z, s))
    BY <1>1, <1>2, <2>1, ValMul, ValSqr
  <2> DEFINE w == z * s
  <2>3. p1 \in Int /\ p2 \in Int
    BY FieldFacts
  <2>4. /\ Times(p1 * z * z, Times(s, s)) = p1 * w * w
        /\ Times(Times(p2 * z * z * z, Times(s, s)), s) = p2 * w * w * w
        /\ Times(z, s) = w /\ w \in Int
    BY <1>0, <2>3 DEF Times
  <2>5. ~Cong(w, 0, P)
    BY <1>0, <1>1, <2>1, FieldFacts, PrimeProduct
  <2> HIDE DEF x, w
  <2>6. Val(r.x, p1 * w * w) /\ Val(r.y, p2 * w * w * w) /\ Val(r.z, w)
    BY <1>2, <2>2, <2>4 DEF Val
  <2>7. At(r, w, p1, p2)
    BY <1>2, <2>1, <2>4, <2>5, <2>6 DEF At
  <2> QED
    BY <1>4, <2>4, <2>7 DEF Stands
<1> QED
  BY <1>3, <1>4 DEF Stands, r, f

LEMMA FreshStands ==
  ASSUME NEW j \in Logs, NEW z \in Zs
  PROVE  /\ Stands(Fresh(j, z), Mult(j)) /\ j \in Int
         /\ Fresh(j, z).infinity = FALSE => Fresh(j, z).z = fe_set_int(z)
<1>1. j \in 0 .. Order-1 /\ j \in Int /\ z \in 1 .. P-1 /\ z \in 0 .. P-1 /\ z \in Int /\ z # 0
  BY GroupAssumption, OrderFacts
<1>2. CASE j = 0
  <2>1. Fresh(j, z).infinity = TRUE /\ Mult(j) = Inf
    BY <1>2, GroupLaw DEF Fresh, Gej
  <2> QED
    BY <1>1, <2>1 DEF Stands
<1>3. CASE j # 0
  <2>1. Mult(j) # Inf
    BY <1>1, <1>3, CurveAssumption, OrderFacts
  <2>2. PICK p1 \in 0 .. P-1, p2 \in 0 .. P-1 : Mult(j) = <<p1, p2>>
    BY <1>1, <2>1, OnTheCurve
  <2>3. p1 \in Int /\ p2 \in Int /\ Mult(j)[1] = p1 /\ Mult(j)[2] = p2 /\ P \in Nat \ {0}
    BY <2>2, FieldFacts
  <2> DEFINE c == (z * z * z) % P
             r == Fresh(j, z)
  <2>4. /\ r.x = fe_set_int(p1 * z * z) /\ r.y = fe_set_int(p2 * c) /\ r.z = fe_set_int(z)
        /\ r.infinity = FALSE
    BY <1>3, <2>3 DEF Fresh, Gej
  <2>5. c \in Int /\ Cong(c, z * z * z, P) /\ z * z * z \in Int
    BY <1>1, CubeMod
  <2> HIDE DEF c, r
  <2>6. p1 * z * z \in Int /\ p2 * c \in Int /\ p2 * z * z * z \in Int
    BY <1>1, <2>3, <2>5
  <2>7. Follows(p2 * c, p2 * z * z * z, p2, c, z * z * z)
    BY <1>1, <2>3, <2>5 DEF Follows
  <2>8. Cong(p2 * c, p2 * z * z * z, P)
    BY <2>3, <2>5, <2>6, <2>7, CongBy
  <2>9. Val(r.x, p1 * z * z) /\ Val(r.y, p2 * c) /\ Val(r.z, z) /\ ~Cong(z, 0, P)
    BY <1>1, <2>4, <2>6, ValInt, ResidueZero
  <2>10. Val(r.y, p2 * z * z * z)
    BY <2>6, <2>8, <2>9, ValSame
  <2>11. At(r, z, p1, p2)
    BY <1>1, <2>4, <2>9, <2>10 DEF At
  <2>12. Stands(r, Mult(j))
    BY <1>1, <2>2, <2>11 DEF Stands
  <2> QED
    BY <1>1, <2>4, <2>12 DEF r
<1> QED
  BY <1>2, <1>3

LEMMA FreshGeStands ==
  ASSUME NEW j \in 0 .. Order-1
  PROVE  GeStands(FreshGe(j), Mult(j)) /\ j \in Int
<1>1. j \in 0 .. Order-1 /\ j \in Int
  BY OrderFacts
<1>2. CASE j = 0
  <2>1. FreshGe(j).infinity = TRUE /\ Mult(j) = Inf
    BY <1>2, GroupLaw DEF FreshGe, Ge
  <2> QED
    BY <1>1, <2>1 DEF GeStands
<1>3. CASE j # 0
  <2>1. Mult(j) # Inf
    BY <1>1, <1>3, CurveAssumption, OrderFacts
  <2>2. PICK p1 \in 0 .. P-1, p2 \in 0 .. P-1 : Mult(j) = <<p1, p2>>
    BY <1>1, <2>1, OnTheCurve
  <2>3. p1 \in Int /\ p2 \in Int /\ Mult(j)[1] = p1 /\ Mult(j)[2] = p2 /\ P \in Nat \ {0}
    BY <2>2, FieldFacts
  <2>4. p1 % P = p1 /\ p2 % P = p2
    BY <2>3, CongMod
  <2>5. FreshGe(j).x.v = p1 /\ FreshGe(j).y.v = p2 /\ FreshGe(j).infinity = FALSE
    BY <1>3, <2>3, <2>4 DEF FreshGe, Ge, fe_set_int, Elem
  <2> QED
    BY <1>1, <2>1, <2>2, <2>5 DEF GeStands
<1> QED
  BY <1>2, <1>3

LEMMA GeNegStands ==
  ASSUME NEW a, GeFine(a), NEW k1 \in Int, GeStands(a, Mult(k1))
  PROVE  GeStands(ge_neg(a), Mult(-k1))
<1> DEFINE y == fe_negate(fe_normalize_weak(a.y), 1)
           r == ge_neg(a)
<1>0. a \in [x : Fes, y : Fes, infinity : BOOLEAN]
  BY DEF GeFine
<1>1. r.x = a.x /\ r.y = y /\ r.infinity = a.infinity
  BY <1>0 DEF ge_neg
<1> HIDE DEF r
<1>2. CASE Mult(k1) = Inf
  <2>1. Mult(-k1) = Inf /\ a.infinity = TRUE
    <3>1. -k1 \in Int /\ -(-k1) = k1
      OBVIOUS
    <3>2. ASSUME Mult(-k1) # Inf PROVE FALSE
      BY <1>2, <3>1, <3>2, Opposite
    <3> QED
      BY <1>2, <3>2 DEF GeStands
  <2> QED
    BY <1>1, <2>1 DEF GeStands, r
<1>3. CASE Mult(k1) # Inf
  <2>1. PICK p1 \in 0 .. P-1, p2 \in 0 .. P-1 : Mult(k1) = <<p1, p2>>
    BY <1>3, OnTheCurve
  <2>2. a.infinity = FALSE /\ Val(a.x, p1) /\ Val(a.y, p2)
    BY <2>1, GeVal
  <2>3. /\ Mult(-k1) = <<p1, P - p2>> /\ P - p2 \in 0 .. P-1
        /\ p2 \in Int /\ P - p2 \in Int /\ Cong(P, 0, P)
    BY <2>1, OppositePair
  <2>4. Val(y, Minus(p2))
    BY <1>0, <2>2, ValWeak, ValNegate
  <2>5. /\ Minus(p2) \in Int /\ -1 \in Int
        /\ P \in Nat \ {0} /\ P \in Int /\ 0 \in Int
    BY <2>3, FieldFacts DEF Minus
  <2>6. Follows(Minus(p2), P - p2, -1, P, 0)
    BY <2>3, <2>5 DEF Follows, Minus
  <2>7. Cong(Minus(p2), P - p2, P)
    BY <2>3, <2>5, <2>6, CongBy
  <2>8. Val(y, P - p2)
    BY <2>3, <2>4, <2>7, ValSame
  <2> HIDE DEF y
  <2>9. r.x.v = p1 /\ r.y.v = P - p2
    BY <1>1, <2>2, <2>3, <2>8, ValResidue
  <2>10. <<p1, P - p2>> # Inf
    BY DEF Inf
  <2> QED
    BY <1>1, <2>2, <2>3, <2>9, <2>10 DEF GeStands, r
<1> QED
  BY <1>2, <1>3

\* What a point that stands for a multiple reads as.
LEMMA AffineOfStands ==
  ASSUME NEW a, NEW k1 \in Int, Stands(a, Mult(k1))
  PROVE  AffineOf(a) = Mult(k1)
<1>1. CASE Mult(k1) = Inf /\ a.infinity = TRUE
  BY <1>1 DEF AffineOf
<1>2. ASSUME NEW z \in Int, NEW p1 \in 0 .. P-1, NEW p2 \in 0 .. P-1,
             Mult(k1) = <<p1, p2>>, At(a, z, p1, p2)
      PROVE  AffineOf(a) = Mult(k1)
  <2> DEFINE w == Inverse0[a.z.v]
             c == (w * w * w) % P
             x == a.x.v
             y == a.y.v
  <2>1. a.infinity = FALSE /\ AffineOf(a) = <<(x * w * w) % P, (y * c) % P>>
    BY <1>2 DEF At, AffineOf
  <2>2. /\ Val(a.z, z) /\ ~Cong(z, 0, P) /\ x \in 0 .. P-1 /\ y \in 0 .. P-1
        /\ Cong(x, p1 * z * z, P) /\ Cong(y, p2 * z * z * z, P)
    BY <1>2 DEF At, Val
  <2>3. P \in Nat \ {0} /\ x \in Int /\ y \in Int /\ p1 \in Int /\ p2 \in Int /\ 1 \in Int
    BY <2>2, FieldFacts
  <2>4. w \in Int /\ Cong(z * w, 1, P)
    <3>1. PICK v \in Int : Val(fe_inv(a.z), v) /\ Cong(z * v, 1, P)
      BY <2>2, ValInv
    <3>2. fe_inv(a.z).v = w
      BY DEF fe_inv, Elem
    <3>3. w \in Int /\ Cong(w, v, P)
      BY <3>1, <3>2, FieldFacts DEF Val
    <3> HIDE DEF w
    <3>4. z * w \in Int /\ z * v \in Int
      BY <3>3
    <3>5. Follows(z * w, z * v, z, w, v)
      BY <3>3 DEF Follows
    <3>6. Cong(z * w, z * v, P)
      BY <2>3, <3>3, <3>4, <3>5, CongBy
    <3> QED
      BY <2>3, <3>1, <3>3, <3>4, <3>6, CongEquivalence
  <2> HIDE DEF w, x, y
  <2>5. c \in Int /\ Cong(c, w * w * w, P) /\ w * w * w \in Int
    BY <2>4, CubeMod
  <2> HIDE DEF c
  <2>6. /\ x * w * w \in Int /\ y * c \in Int /\ y * (w * w * w) \in Int /\ w * w \in Int
        /\ (p1 * z * z) * (w * w) \in Int /\ (p2 * z * z * z) * (w * w * w) \in Int
        /\ p1 * z * z \in Int /\ p2 * z * z * z \in Int
    BY <2>3, <2>4, <2>5
  <2>7. /\ Follows(x * w * w, (p1 * z * z) * (w * w), w * w, x, p1 * z * z)
        /\ Follows(y * c, y * (w * w * w), y, c, w * w * w)
        /\ Follows(y * (w * w * w), (p2 * z * z * z) * (w * w * w), w * w * w, y, p2 * z * z * z)
    BY <2>3, <2>4, <2>5 DEF Follows
  <2>8. Cong(x * w * w, (p1 * z * z) * (w * w), P)
    BY <2>2, <2>3, <2>6, <2>7, CongBy
  <2>9. Cong(y * c, y * (w * w * w), P)
    BY <2>3, <2>5, <2>6, <2>7, CongBy
  <2>10. Cong(y * (w * w * w), (p2 * z * z * z) * (w * w * w), P)
    BY <2>2, <2>3, <2>5, <2>6, <2>7, CongBy
  <2>11. /\ Cong((p1 * z * z) * (1 * 1 * w * w), p1 * 1 * 1, P)
         /\ Cong((p2 * z * z * z) * (1 * 1 * 1 * w * w * w), p2 * 1 * 1 * 1, P)
    BY <2>3, <2>4, InverseCancels
  <2>12. /\ (p1 * z * z) * (1 * 1 * w * w) = (p1 * z * z) * (w * w) /\ p1 * 1 * 1 = p1
         /\ (p2 * z * z * z) * (1 * 1 * 1 * w * w * w) = (p2 * z * z * z) * (w * w * w)
         /\ p2 * 1 * 1 * 1 = p2
    BY <2>3, <2>4
  <2>13. Cong(x * w * w, p1, P)
    BY <2>3, <2>6, <2>8, <2>11, <2>12, CongEquivalence
  <2>14. Cong(y * c, p2, P)
    <3>1. Cong(y * c, (p2 * z * z * z) * (w * w * w), P)
      BY <2>3, <2>6, <2>9, <2>10, CongEquivalence
    <3> QED
      BY <2>3, <2>6, <3>1, <2>11, <2>12, CongEquivalence
  <2>15. (x * w * w) % P = p1 % P /\ (y * c) % P = p2 % P
    BY <2>3, <2>6, <2>13, <2>14, CongMod
  <2>16. p1 % P = p1 /\ p2 % P = p2
    BY <2>3, CongMod
  <2> QED
    BY <1>2, <2>1, <2>15, <2>16
<1> QED
  BY <1>1, <1>2 DEF Stands

-----------------------------------------------------------------------------
(* The unified addition.                                                   *)

\* The coordinates it computes from a slope rr / m, before the factors 4.
UnifiedX(t, m, rr) ==
  fe_normalize_weak(fe_add(fe_sqr(rr), fe_negate(fe_mul(fe_sqr(m), t), 1)))
UnifiedY(t, m, rr, n2) ==
  fe_normalize_weak(fe_negate(
    fe_add(fe_mul(fe_add(fe_mul_int(UnifiedX(t, m, rr), 2), fe_negate(fe_mul(fe_sqr(m), t), 1)), rr), n2), 3))

\* By how much minus the number it computes for y misses twice that of LineY.
Excess(p1, p2, q1, h, n, e, c) ==
  n * e * e * e * h * h * (q1 - p1) - c + 2 * p2 * h * h * h * e * e * e

\* The slope is n / h at the scale e, the term that is added last is c.
LEMMA UnifiedValues ==
  ASSUME NEW t, NEW m, NEW rr, NEW n2, NEW M \in Int, NEW R \in Int, NEW T \in Int, NEW c \in Int,
         Val(m, M), Val(rr, R), Val(t, T), Val(n2, c),
         NEW p1 \in Int, NEW p2 \in Int, NEW q1 \in Int, NEW h \in Int, NEW n \in Int, NEW e \in Int,
         R = n * e, M * M * T = (p1 + q1) * h * h * e * e, Cong(Excess(p1, p2, q1, h, n, e, c), 0, P)
  PROVE  /\ Val(UnifiedX(t, m, rr), LineX(p1, q1, h, n, e))
         /\ Val(UnifiedY(t, m, rr, n2), 2 * LineY(p1, p2, q1, h, n, e))
<1> DEFINE Q == Minus(Times(Times(M, M), T))
           X3 == Plus(Times(R, R), Q)
           Y3 == Minus(Plus(Times(Plus(Times(X3, 2), Q), R), c))
           LX == LineX(p1, q1, h, n, e)
           LY == LineY(p1, p2, q1, h, n, e)
           E == Excess(p1, p2, q1, h, n, e, c)
           qq == fe_negate(fe_mul(fe_sqr(m), t), 1)
           x0 == fe_add(fe_sqr(rr), qq)
           x3 == UnifiedX(t, m, rr)
           y0 == fe_negate(fe_add(fe_mul(fe_add(fe_mul_int(x3, 2), qq), rr), n2), 3)
           y3 == UnifiedY(t, m, rr, n2)
<1>1. x3.v = x0.v
  BY DEF UnifiedX, fe_normalize_weak, fe_add, Elem
<1>2. y3.v = y0.v
  BY DEF UnifiedY, fe_normalize_weak, fe_negate, Elem
<1>3. Val(qq, Q) /\ Val(x0, X3)
  BY ValMul, ValSqr, ValAdd, ValNegate
<1> HIDE DEF x3, x0, qq, y3
<1>4. Val(x3, X3)
  BY <1>1, <1>3 DEF Val
<1>5. Val(y0, Y3)
  BY <1>3, <1>4, ValMul, ValAdd, ValNegate, ValMulInt
<1> HIDE DEF y0
<1>6. Val(y3, Y3)
  BY <1>2, <1>5 DEF Val
<1>7. Q = -((p1 + q1) * h * h * e * e)
  BY DEF Minus, Times
<1>8. X3 = LX
  BY <1>7 DEF Plus, Times, LineX
<1>9. /\ LX \in Int /\ LY \in Int /\ E \in Int /\ Y3 \in Int /\ 2 * LY \in Int /\ Q \in Int
      /\ 0 \in Int /\ 1 \in Int /\ P \in Nat \ {0}
  BY FieldFacts DEF LineX, LineY, Excess, Minus, Plus, Times
<1>10. Y3 = -((LX * 2 + Q) * R + c)
  BY <1>8 DEF Minus, Plus, Times
<1>11. Y3 - 2 * LY = E
  <2>1. Y3 = -((LX * 2 - (p1 + q1) * h * h * e * e) * (n * e) + c)
    BY <1>7, <1>9, <1>10
  <2>2. LY = n * (p1 * h * h * e * e - LX) * e - p2 * h * h * h * e * e * e
    BY DEF LineY
  <2>3. E = n * e * e * e * h * h * (q1 - p1) - c + 2 * p2 * h * h * h * e * e * e
    BY DEF Excess
  <2> HIDE DEF LX, LY, E, Y3
  <2> QED
    BY <1>9, <2>1, <2>2, <2>3
<1> HIDE DEF X3, Y3, LX, LY, E
<1>12. Follows(Y3, 2 * LY, 1, E, 0)
  BY <1>9, <1>11 DEF Follows
<1>13. Cong(E, 0, P)
  BY DEF E
<1>14. Cong(Y3, 2 * LY, P)
  BY <1>9, <1>12, <1>13, CongBy
<1>15. Val(y3, 2 * LY)
  BY <1>6, <1>9, <1>14, ValSame
<1> QED
  BY <1>4, <1>8, <1>15 DEF LX, LY, x3, y3

\* The registers hold the slope n / h at the scale e.
Scales(z, M, R, T, p1, q1, h, n, e) ==
  R = n * e /\ z * M = h * e /\ M * M * T = (p1 + q1) * h * h * e * e

\* n / h is the slope of the line that adds the points, or h is zero.
Slopes(p1, p2, q1, q2, h, n) ==
  /\ Cong(h, 0, P) => AffineAdd(<<p1, p2>>, <<q1, q2>>) = Inf
  /\ ~Cong(h, 0, P) =>
       \E l \in Int : /\ AffineAdd(<<p1, p2>>, <<q1, q2>>) = Chord(<<p1, p2>>, <<q1, q2>>, l)
                      /\ Cong(l * h, n, P)

\* r is what the unified addition makes of a finite accumulator with Z az.
EndOf(r, az, t, m, rr, n2) ==
  /\ r.infinity \in BOOLEAN
  /\ r.infinity <=> fe_normalizes_to_zero(fe_mul(az, m))
  /\ r.x.v = fe_mul_int(UnifiedX(t, m, rr), 4).v
  /\ r.y.v = fe_mul_int(UnifiedY(t, m, rr, n2), 4).v
  /\ r.z.v = fe_mul_int(fe_mul(az, m), 2).v

\* The unified addition lands on the third point of the line of slope n / h, or
\* at infinity when there is no such line.
LEMMA UnifiedEndStands ==
  ASSUME NEW r, NEW az, NEW t, NEW m, NEW rr, NEW n2,
         NEW z \in Int, Val(az, z),
         NEW M \in Int, NEW R \in Int, NEW T \in Int, NEW c \in Int,
         Val(m, M), Val(rr, R), Val(t, T), Val(n2, c),
         NEW p1 \in 0 .. P-1, NEW p2 \in 0 .. P-1, NEW q1 \in 0 .. P-1, NEW q2 \in 0 .. P-1,
         NEW h \in Int, NEW n \in Int, NEW e \in Int, ~Cong(e, 0, P),
         Scales(z, M, R, T, p1, q1, h, n, e), Slopes(p1, p2, q1, q2, h, n),
         Cong(Excess(p1, p2, q1, h, n, e, c), 0, P), EndOf(r, az, t, m, rr, n2)
  PROVE  Stands(r, AffineAdd(<<p1, p2>>, <<q1, q2>>))
<1> DEFINE W == h * e
           V == 2 * W
           LX == LineX(p1, q1, h, n, e)
           LY == LineY(p1, p2, q1, h, n, e)
<1>0. /\ P \in Nat \ {0} /\ Prime(P) /\ p1 \in Int /\ p2 \in Int /\ q1 \in Int /\ q2 \in Int
      /\ 0 \in Int /\ 2 \in Int /\ W \in Int /\ V \in Int /\ ~Cong(2, 0, P)
  BY FieldFacts
<1>1. Val(fe_mul(az, m), W)
  <2>1. Val(fe_mul(az, m), Times(z, M))
    BY ValMul
  <2>2. Times(z, M) = W
    BY DEF Times, Scales
  <2> QED
    BY <2>1, <2>2
<1>2. fe_normalizes_to_zero(fe_mul(az, m)) <=> Cong(W, 0, P)
  BY <1>1, ValZero
<1>3. Cong(W, 0, P) <=> Cong(h, 0, P)
  <2>1. ~Cong(h, 0, P) => ~Cong(W, 0, P)
    BY <1>0, PrimeProduct
  <2>2. ASSUME Cong(h, 0, P) PROVE Cong(W, 0, P)
    <3>1. Follows(W, 0, e, h, 0)
      BY DEF Follows
    <3> QED
      BY <1>0, <2>2, <3>1, CongBy
  <2> QED
    BY <2>1, <2>2
<1>4. CASE Cong(h, 0, P)
  <2>1. r.infinity = TRUE
    BY <1>2, <1>3, <1>4 DEF EndOf
  <2> QED
    BY <1>4, <2>1 DEF Stands, Slopes
<1>5. CASE ~Cong(h, 0, P)
  <2>1. r.infinity = FALSE /\ ~Cong(W, 0, P)
    BY <1>2, <1>3, <1>5 DEF EndOf
  <2>2. ~Cong(V, 0, P)
    BY <1>0, <2>1, PrimeProduct
  <2>3. PICK l \in Int : /\ AffineAdd(<<p1, p2>>, <<q1, q2>>) = Chord(<<p1, p2>>, <<q1, q2>>, l)
                         /\ Cong(l * h, n, P)
    BY <1>5 DEF Slopes
  <2>4. PICK r1 \in 0 .. P-1, r2 \in 0 .. P-1 :
          /\ Chord(<<p1, p2>>, <<q1, q2>>, l) = <<r1, r2>> /\ r1 \in Int /\ r2 \in Int
          /\ Cong(r1, l * l - p1 - q1, P) /\ Cong(r2, l * (p1 - r1) - p2, P)
    BY <1>0, ChordPoint
  <2>5. Cong(LX, r1 * W * W, P) /\ Cong(LY, r2 * W * W * W, P)
    BY <1>0, <2>3, <2>4, LineFormula
  <2>6. LX \in Int /\ LY \in Int
    BY <1>0 DEF LineX, LineY
  <2>7. Val(UnifiedX(t, m, rr), LX) /\ Val(UnifiedY(t, m, rr, n2), 2 * LY)
    BY <1>0, UnifiedValues DEF Scales
  <2> HIDE DEF LX, LY, W, V
  <2>8. Val(r.x, Times(LX, 4)) /\ Val(r.y, Times(2 * LY, 4)) /\ Val(r.z, Times(W, 2))
    <3>1. /\ Val(fe_mul_int(UnifiedX(t, m, rr), 4), Times(LX, 4))
          /\ Val(fe_mul_int(UnifiedY(t, m, rr, n2), 4), Times(2 * LY, 4))
          /\ Val(fe_mul_int(fe_mul(az, m), 2), Times(W, 2))
      <4>1. ASSUME NEW a, NEW i, Val(a, i)
            PROVE  Val(fe_mul_int(a, 4), Times(i, 4)) /\ Val(fe_mul_int(a, 2), Times(i, 2))
        BY <4>1, ValMulInt
      <4> QED
        BY <1>1, <2>7, <4>1
    <3> QED
      BY <3>1 DEF Val, EndOf
  <2>9. /\ Times(LX, 4) \in Int /\ Times(2 * LY, 4) \in Int /\ Times(W, 2) = V
        /\ r1 * V * V \in Int /\ r2 * V * V * V \in Int /\ r1 * W * W \in Int /\ r2 * W * W * W \in Int
        /\ 4 \in Int /\ 8 \in Int
    BY <1>0, <2>4, <2>6 DEF Times, V
  <2>10. /\ Follows(Times(LX, 4), r1 * V * V, 4, LX, r1 * W * W)
         /\ Follows(Times(2 * LY, 4), r2 * V * V * V, 8, LY, r2 * W * W * W)
    BY <1>0, <2>4, <2>6 DEF Follows, V, Times
  <2>11. Cong(Times(LX, 4), r1 * V * V, P)
    BY <1>0, <2>5, <2>6, <2>9, <2>10, CongBy
  <2>12. Cong(Times(2 * LY, 4), r2 * V * V * V, P)
    BY <1>0, <2>5, <2>6, <2>9, <2>10, CongBy
  <2>13. Val(r.x, r1 * V * V) /\ Val(r.y, r2 * V * V * V) /\ Val(r.z, V)
    BY <2>8, <2>9, <2>11, <2>12, ValSame
  <2>14. At(r, V, r1, r2)
    BY <1>0, <2>1, <2>2, <2>13 DEF At
  <2> QED
    BY <1>0, <2>3, <2>4, <2>14 DEF Stands
<1> QED
  BY <1>4, <1>5

LEMMA AddGeStands ==
  ASSUME NEW a, NEW b, GejFine(a), GeFine(b), b.infinity = FALSE, NEW k1 \in Int, NEW k2 \in Int,
         Stands(a, Mult(k1)), GeStands(b, Mult(k2))
  PROVE  Stands(gej_add_ge(a, b), Mult(k1 + k2))
<1> DEFINE zz == fe_sqr(a.z)
           u1 == fe_normalize_weak(a.x)
           u2 == fe_mul(b.x, zz)
           s1 == fe_normalize_weak(a.y)
           s2 == fe_mul(fe_mul(b.y, zz), a.z)
           t  == fe_add(u1, u2)
           m  == fe_add(s1, s2)
           rr == fe_add(fe_sqr(t), fe_mul(u1, fe_negate(u2, 1)))
           deg == fe_normalizes_to_zero(m) /\ fe_normalizes_to_zero(rr)
           m0 == fe_add(fe_negate(u2, 1), u1)
           r0 == fe_mul_int(s1, 2)
           ma == fe_cmov(m0, m, ~deg)
           ra == fe_cmov(r0, rr, ~deg)
           n2 == fe_cmov(fe_sqr(fe_sqr(ma)), m, deg)
           az == a.z
           w  == fe_mul(az, ma)
           x4 == fe_mul_int(UnifiedX(t, ma, ra), 4)
           y4 == fe_mul_int(UnifiedY(t, ma, ra, n2), 4)
           z2 == fe_mul_int(w, 2)
           r  == gej_add_ge(a, b)
<1>0. Mult(k1 + k2) = AffineAdd(Mult(k1), Mult(k2)) /\ a.infinity \in BOOLEAN
  BY MultAdd DEF GejFine
<1>1. r = Checked(Unified(a, b, u1, u2, s1, t, m, rr), ~b.infinity)
  BY DEF gej_add_ge
<1> HIDE DEF r
<1>2. /\ deg => ma.v = m0.v /\ ra.v = r0.v /\ n2.v = m.v
      /\ ~deg => ma.v = m.v /\ ra.v = rr.v /\ n2.v = fe_sqr(fe_sqr(ma)).v
  <2> HIDE DEF deg, m, rr, m0, r0
  <2> QED
    BY DEF fe_cmov, Elem
<1>3. deg \in BOOLEAN /\ (deg <=> fe_normalizes_to_zero(m) /\ fe_normalizes_to_zero(rr))
  BY DEF fe_normalizes_to_zero
<1>4. Unified(a, b, u1, u2, s1, t, m, rr) = UnifiedEnd(a, b, t, m, rr, ma, ra, deg)
  <2> HIDE DEF u1, u2, s1, t, m, rr
  <2> QED
    BY DEF Unified
<1> HIDE DEF u1, u2, s1, s2, t, m, rr, deg, m0, r0, ma, ra
<1>5. UnifiedEnd(a, b, t, m, rr, ma, ra, deg)
        = Gej(fe_cmov(x4, b.x, a.infinity), fe_cmov(y4, b.y, a.infinity),
              fe_cmov(z2, fe_set_int(1), a.infinity), fe_normalizes_to_zero(w) /\ ~a.infinity)
  BY DEF UnifiedEnd, UnifiedX, UnifiedY
<1>6. w.v = w.v /\ (fe_normalizes_to_zero(w) <=> w.v = 0)
  BY DEF fe_normalizes_to_zero
<1> HIDE DEF n2, x4, y4, z2, w, az
<1>7. /\ r.infinity = (fe_normalizes_to_zero(w) /\ ~a.infinity)
      /\ r.x.v = IF a.infinity THEN b.x.v ELSE x4.v
      /\ r.y.v = IF a.infinity THEN b.y.v ELSE y4.v
      /\ r.z.v = IF a.infinity THEN fe_set_int(1).v ELSE z2.v
  BY <1>1, <1>4, <1>5 DEF Checked, Check, Gej, fe_cmov, Elem
<1>8. r.infinity \in BOOLEAN
  BY <1>0, <1>6, <1>7
<1>9. Mult(k2) # Inf
  BY DEF GeStands
<1>10. PICK q1 \in 0 .. P-1, q2 \in 0 .. P-1 : Mult(k2) = <<q1, q2>>
  BY <1>9, OnTheCurve
<1>11. Val(b.x, q1) /\ Val(b.y, q2) /\ q1 \in Int /\ q2 \in Int
  <2>1. Val(b.x, q1) /\ Val(b.y, q2)
    BY <1>10, GeVal
  <2> QED
    BY <2>1 DEF Val
<1>12. CASE Mult(k1) = Inf /\ a.infinity = TRUE
  <2>1. Mult(k1 + k2) = <<q1, q2>>
    BY <1>0, <1>10, <1>12 DEF AffineAdd
  <2>2. r.infinity = FALSE /\ r.x.v = b.x.v /\ r.y.v = b.y.v /\ r.z.v = fe_set_int(1).v
    BY <1>7, <1>12
  <2>3. Val(fe_set_int(1), 1) /\ 1 \in Int /\ ~Cong(1, 0, P)
    BY ValInt, FieldFacts
  <2>4. q1 * 1 * 1 = q1 /\ q2 * 1 * 1 * 1 = q2
    BY <1>11
  <2>5. Val(r.x, q1) /\ Val(r.y, q2) /\ Val(r.z, 1)
    BY <1>11, <2>2, <2>3 DEF Val
  <2>6. At(r, 1, q1, q2)
    BY <2>2, <2>3, <2>4, <2>5 DEF At
  <2> QED
    BY <2>1, <2>3, <2>6 DEF Stands, r
<1>13. ASSUME NEW z \in Int, NEW p1 \in 0 .. P-1, NEW p2 \in 0 .. P-1,
              Mult(k1) = <<p1, p2>>, At(a, z, p1, p2)
       PROVE  Stands(r, AffineAdd(<<p1, p2>>, <<q1, q2>>))
  <2>1. /\ a.infinity = FALSE /\ ~Cong(z, 0, P) /\ Val(az, z)
        /\ Val(a.x, p1 * z * z) /\ Val(a.y, p2 * z * z * z) /\ a.x \in Fes /\ a.y \in Fes
    BY <1>13 DEF At, az, GejFine
  <2>2. /\ p2 # 0 /\ OnCurve(<<p1, p2>>) /\ OnCurve(<<q1, q2>>) /\ p1 \in Int /\ p2 \in Int
        /\ P \in Nat \ {0} /\ Prime(P) /\ 0 \in Int
    BY <1>10, <1>13, FinitePoint, FieldFacts
  <2>3. EndOf(r, az, t, ma, ra, n2)
    BY <1>6, <1>7, <1>8, <2>1 DEF w, x4, y4, z2, EndOf
  <2> DEFINE U1 == p1 * z * z
             S1 == p2 * z * z * z
             U2 == Times(q1, Times(z, z))
             S2 == Times(Times(q2, Times(z, z)), z)
             T == Plus(U1, U2)
             M == Plus(S1, S2)
             RR == Plus(Times(T, T), Times(U1, Minus(U2)))
             h == p2 + q2
             n == p1 * p1 + p1 * q1 + q1 * q1
  <2>4. Val(u1, U1) /\ Val(s1, S1)
    BY <2>1, ValWeak DEF u1, s1
  <2> HIDE DEF U1, S1
  <2>5. Val(u2, U2) /\ Val(s2, S2)
    BY <1>11, <2>1, ValMul, ValSqr DEF u2, s2, az
  <2>6. Val(t, T) /\ Val(m, M)
    BY <2>4, <2>5, ValAdd DEF t, m
  <2>7. Val(rr, RR)
    <3> HIDE DEF T
    <3> QED
      BY <2>4, <2>5, <2>6, ValAdd, ValMul, ValSqr, ValNegate DEF rr
  <2>8. Val(m0, Plus(Minus(U2), U1)) /\ Val(r0, Times(S1, 2))
    BY <2>4, <2>5, ValAdd, ValNegate, ValMulInt DEF m0, r0
  <2>9. /\ T = (p1 + q1) * z * z /\ M = h * z * z * z /\ RR = n * (z * z) * (z * z)
        /\ Plus(Minus(U2), U1) = (p1 - q1) * z * z /\ Times(S1, 2) = (2 * p2) * z * z * z
    BY <1>11, <2>2 DEF Plus, Minus, Times, U1, S1
  <2>10. /\ h \in Int /\ n \in Int /\ p1 - q1 \in Int /\ z * z \in Int /\ z * z * z \in Int /\ 2 * p2 \in Int
         /\ (p1 + q1) * z * z \in Int
    BY <1>11, <2>2
  <2> HIDE DEF T, M, RR, U2, S2
  <2>11. ~Cong(z * z, 0, P)
    BY <2>1, <2>2, PrimeProduct
  <2>12. deg <=> Cong(h, 0, P) /\ Cong(n, 0, P)
    <3>1. fe_normalizes_to_zero(m) <=> Cong(h * z * z * z, 0, P)
      BY <2>6, <2>9, ValZero
    <3>2. fe_normalizes_to_zero(rr) <=> Cong(n * (z * z) * (z * z), 0, P)
      BY <2>7, <2>9, ValZero
    <3>3. Cong(h * z * z * z, 0, P) <=> Cong(h, 0, P)
      BY <2>1, <2>10, ScaleAway
    <3>4. Cong(n * (z * z) * (z * z), 0, P) <=> Cong(n, 0, P)
      BY <2>10, <2>11, ScaleAway
    <3> QED
      BY <1>3, <3>1, <3>2, <3>3, <3>4
  <2>13. CASE ~deg
    <3> DEFINE e == (z * z) * (z * z)
               Ma == h * z * z * z
               R == n * e
               c == Times(Times(Ma, Ma), Times(Ma, Ma))
               E == Excess(p1, p2, q1, h, n, e, c)
    <3>1. e \in Int /\ Ma \in Int /\ R \in Int /\ c \in Int /\ ~Cong(e, 0, P)
      <4>1. e \in Int /\ Ma \in Int /\ R \in Int /\ c \in Int
        BY <2>10 DEF Times
      <4>2. ~Cong(e, 0, P)
        BY <2>2, <2>10, <2>11, PrimeProduct
      <4> QED
        BY <4>1, <4>2
    <3>2. R = n * (z * z) * (z * z)
      BY <2>10
    <3>3. z * Ma = h * e /\ Ma * Ma * ((p1 + q1) * z * z) = (p1 + q1) * h * h * e * e
      BY <1>11, <2>2, <2>10
    <3>4. Cong(E, 0, P)
      <4> DEFINE d == q1 - p1
                 f == q2 - p2
      <4>1. c = h * h * h * h * e * e * e
        BY <2>10 DEF Times
      <4>2. E = h * h * e * e * e * (d * n - f * h)
        <5>1. E = n * e * e * e * h * h * d - h * h * h * h * e * e * e + 2 * p2 * h * h * h * e * e * e
          BY <4>1 DEF Excess
        <5>2. d \in Int /\ f \in Int /\ h = f + 2 * p2
          BY <1>11, <2>2
        <5> HIDE DEF n, h, e, E, d, f, c
        <5>3. /\ n * e * e * e * h * h * d = h * h * e * e * e * (d * n)
              /\ h * h * h * h * e * e * e - 2 * p2 * h * h * h * e * e * e = h * h * e * e * e * ((h - 2 * p2) * h)
          BY <2>2, <2>10, <3>1, <5>2
        <5>4. h - 2 * p2 = f
          BY <2>2, <2>10, <5>2
        <5> QED
          BY <2>2, <2>10, <3>1, <5>1, <5>2, <5>3, <5>4
      <4>3. Cong(d * n, f * h, P)
        BY <2>2, CubesAndSquares
      <4>4. d \in Int /\ f \in Int
        BY <1>11, <2>2
      <4> HIDE DEF n, h, e, d, f, E, c
      <4>5. /\ d * n \in Int /\ f * h \in Int /\ h * h * e * e * e \in Int
            /\ h * h * e * e * e * (d * n - f * h) \in Int
        BY <2>10, <3>1, <4>4
      <4>6. Follows(E, 0, h * h * e * e * e, d * n, f * h) /\ E \in Int
        BY <4>2, <4>5 DEF Follows
      <4> QED
        BY <2>2, <4>3, <4>5, <4>6, CongBy
    <3>5. Slopes(p1, p2, q1, q2, h, n)
      BY <2>2, <2>12, <2>13, RegularSlope DEF Slopes
    <3>6. Val(ma, Ma) /\ Val(ra, R)
      BY <1>2, <2>6, <2>7, <2>9, <2>13, <3>2 DEF Val
    <3>7. Val(n2, c)
      <4> HIDE DEF Ma
      <4>1. Val(fe_sqr(fe_sqr(ma)), c)
        BY <3>6, ValSqr
      <4> QED
        BY <1>2, <2>13, <4>1 DEF Val
    <3> DEFINE TT == (p1 + q1) * z * z
    <3>8. Val(t, TT) /\ TT \in Int
      BY <2>6, <2>9, <2>10
    <3>9. Cong(Excess(p1, p2, q1, h, n, e, c), 0, P) /\ Scales(z, Ma, R, TT, p1, q1, h, n, e)
      BY <3>3, <3>4 DEF Scales
    <3> HIDE DEF TT, Ma, R, c, e, n, h
    <3> QED
      BY <2>1, <2>3, <2>10, <3>1, <3>5, <3>6, <3>7, <3>8, <3>9, UnifiedEndStands
  <2>14. CASE deg
    <3> DEFINE e == z * z * z
               H == p1 - q1
               N == 2 * p2
               Ma == H * z * z
               R == N * e
               c == h * e
               E == Excess(p1, p2, q1, H, N, e, c)
               TT == (p1 + q1) * z * z
    <3>1. e \in Int /\ Ma \in Int /\ R \in Int /\ c \in Int /\ ~Cong(e, 0, P)
      <4>1. e \in Int /\ Ma \in Int /\ R \in Int /\ c \in Int
        BY <2>2, <2>10
      <4>2. ~Cong((z * z) * z, 0, P)
        BY <2>1, <2>2, <2>10, <2>11, PrimeProduct
      <4> QED
        BY <4>1, <4>2
    <3>2. R = (2 * p2) * z * z * z /\ c = h * z * z * z
      BY <2>2, <2>10
    <3>3. z * Ma = H * e /\ Ma * Ma * TT = (p1 + q1) * H * H * e * e
      BY <1>11, <2>2, <2>10
    <3>4. Cong(E, 0, P)
      <4>1. E = -c
        <5>1. E = N * e * e * e * H * H * (q1 - p1) - c + 2 * p2 * H * H * H * e * e * e
          BY DEF Excess
        <5> HIDE DEF e, c, E
        <5> QED
          BY <1>11, <2>2, <3>1, <5>1
      <4>2. Cong(h, 0, P)
        BY <2>12, <2>14
      <4> HIDE DEF E, h, e
      <4>3. Follows(E, 0, -e, h, 0) /\ E \in Int /\ -e \in Int
        BY <2>10, <3>1, <4>1 DEF Follows
      <4> QED
        BY <2>2, <2>10, <4>2, <4>3, CongBy
    <3>5. Slopes(p1, p2, q1, q2, H, N)
      BY <2>2, <2>12, <2>14, DegenerateSlope DEF Slopes
    <3>6. Val(ma, Ma) /\ Val(ra, R)
      BY <1>2, <2>8, <2>9, <2>14, <3>2 DEF Val
    <3>7. Val(n2, c)
      BY <1>2, <2>6, <2>9, <2>14, <3>2 DEF Val
    <3>8. Val(t, TT) /\ TT \in Int /\ H \in Int /\ N \in Int
      BY <2>6, <2>9, <2>10
    <3>9. Cong(Excess(p1, p2, q1, H, N, e, c), 0, P) /\ Scales(z, Ma, R, TT, p1, q1, H, N, e)
      BY <3>3, <3>4 DEF Scales
    <3> HIDE DEF TT, Ma, R, c, e, N, H, h
    <3> QED
      BY <2>1, <2>3, <3>1, <3>5, <3>6, <3>7, <3>8, <3>9, UnifiedEndStands
  <2> QED
    BY <2>13, <2>14
<1>14. ASSUME NEW z \in Int, NEW p1 \in 0 .. P-1, NEW p2 \in 0 .. P-1,
              Mult(k1) = <<p1, p2>>, At(a, z, p1, p2)
       PROVE  Stands(r, Mult(k1 + k2))
  BY <1>0, <1>10, <1>13, <1>14
<1> QED
  BY <1>12, <1>14 DEF Stands, r

-----------------------------------------------------------------------------
(* The endomorphism of ge_mul_lambda: multiplying x by a cube root of      *)
(* unity multiplies every point by the same factor.                        *)

Endo(q) == IF q = Inf THEN Inf ELSE <<(Beta * q[1]) % P, q[2]>>

LEMMA BetaFacts ==
  /\ Beta \in Int /\ Beta * Beta * Beta \in Int /\ Cong(Beta * Beta * Beta, 1, P) /\ ~Cong(Beta, 0, P)
  /\ Lambda \in Int /\ P \in Nat \ {0} /\ Prime(P)
<1>1. Beta \in 2 .. P-1 /\ (Beta * Beta * Beta) % P = 1 /\ Lambda \in Int
  BY GroupAssumption
<1>2. P \in Nat \ {0} /\ P > 3 /\ Prime(P) /\ 1 \in 0 .. P-1 /\ 1 \in Int
  BY FieldFacts
<1>3. Beta \in Int /\ Beta \in 0 .. P-1 /\ Beta # 0
  BY <1>1, <1>2
<1>4. Beta * Beta * Beta \in Int
  BY <1>3
<1>5. 1 % P = 1
  BY <1>2, CongMod
<1>6. Cong(Beta * Beta * Beta, 1, P)
  BY <1>1, <1>2, <1>4, <1>5, CongMod
<1> QED
  BY <1>1, <1>2, <1>3, <1>4, <1>6, ResidueZero

\* Beta times a residue, reduced.
LEMMA BetaTimes ==
  ASSUME NEW x \in Int
  PROVE  /\ (Beta * x) % P \in 0 .. P-1 /\ (Beta * x) % P \in Int /\ Beta * x \in Int
         /\ Cong((Beta * x) % P, Beta * x, P)
<1>1. Beta * x \in Int /\ P \in Nat \ {0}
  BY BetaFacts
<1>2. ASSUME NEW n \in Int PROVE n % P \in 0 .. P-1 /\ n % P \in Int /\ Cong(n % P, n, P)
  BY <1>1, CongMod
<1> QED
  BY <1>1, <1>2

\* l is the slope of the line through two points, of the tangent if they are
\* the same; <<r1, r2>> is the third point of the line of slope l.
OnLine(l, p1, p2, q1, q2) ==
  /\ Cong(l * (q1 - p1), q2 - p2, P)
  /\ p1 = q1 => Cong(l * (2 * p2), 3 * p1 * p1, P)
Third(r1, r2, l, p1, p2, q1) ==
  Cong(r1, l * l - p1 - q1, P) /\ Cong(r2, l * (p1 - r1) - p2, P)
BetaOf(a, p1) == Cong(a, Beta * p1, P)
BetaSquareOf(j, l) == Cong(j, Beta * Beta * l, P)

\* The slope of the image is the slope times the square of Beta.
LEMMA EndoSlope ==
  ASSUME NEW p1 \in 0 .. P-1, NEW p2 \in 0 .. P-1, NEW q1 \in 0 .. P-1, NEW q2 \in 0 .. P-1,
         p1 = q1 => p2 = q2 /\ p2 # 0,
         NEW a \in 0 .. P-1, NEW b \in 0 .. P-1, BetaOf(a, p1), BetaOf(b, q1), p1 = q1 <=> a = b,
         NEW l \in Int, OnLine(l, p1, p2, q1, q2), NEW k1 \in Int, OnLine(k1, a, p2, b, q2)
  PROVE  BetaSquareOf(k1, l)
<1> USE DEF BetaOf, BetaSquareOf, OnLine
<1>0. /\ p1 \in Int /\ p2 \in Int /\ q1 \in Int /\ q2 \in Int /\ a \in Int /\ b \in Int
      /\ P \in Nat \ {0} /\ Prime(P) /\ 0 \in Int /\ 1 \in Int /\ 2 \in Int
      /\ Beta \in Int /\ Beta * Beta * Beta \in Int /\ Cong(Beta * Beta * Beta, 1, P)
  BY FieldFacts, BetaFacts
<1> DEFINE s == Beta * Beta * l
<1>1. s \in Int
  BY <1>0
<1>2. CASE p1 # q1
  <2> DEFINE d == q1 - p1
             f == q2 - p2
             g == b - a
  <2>1. d \in Int /\ f \in Int /\ g \in Int /\ ~Cong(g, 0, P)
    BY <1>0, <1>2, Different
  <2>2. Cong(g, Beta * q1 - Beta * p1, P)
    <3>1. Beta * q1 \in Int /\ Beta * p1 \in Int
      BY <1>0
    <3> QED
      BY <1>0, <3>1, CongArithmetic
  <2>3. Beta * q1 - Beta * p1 = Beta * d
    BY <1>0
  <2> HIDE DEF d, f, g
  <2>4. /\ Beta * d \in Int /\ g * k1 \in Int /\ g * s \in Int /\ l * d \in Int
        /\ Beta * d * s \in Int /\ k1 * g = g * k1
    BY <1>0, <1>1, <2>1
  <2>5. /\ Follows(g * s, Beta * d * s, s, g, Beta * d)
        /\ Follows(Beta * d * s, l * d, l * d, Beta * Beta * Beta, 1)
    BY <1>0, <2>1 DEF Follows
  <2>6. Cong(g * s, Beta * d * s, P)
    <3>1. PICK u \in Int, v \in Int, c \in Int, e \in Int : u = g * s /\ v = Beta * d * s /\ c = s /\ e = Beta * d
      BY <1>0, <1>1, <2>4
    <3>2. Follows(u, v, c, g, e) /\ Cong(g, e, P) /\ g \in Int
      BY <1>1, <2>1, <2>2, <2>3, <2>5, <3>1
    <3>3. Cong(u, v, P)
      BY <1>0, <3>2, CongBy
    <3> QED
      BY <3>1, <3>3
  <2>7. Cong(Beta * d * s, l * d, P)
    BY <1>0, <2>4, <2>5, CongBy
  <2>8. Cong(l * d, f, P) /\ Cong(g * k1, f, P)
    BY <2>4 DEF d, f, g
  <2>9. Cong(g * s, l * d, P)
    BY <1>0, <2>4, <2>6, <2>7, CongEquivalence
  <2>10. Cong(l * d, g * k1, P)
    <3>1. Cong(f, g * k1, P)
      BY <1>0, <2>1, <2>4, <2>8, CongEquivalence
    <3> QED
      BY <1>0, <2>1, <2>4, <2>8, <3>1, CongEquivalence
  <2>11. Cong(g * k1, g * s, P)
    <3>1. Cong(g * s, g * k1, P)
      BY <1>0, <2>4, <2>9, <2>10, CongEquivalence
    <3> QED
      BY <1>0, <2>4, <3>1, CongEquivalence
  <2> HIDE DEF s
  <2> QED
    BY <1>0, <1>1, <2>1, <2>11, PrimeFactor DEF s
<1>3. CASE p1 = q1
  <2> DEFINE g == 2 * p2
             x == 3 * p1 * p1
             y == 3 * a * a
  <2>1. g \in Int /\ x \in Int /\ y \in Int /\ ~Cong(g, 0, P)
    <3>1. ~Cong(p2, 0, P) /\ ~Cong(2, 0, P)
      BY <1>3, ResidueZero, FieldFacts
    <3>2. ~Cong(2 * p2, 0, P)
      BY <1>0, <3>1, PrimeProduct
    <3> QED
      BY <1>0, <3>2
  <2>2. Cong(l * g, x, P) /\ Cong(k1 * g, y, P)
    BY <1>3
  <2>3. Follows(y, Beta * Beta * x, 3 * (a + Beta * p1), a, Beta * p1)
    BY <1>0 DEF Follows
  <2>4. 3 * (a + Beta * p1) \in Int /\ Beta * p1 \in Int /\ Beta * Beta * x \in Int /\ Beta * Beta \in Int
    BY <1>0
  <2>5. Cong(y, Beta * Beta * x, P)
    BY <1>0, <2>1, <2>3, <2>4, CongBy
  <2> HIDE DEF g, x, y
  <2>6. g * k1 \in Int /\ g * s \in Int /\ k1 * g = g * k1 /\ l * g \in Int
    BY <1>0, <1>1, <2>1
  <2>7. Follows(g * s, Beta * Beta * x, Beta * Beta, l * g, x)
    BY <1>0, <2>1 DEF Follows
  <2>8. Cong(g * s, Beta * Beta * x, P)
    BY <1>0, <2>1, <2>2, <2>4, <2>6, <2>7, CongBy
  <2>9. Cong(Beta * Beta * x, g * s, P)
    BY <1>0, <2>4, <2>6, <2>8, CongEquivalence
  <2>10. Cong(g * k1, Beta * Beta * x, P)
    BY <1>0, <2>1, <2>2, <2>4, <2>5, <2>6, CongEquivalence
  <2>11. Cong(g * k1, g * s, P)
    BY <1>0, <2>4, <2>6, <2>9, <2>10, CongEquivalence
  <2> HIDE DEF s
  <2> QED
    BY <1>0, <1>1, <2>1, <2>11, PrimeFactor DEF s
<1> QED
  BY <1>2, <1>3

\* The line of the images meets the curve in the image of the third point.
LEMMA EndoChord ==
  ASSUME NEW p1 \in Int, NEW p2 \in Int, NEW q1 \in Int, NEW l \in Int, NEW k1 \in Int,
         NEW a \in Int, NEW b \in Int, BetaOf(a, p1), BetaOf(b, q1), BetaSquareOf(k1, l),
         NEW r1 \in Int, NEW r2 \in Int, Third(r1, r2, l, p1, p2, q1),
         NEW s1 \in Int, NEW s2 \in Int, Third(s1, s2, k1, a, p2, b)
  PROVE  Cong(s1, Beta * r1, P) /\ Cong(s2, r2, P)
<1> USE DEF BetaOf, BetaSquareOf, Third
<1>0. /\ P \in Nat \ {0} /\ Beta \in Int /\ Beta * Beta * Beta \in Int /\ Cong(Beta * Beta * Beta, 1, P)
      /\ 1 \in Int
  BY BetaFacts
<1> DEFINE m == Beta * Beta * l
           u == Beta * p1
           v == Beta * q1
           x == l * l - p1 - q1
<1>1. /\ m \in Int /\ u \in Int /\ v \in Int /\ x \in Int /\ m * m \in Int /\ k1 * k1 \in Int
      /\ k1 * k1 - a \in Int /\ m * m - u \in Int /\ k1 * k1 - a - b \in Int /\ m * m - u - v \in Int
      /\ Beta * x \in Int /\ Beta * r1 \in Int
  BY <1>0
<1>2. Cong(k1 * k1, m * m, P)
  BY <1>0, <1>1, CongArithmetic
<1>3. Cong(k1 * k1 - a, m * m - u, P)
  BY <1>0, <1>1, <1>2, CongArithmetic
<1>4. Cong(k1 * k1 - a - b, m * m - u - v, P)
  BY <1>0, <1>1, <1>3, CongArithmetic
<1>5. /\ Follows(m * m - u - v, Beta * x, Beta * l * l, Beta * Beta * Beta, 1) /\ Beta * l * l \in Int
      /\ Follows(Beta * x, Beta * r1, -Beta, r1, x) /\ -Beta \in Int
  BY <1>0 DEF Follows
<1>6. Cong(m * m - u - v, Beta * x, P)
  BY <1>0, <1>1, <1>5, CongBy
<1>7. Cong(Beta * x, Beta * r1, P)
  BY <1>0, <1>1, <1>5, CongBy
<1>8. Cong(s1, Beta * r1, P)
  <2>1. Cong(s1, m * m - u - v, P)
    BY <1>0, <1>1, <1>4, CongEquivalence
  <2>2. Cong(s1, Beta * x, P)
    BY <1>0, <1>1, <1>6, <2>1, CongEquivalence
  <2> QED
    BY <1>0, <1>1, <1>7, <2>2, CongEquivalence
<1> DEFINE c == a - s1
           d == u - Beta * r1
           e == l * (p1 - r1)
<1>9. /\ c \in Int /\ d \in Int /\ e \in Int /\ k1 * c \in Int /\ m * d \in Int
      /\ k1 * c - p2 \in Int /\ m * d - p2 \in Int /\ e - p2 \in Int
  BY <1>0, <1>1
<1>10. Cong(c, d, P)
  BY <1>0, <1>1, <1>8, CongArithmetic
<1>11. Follows(m * d - p2, e - p2, e, Beta * Beta * Beta, 1)
  BY <1>0 DEF Follows
<1> HIDE DEF m, c, d, e
<1>12. Cong(k1, m, P)
  BY DEF m
<1>13. Cong(k1 * c, m * d, P)
  BY <1>0, <1>1, <1>9, <1>10, <1>12, CongArithmetic
<1>14. Follows(k1 * c - p2, m * d - p2, 1, k1 * c, m * d)
  BY <1>9 DEF Follows
<1>15. Cong(k1 * c - p2, m * d - p2, P)
  BY <1>0, <1>9, <1>13, <1>14, CongBy
<1>16. Cong(m * d - p2, e - p2, P)
  BY <1>0, <1>9, <1>11, CongBy
<1>17. Cong(k1 * c - p2, e - p2, P)
  BY <1>0, <1>9, <1>15, <1>16, CongEquivalence
<1>18. Cong(s2, k1 * c - p2, P) /\ Cong(r2, e - p2, P)
  BY DEF c, e
<1>19. Cong(s2, e - p2, P)
  BY <1>0, <1>9, <1>17, <1>18, CongEquivalence
<1>20. Cong(e - p2, r2, P)
  BY <1>0, <1>9, <1>18, CongEquivalence
<1>21. Cong(s2, r2, P)
  BY <1>0, <1>9, <1>19, <1>20, CongEquivalence
<1> QED
  BY <1>8, <1>21

\* The image of a sum is the sum of the images.
LEMMA EndoAdd ==
  ASSUME NEW i \in Int, NEW j \in Int, Mult(i) # Inf, Mult(j) # Inf
  PROVE  AffineAdd(Endo(Mult(i)), Endo(Mult(j))) = Endo(AffineAdd(Mult(i), Mult(j)))
<1>1. PICK p1 \in 0 .. P-1, p2 \in 0 .. P-1 : Mult(i) = <<p1, p2>>
  BY OnTheCurve
<1>2. PICK q1 \in 0 .. P-1, q2 \in 0 .. P-1 : Mult(j) = <<q1, q2>>
  BY OnTheCurve
<1>3. p2 # 0
  BY <1>1, FinitePoint
<1> DEFINE a == (Beta * p1) % P
           b == (Beta * q1) % P
<1>4. /\ p1 \in Int /\ p2 \in Int /\ q1 \in Int /\ q2 \in Int
      /\ P \in Nat \ {0} /\ Prime(P) /\ 0 \in Int /\ Beta \in Int /\ ~Cong(Beta, 0, P)
  BY FieldFacts, BetaFacts
<1>5. /\ a \in 0 .. P-1 /\ a \in Int /\ Beta * p1 \in Int /\ Cong(a, Beta * p1, P)
      /\ b \in 0 .. P-1 /\ b \in Int /\ Beta * q1 \in Int /\ Cong(b, Beta * q1, P)
  BY <1>4, BetaTimes
<1>6. Endo(Mult(i)) = <<a, p2>> /\ Endo(Mult(j)) = <<b, q2>>
  BY <1>1, <1>2 DEF Endo
<1>7. p1 = q1 => a = b
  OBVIOUS
<1> HIDE DEF a, b
<1>8. p1 # q1 => a # b
  <2>1. SUFFICES ASSUME a = b PROVE p1 = q1
    OBVIOUS
  <2>2. Cong(Beta * p1, a, P)
    BY <1>4, <1>5, CongEquivalence
  <2>3. Cong(Beta * p1, Beta * q1, P)
    BY <1>4, <1>5, <2>1, <2>2, CongEquivalence
  <2>4. Cong(p1, q1, P)
    BY <1>4, <2>3, PrimeFactor
  <2> QED
    BY <1>4, <2>4, CongSmall
<1>9. CASE p1 = q1 /\ p2 # q2
  <2>1. AffineAdd(<<p1, p2>>, <<q1, q2>>) = Inf
    BY <1>9 DEF AffineAdd, Inf
  <2>2. AffineAdd(<<a, p2>>, <<b, q2>>) = Inf
    BY <1>7, <1>9 DEF AffineAdd, Inf
  <2> QED
    BY <1>1, <1>2, <1>6, <2>1, <2>2 DEF Endo
<1>10. CASE p1 = q1 => p2 = q2
  <2>1. PICK l \in Int :
          /\ AffineAdd(<<p1, p2>>, <<q1, q2>>) = Chord(<<p1, p2>>, <<q1, q2>>, l)
          /\ Cong(l * (q1 - p1), q2 - p2, P)
          /\ p1 = q1 => Cong(l * (2 * p2), 3 * p1 * p1, P)
    BY <1>3, <1>10, SumByLine
  <2>2. a = b => p2 = q2 /\ p2 # 0
    BY <1>3, <1>8, <1>10
  <2>3. PICK k1 \in Int :
          /\ AffineAdd(<<a, p2>>, <<b, q2>>) = Chord(<<a, p2>>, <<b, q2>>, k1)
          /\ Cong(k1 * (b - a), q2 - p2, P)
          /\ a = b => Cong(k1 * (2 * p2), 3 * a * a, P)
    BY <1>5, <2>2, SumByLine
  <2>4. PICK r1 \in 0 .. P-1, r2 \in 0 .. P-1 :
          /\ Chord(<<p1, p2>>, <<q1, q2>>, l) = <<r1, r2>> /\ r1 \in Int /\ r2 \in Int
          /\ Cong(r1, l * l - p1 - q1, P) /\ Cong(r2, l * (p1 - r1) - p2, P)
    BY <1>4, ChordPoint
  <2>5. PICK s1 \in 0 .. P-1, s2 \in 0 .. P-1 :
          /\ Chord(<<a, p2>>, <<b, q2>>, k1) = <<s1, s2>> /\ s1 \in Int /\ s2 \in Int
          /\ Cong(s1, k1 * k1 - a - b, P) /\ Cong(s2, k1 * (a - s1) - p2, P)
    BY <1>4, <1>5, ChordPoint
  <2>a. /\ OnLine(l, p1, p2, q1, q2) /\ OnLine(k1, a, p2, b, q2) /\ BetaOf(a, p1) /\ BetaOf(b, q1)
        /\ Third(r1, r2, l, p1, p2, q1) /\ Third(s1, s2, k1, a, p2, b)
    BY <1>5, <2>1, <2>3, <2>4, <2>5 DEF OnLine, BetaOf, Third
  <2>6. BetaSquareOf(k1, l)
    <3>1. p1 = q1 => p2 = q2 /\ p2 # 0
      BY <1>3, <1>10
    <3>2. p1 = q1 <=> a = b
      BY <1>7, <1>8
    <3> QED
      BY <1>5, <2>a, <3>1, <3>2, EndoSlope
  <2>7. Cong(s1, Beta * r1, P) /\ Cong(s2, r2, P)
    BY <1>4, <1>5, <2>4, <2>5, <2>a, <2>6, EndoChord
  <2>8. s2 = r2
    BY <1>4, <2>7, CongSmall
  <2>9. s1 = (Beta * r1) % P
    <3> DEFINE c == (Beta * r1) % P
    <3>1. c \in 0 .. P-1 /\ c \in Int /\ Beta * r1 \in Int /\ Cong(c, Beta * r1, P)
      BY <2>4, BetaTimes
    <3> HIDE DEF c
    <3>2. Cong(Beta * r1, c, P)
      BY <1>4, <3>1, CongEquivalence
    <3>3. Cong(s1, c, P)
      BY <1>4, <2>5, <2>7, <3>1, <3>2, CongEquivalence
    <3>4. s1 = c
      BY <1>4, <3>1, <3>3, CongSmall
    <3> QED
      BY <3>4 DEF c
  <2>10. Endo(<<r1, r2>>) = <<s1, s2>>
    BY <2>8, <2>9 DEF Endo, Inf
  <2> QED
    BY <1>1, <1>2, <1>6, <2>1, <2>3, <2>4, <2>5, <2>10
<1> QED
  BY <1>9, <1>10

\* It multiplies by Lambda, because it does so to the generator.
LEMMA EndoMult ==
  ASSUME NEW j \in Nat
  PROVE  Endo(Mult(j)) = Mult(Lambda * j)
<1> DEFINE S == {n \in Nat : Endo(Mult(n)) = Mult(Lambda * n)}
<1>0. Lambda \in Int
  BY BetaFacts
<1>1. Mult(1) = <<GX, GY>> /\ Mult(1) # Inf /\ Mult(0) = Inf /\ Endo(Mult(1)) = Mult(Lambda)
  <2>1. Mult(1) = <<GX, GY>> /\ Mult(0) = Inf /\ <<GX, GY>> # Inf
    BY GroupLaw DEF Inf
  <2>2. Mult(Lambda) = <<(Beta * GX) % P, GY>>
    BY GroupAssumption
  <2>3. Endo(<<GX, GY>>) = <<(Beta * GX) % P, GY>>
    BY <2>1 DEF Endo
  <2> QED
    BY <2>1, <2>2, <2>3
<1>2. 0 \in S
  <2>1. Lambda * 0 = 0
    BY <1>0
  <2> QED
    BY <1>1, <2>1 DEF Endo
<1>3. ASSUME NEW n \in Nat, n \in S PROVE n + 1 \in S
  <2>1. Endo(Mult(n)) = Mult(Lambda * n) /\ n \in Int /\ 1 \in Int
    BY <1>3
  <2>2. Lambda * n \in Int /\ Lambda * (n + 1) = Lambda * n + Lambda /\ n + 1 \in Nat
    BY <1>0
  <2>3. Mult(n + 1) = AffineAdd(Mult(n), Mult(1))
    BY <2>1, MultAdd
  <2>4. Mult(Lambda * (n + 1)) = AffineAdd(Mult(Lambda * n), Mult(Lambda))
    BY <1>0, <2>2, MultAdd
  <2>5. Endo(AffineAdd(Mult(n), Mult(1))) = AffineAdd(Endo(Mult(n)), Endo(Mult(1)))
    <3>1. CASE Mult(n) = Inf
      BY <3>1 DEF Endo, AffineAdd
    <3>2. CASE Mult(n) # Inf
      BY <1>1, <2>1, <3>2, EndoAdd
    <3> QED
      BY <3>1, <3>2
  <2> QED
    BY <1>1, <2>1, <2>2, <2>3, <2>4, <2>5
<1> HIDE DEF S
<1>4. Nat \subseteq S
  BY <1>2, <1>3, NatInductive
<1> QED
  BY <1>4 DEF S

LEMMA MulLambdaStands ==
  ASSUME NEW a, GeFine(a), NEW k1 \in Nat, GeStands(a, Mult(k1))
  PROVE  GeStands(ge_mul_lambda(a), Mult(Lambda * k1))
<1> DEFINE r == ge_mul_lambda(a)
           x == fe_mul(a.x, fe_set_int(Beta))
<1>0. a \in [x : Fes, y : Fes, infinity : BOOLEAN]
  BY DEF GeFine
<1>1. r.x = x /\ r.y = a.y /\ r.infinity = a.infinity
  BY <1>0 DEF ge_mul_lambda
<1> HIDE DEF r
<1>2. Mult(Lambda * k1) = Endo(Mult(k1)) /\ k1 \in Int
  BY EndoMult
<1>3. CASE Mult(k1) = Inf
  BY <1>1, <1>2, <1>3 DEF GeStands, Endo, r
<1>4. CASE Mult(k1) # Inf
  <2>1. PICK p1 \in 0 .. P-1, p2 \in 0 .. P-1 : Mult(k1) = <<p1, p2>>
    BY <1>2, <1>4, OnTheCurve
  <2>2. Val(a.x, p1) /\ a.infinity = FALSE /\ a.y.v = p2
    <3>1. Val(a.x, p1) /\ a.infinity = FALSE /\ Val(a.y, p2)
      BY <2>1, GeVal
    <3> QED
      BY <3>1, ValResidue
  <2>3. Val(fe_set_int(Beta), Beta) /\ p1 \in Int /\ Beta \in Int
    BY <2>2, BetaFacts, ValInt DEF Val
  <2>4. Val(x, Times(p1, Beta))
    BY <2>2, <2>3, ValMul
  <2> DEFINE c == (Beta * p1) % P
  <2>5. c \in 0 .. P-1 /\ c \in Int /\ Beta * p1 \in Int /\ Cong(c, Beta * p1, P)
    BY <2>3, BetaTimes
  <2>6. Times(p1, Beta) = Beta * p1
    BY <2>3 DEF Times
  <2>7. Mult(Lambda * k1) = <<c, p2>>
    BY <1>2, <1>4, <2>1 DEF Endo
  <2> HIDE DEF c, x
  <2>8. Cong(Beta * p1, c, P)
    BY <2>5, FieldFacts, CongEquivalence
  <2>9. Val(x, c)
    BY <2>4, <2>5, <2>6, <2>8, ValSame
  <2>10. x.v = c
    BY <2>5, <2>9, ValResidue
  <2>11. <<c, p2>> # Inf
    BY DEF Inf
  <2> QED
    BY <1>1, <2>2, <2>5, <2>7, <2>10, <2>11 DEF GeStands, r
<1> QED
  BY <1>3, <1>4

-----------------------------------------------------------------------------
(* The accumulator.                                                        *)

LEMMA OperandsStand ==
  /\ \A o \in GejOperands : o.k \in Int /\ Stands(o.b, Mult(o.k))
  /\ \A o \in GeOperands : o.k \in Int /\ GeStands(o.b, Mult(o.k))
<1>1. ASSUME NEW o \in GejOperands PROVE o.k \in Int /\ Stands(o.b, Mult(o.k))
  <2>1. PICK j \in Logs, z \in Zs :
          \/ o = [k |-> j, b |-> Fresh(j, z)]
          \/ o = [k |-> 2 * j, b |-> gej_double_var(Fresh(j, z)).r]
    BY <1>1 DEF GejOperands
  <2>2. Stands(Fresh(j, z), Mult(j)) /\ j \in Int
    BY FreshStands
  <2>3. Stands(gej_double_var(Fresh(j, z)).r, Mult(2 * j)) /\ 2 * j \in Int
    BY <2>2, DoubleStands
  <2> QED
    BY <2>1, <2>2, <2>3
<1>2. ASSUME NEW o \in GeOperands PROVE o.k \in Int /\ GeStands(o.b, Mult(o.k))
  <2>1. PICK j \in Logs :
          o = [k |-> j, b |-> FreshGe(j)] \/ o = [k |-> -j, b |-> ge_neg(FreshGe(j))]
    BY <1>2 DEF GeOperands
  <2>2. GeStands(FreshGe(j), Mult(j)) /\ j \in Int /\ GeFine(FreshGe(j))
    BY FreshGeStands, FreshGeFine, GroupAssumption
  <2>3. GeStands(ge_neg(FreshGe(j)), Mult(-j)) /\ -j \in Int
    BY <2>2, GeNegStands
  <2> QED
    BY <2>1, <2>2, <2>3
<1> QED
  BY <1>1, <1>2

\* The factor that Compute keeps is the one the operation computed.
LEMMA ComputeStands ==
  ASSUME NEW r, NEW j \in Int, Stands(r, Mult(j)), Compute(r, j)
  PROVE  k' \in 0 .. Order-1 /\ Stands(acc', Mult(k'))
<1>1. acc' = r /\ k' = j % Order
  BY DEF Compute
<1>2. j % Order \in 0 .. Order-1 /\ Mult(j % Order) = Mult(j)
  BY Reduced
<1> QED
  BY <1>1, <1>2

AccStands == GejFine(acc) /\ k \in 0 .. Order-1 /\ Stands(acc, Mult(k))

LEMMA InitStands == GroupInit => AccStands
<1>1. SUFFICES ASSUME GroupInit PROVE AccStands
  OBVIOUS
<1>2. acc = gej_set_infinity /\ k = 0 /\ 0 \in 0 .. Order-1
  BY <1>1, OrderFacts DEF GroupInit
<1>3. Stands(gej_set_infinity, Mult(0))
  BY GroupLaw DEF gej_set_infinity, Gej, Stands
<1> QED
  BY <1>2, <1>3, InfinityFine DEF AccStands

LEMMA StepStands ==
  AccStands /\ [GroupNext]_groupVars => AccStands'
<1> SUFFICES ASSUME AccStands, [GroupNext]_groupVars
             PROVE  AccStands'
  OBVIOUS
<1>0. /\ GejFine(acc) /\ k \in 0 .. Order-1 /\ k \in Int /\ k \in Nat /\ Stands(acc, Mult(k))
      /\ GeFine(ge_set_gej(acc)) /\ GeStands(ge_set_gej(acc), Mult(k))
  <2>1. GejFine(acc) /\ k \in 0 .. Order-1 /\ Stands(acc, Mult(k))
    BY DEF AccStands
  <2>2. k \in Int /\ k \in Nat
    BY <2>1, OrderFacts
  <2> QED
    BY <2>1, <2>2, SetGejFine, SetGejStands
<1>a. GejFine(acc)'
  BY <1>0, StepFine
<1> SUFFICES k' \in 0 .. Order-1 /\ Stands(acc', Mult(k'))
  BY <1>a DEF AccStands, GejFine, Fine, Stands, At, Val
<1>1. CASE SetInfinity
  <2>1. Compute(gej_set_infinity, 0)
    BY <1>1 DEF SetInfinity
  <2>2. Stands(gej_set_infinity, Mult(0)) /\ 0 \in Int
    BY GroupLaw DEF gej_set_infinity, Gej, Stands
  <2> QED
    BY <2>1, <2>2, ComputeStands
<1>2. CASE SetGe
  <2>1. PICK o \in GeOperands : Compute(gej_set_ge(o.b), o.k)
    BY <1>2 DEF SetGe
  <2>2. o.k \in Int /\ Stands(gej_set_ge(o.b), Mult(o.k))
    BY OperandsStand, SetGeStands
  <2> QED
    BY <2>1, <2>2, ComputeStands
<1>3. CASE Double
  <2>1. Compute(gej_double_var(acc).r, 2 * k) /\ 2 * k \in Int
    BY <1>0, <1>3 DEF Double
  <2>2. Stands(gej_double_var(acc).r, Mult(2 * k))
    BY <1>0, DoubleStands
  <2> QED
    BY <2>1, <2>2, ComputeStands
<1>4. CASE Neg
  <2>1. Compute(gej_neg(acc), -k) /\ -k \in Int
    BY <1>0, <1>4 DEF Neg
  <2>2. Stands(gej_neg(acc), Mult(-k))
    BY <1>0, NegStands
  <2> QED
    BY <2>1, <2>2, ComputeStands
<1>5. CASE AddVar
  <2>1. PICK o \in GejOperands : Compute(gej_add_var(acc, o.b).r, k + o.k)
    BY <1>5 DEF AddVar
  <2>2. o.k \in Int /\ Stands(o.b, Mult(o.k)) /\ GejFine(o.b)
    BY OperandsStand, OperandsFine
  <2>3. Stands(gej_add_var(acc, o.b).r, Mult(k + o.k)) /\ k + o.k \in Int
    BY <1>0, <2>2, AddVarStands
  <2> QED
    BY <2>1, <2>3, ComputeStands
<1>6. CASE AddGeVar
  <2>1. PICK o \in GeOperands : Compute(gej_add_ge_var(acc, o.b).r, k + o.k)
    BY <1>6 DEF AddGeVar
  <2>2. o.k \in Int /\ GeStands(o.b, Mult(o.k))
    BY OperandsStand
  <2>3. Stands(gej_add_ge_var(acc, o.b).r, Mult(k + o.k)) /\ k + o.k \in Int
    BY <1>0, <2>2, AddGeVarStands
  <2> QED
    BY <2>1, <2>3, ComputeStands
<1>7. CASE AddZinvVar
  <2>1. PICK j \in Logs, z \in Zs :
          Compute(gej_add_zinv_var(acc, Fresh(j, z), fe_inv(fe_set_int(z))), k + j)
    BY <1>7 DEF AddZinvVar
  <2> DEFINE b == Fresh(j, z)
             zi == fe_inv(fe_set_int(z))
  <2>2. j \in Int /\ Stands(b, Mult(j)) /\ (b.infinity = FALSE => zi = fe_inv(b.z))
    BY FreshStands
  <2> HIDE DEF b, zi
  <2>3. Stands(gej_add_zinv_var(acc, b, zi), Mult(k + j))
    BY <1>0, <2>2, AddZinvVarStands
  <2>4. Compute(gej_add_zinv_var(acc, b, zi), k + j) /\ k + j \in Int
    BY <1>0, <2>1, <2>2 DEF b, zi
  <2> QED
    BY <2>3, <2>4, ComputeStands
<1>8. CASE AddGe
  <2>1. PICK o \in GeOperands : ~o.b.infinity /\ Compute(gej_add_ge(acc, o.b), k + o.k)
    BY <1>8 DEF AddGe
  <2>2. o.k \in Int /\ GeStands(o.b, Mult(o.k)) /\ GeFine(o.b)
    BY OperandsStand, OperandsFine
  <2>3. o.b.infinity = FALSE
    BY <2>1, <2>2 DEF GeFine
  <2> DEFINE b == o.b
             j == o.k
  <2>4. /\ j \in Int /\ GeStands(b, Mult(j)) /\ GeFine(b) /\ b.infinity = FALSE
        /\ Compute(gej_add_ge(acc, b), k + j)
    BY <2>1, <2>2, <2>3
  <2> HIDE DEF b, j
  <2>5. Stands(gej_add_ge(acc, b), Mult(k + j))
    BY <1>0, <2>4, AddGeStands
  <2>6. k + j \in Int
    BY <1>0, <2>4
  <2> QED
    BY <2>4, <2>5, <2>6, ComputeStands
<1>9. CASE Rescale
  <2>1. PICK z \in Zs : Compute(gej_rescale(acc, fe_set_int(z)), k)
    BY <1>9 DEF Rescale
  <2>2. z \in 1 .. P-1
    BY GroupAssumption
  <2>3. Stands(gej_rescale(acc, fe_set_int(z)), Mult(k))
    BY <1>0, <2>2, RescaleStands
  <2> QED
    BY <1>0, <2>1, <2>3, ComputeStands
<1>10. Stands(gej_set_ge(ge_set_gej(acc)), Mult(k))
  BY <1>0, SetGeStands
<1>11. CASE ToAffine
  <2>1. Compute(gej_set_ge(ge_set_gej(acc)), k)
    BY <1>11 DEF ToAffine, ge_set_gej_a
  <2> QED
    BY <1>0, <1>10, <2>1, ComputeStands
<1>12. CASE ToAffineVar
  <2>1. Compute(ge_set_gej_var_a(acc), k)
    BY <1>12 DEF ToAffineVar
  <2>2. Stands(ge_set_gej_var_a(acc), Mult(k))
    BY <1>0, <1>10 DEF ge_set_gej_var_a, ge_set_gej_a
  <2> QED
    BY <1>0, <2>1, <2>2, ComputeStands
<1>13. CASE MulLambda
  <2> DEFINE b == ge_mul_lambda(ge_set_gej(acc))
  <2>1. GeStands(b, Mult(Lambda * k)) /\ Lambda * k \in Int
    <3>1. Lambda * k \in Int
      BY <1>0, BetaFacts
    <3> QED
      BY <1>0, <3>1, MulLambdaStands
  <2>2. Compute(gej_set_ge(b), Lambda * k)
    BY <1>13 DEF MulLambda
  <2> HIDE DEF b
  <2>3. Stands(gej_set_ge(b), Mult(Lambda * k))
    BY <2>1, SetGeStands
  <2> QED
    BY <2>1, <2>2, <2>3, ComputeStands
<1>14. CASE UNCHANGED groupVars
  BY <1>0, <1>14 DEF groupVars
<1> QED
  BY <1>1, <1>2, <1>3, <1>4, <1>5, <1>6, <1>7, <1>8, <1>9, <1>11, <1>12, <1>13, <1>14 DEF GroupNext

\* Whatever sequence of the operations of group_impl.h a caller performs, on
\* any curve, with whatever second operands and Z coordinates, the accumulator
\* stands for the multiple of the generator that the operations compute: the
\* doubling, the three variable-time additions, the constant-time one with its
\* alternative slope, negation, rescaling, the conversions and the endomorphism
\* agree with the chord-and-tangent law, and every special case (same point,
\* opposite points, infinity on either side, y1 = -y2 with x1 # x2) is taken
\* when it must be.
THEOREM AccAlwaysMultiple == GroupSpec => []AccIsMultiple
<1>1. GroupInit => AccStands
  BY InitStands
<1>2. AccStands /\ [GroupNext]_groupVars => AccStands'
  BY StepStands
<1>3. AccStands => AccIsMultiple
  <2>1. SUFFICES ASSUME AccStands PROVE AccIsMultiple
    OBVIOUS
  <2>2. k \in Int /\ Stands(acc, Mult(k))
    BY <2>1, OrderFacts DEF AccStands
  <2> QED
    BY <2>2, AffineOfStands DEF AccIsMultiple
<1> QED
  BY <1>1, <1>2, <1>3, PTL DEF GroupSpec

-----------------------------------------------------------------------------
(* Reading points: the curve's equation and square roots.                  *)

\* The exponent of fe_sqrt.
Quarter == (P + 1) \div 4

LEMMA QuarterFacts == Quarter \in Nat /\ 4 * Quarter = P + 1
<1>1. P \in Nat /\ P % 12 = 7
  BY FieldAssumption
<1> QED
  BY <1>1 DEF Quarter

\* fe_sqrt takes a power.
LEMMA RootIs ==
  ASSUME NEW x \in 0 .. P-1
  PROVE  Root0[x] = Power(x, Quarter, P)
<1>1. P \in Nat /\ Quarter \in 0 .. P
  BY QuarterFacts, FieldFacts
<1>2. PICK g : Powers(g, x, P, P)
  BY <1>1, PowersExist
<1>3. ASSUME NEW h, h = [e \in 0 .. P |-> IF e = 0 THEN 1 ELSE (x * h[e-1]) % P]
      PROVE  h = g
  <2>1. Powers(h, x, P, P)
    BY <1>3 DEF Powers
  <2>2. \A i \in 0 .. P : h[i] = g[i]
    BY <1>1, <1>2, <2>1, PowersUnique
  <2>3. g = [i \in 0 .. P |-> g[i]] /\ h = [i \in 0 .. P |-> h[i]]
    BY <1>2, <2>1 DEF Powers
  <2> QED
    BY <2>2, <2>3
<1>4. g = [e \in 0 .. P |-> IF e = 0 THEN 1 ELSE (x * g[e-1]) % P]
  BY <1>2 DEF Powers
<1>5. (CHOOSE h : h = [e \in 0 .. P |-> IF e = 0 THEN 1 ELSE (x * h[e-1]) % P]) = g
  BY <1>3, <1>4
<1>6. Root0[x] = g[Quarter]
  BY <1>5 DEF Root0, Quarter
<1>7. g[Quarter] = Power(x, Quarter, P)
  BY <1>1, <1>2, PowerIs
<1> QED
  BY <1>6, <1>7

\* The root that fe_sqrt finds of a square is a root, and itself a square.
LEMMA RootOfSquare ==
  ASSUME NEW a \in Int, ~Cong(a, 0, P), NEW x \in 0 .. P-1, Cong(x, a * a, P),
         NEW s, s = Power(a, Quarter, P)
  PROVE  /\ Root0[x] \in 0 .. P-1 /\ Root0[x] \in Int /\ s \in Int
         /\ Cong(Root0[x], s * s, P) /\ Cong(Root0[x] * Root0[x], a * a, P)
<1>1. P \in Nat /\ P >= 2 /\ P \in Nat \ {0} /\ Prime(P) /\ Quarter \in Nat /\ x \in Int
  BY FieldFacts, QuarterFacts
<1>2. PICK r : r = Root0[x]
  OBVIOUS
<1>3. r = Power(x, Quarter, P)
  BY <1>2, RootIs
<1>4. r \in 0 .. P-1 /\ r \in Int
  BY <1>1, <1>3, PowerType
<1>5. s \in Int /\ Cong((s * s) * (s * s), a * a, P)
  BY <1>1, QuarterFacts, FourthPower
<1>6. Cong(r, s * s, P)
  BY <1>1, <1>3, PowerProduct
<1>7. s * s \in Int /\ r * r \in Int /\ (s * s) * (s * s) \in Int /\ a * a \in Int
  BY <1>4, <1>5
<1>8. Cong(r * r, (s * s) * (s * s), P)
  BY <1>1, <1>4, <1>6, <1>7, CongArithmetic
<1>9. Cong(r * r, a * a, P)
  BY <1>1, <1>5, <1>7, <1>8, CongEquivalence
<1> QED
  BY <1>2, <1>4, <1>5, <1>6, <1>9

\* A number times a fourth power has a root exactly if the number is the root
\* that fe_sqrt finds of its square.
LEMMA RootOfScaled ==
  ASSUME NEW a \in Int, ~Cong(a, 0, P), NEW z \in Int, ~Cong(z, 0, P),
         NEW x \in 0 .. P-1, Cong(x, a * a, P), NEW y \in 0 .. P-1, Cong(y, a * ((z * z) * (z * z)), P)
  PROVE  /\ Root0[y] \in Int
         /\ Cong(Root0[y] * Root0[y], y, P) <=> Cong(Root0[x], a, P)
<1>1. P \in Nat /\ P >= 2 /\ P \in Nat \ {0} /\ Prime(P) /\ Quarter \in Nat /\ y \in Int
  BY FieldFacts, QuarterFacts
<1>2. PICK s : s = Power(a, Quarter, P)
  OBVIOUS
<1>3. PICK m : m = Power(z, Quarter, P)
  OBVIOUS
<1>4. PICK r : r = Root0[x]
  OBVIOUS
<1>5. PICK u : u = Root0[y]
  OBVIOUS
<1>6. r \in Int /\ s \in Int /\ Cong(r, s * s, P)
  BY <1>2, <1>4, RootOfSquare
<1>7. m \in Int /\ Cong((m * m) * (m * m), z * z, P)
  BY <1>1, <1>3, QuarterFacts, FourthPower
<1>8. u \in Int /\ u = Power(y, Quarter, P)
  BY <1>1, <1>5, RootIs, PowerType
<1> DEFINE z2 == z * z
           z4 == z2 * z2
           m2 == m * m
           m4 == m2 * m2
<1>9. z2 \in Int /\ z4 \in Int /\ m2 \in Int /\ m4 \in Int
  BY <1>7
<1>10. ~Cong(z4, 0, P)
  <2>1. ~Cong(z2, 0, P)
    BY <1>1, PrimeProduct
  <2> HIDE DEF z2
  <2> QED
    BY <1>1, <1>9, <2>1, PrimeProduct
<1>11. Cong(u, s * m4, P)
  <2>1. PICK b \in Int : b = Power(z2, Quarter, P)
    BY <1>1, <1>9, PowerType
  <2>2. PICK c \in Int : c = Power(z4, Quarter, P)
    BY <1>1, <1>9, PowerType
  <2>3. Cong(z2, z * z, P)
    BY <1>1, <1>9, CongEquivalence
  <2>4. Cong(b, m2, P)
    BY <1>1, <1>3, <1>9, <2>1, <2>3, PowerProduct
  <2>5. Cong(z4, z2 * z2, P)
    BY <1>1, <1>9, CongEquivalence
  <2> HIDE DEF z4, z2, m4, m2
  <2>6. Cong(c, b * b, P)
    BY <1>1, <1>9, <2>1, <2>2, <2>5, PowerProduct
  <2>7. Cong(b * b, m2 * m2, P) /\ b * b \in Int /\ m2 * m2 \in Int
    BY <1>1, <1>9, <2>4, CongArithmetic
  <2>8. Cong(c, m4, P)
    BY <1>1, <1>9, <2>6, <2>7, CongEquivalence DEF m4
  <2>9. Cong(u, s * c, P)
    <3>1. Cong(y, a * z4, P)
      BY DEF z4, z2
    <3> QED
      BY <1>1, <1>2, <1>8, <1>9, <2>2, <3>1, PowerProduct
  <2>10. Cong(s * c, s * m4, P) /\ s * c \in Int /\ s * m4 \in Int
    <3>1. Cong(s, s, P)
      BY <1>1, <1>6, CongEquivalence
    <3>2. Cong(s * c, s * m4, P)
      BY <1>1, <1>6, <1>9, <2>8, <3>1, CongArithmetic
    <3> QED
      BY <1>6, <1>9, <3>2
  <2> QED
    BY <1>1, <1>8, <2>9, <2>10, CongEquivalence
<1> HIDE DEF z4, m4
<1>12. Cong(m4 * m4, z4, P) /\ m4 * m4 \in Int
  <2>1. Cong(m4, z2, P)
    BY <1>7 DEF m4
  <2> HIDE DEF z2, m2
  <2> QED
    BY <1>1, <1>9, <2>1, CongArithmetic DEF z4
<1> HIDE DEF z2, m2
<1>13. Cong(u * u, z4 * r, P)
  <2>1. /\ s * m4 \in Int /\ (s * m4) * (s * m4) \in Int /\ s * s \in Int /\ (s * s) * (m4 * m4) \in Int
        /\ r * z4 \in Int /\ z4 * r \in Int /\ u * u \in Int
    BY <1>6, <1>8, <1>9
  <2>2. Cong(u * u, (s * m4) * (s * m4), P)
    BY <1>1, <1>8, <1>11, <2>1, CongArithmetic
  <2>3. (s * m4) * (s * m4) = (s * s) * (m4 * m4) /\ r * z4 = z4 * r
    BY <1>6, <1>9
  <2>4. Cong(s * s, r, P)
    BY <1>1, <1>6, <2>1, CongEquivalence
  <2>5. Cong((s * s) * (m4 * m4), r * z4, P)
    BY <1>1, <1>6, <1>9, <1>12, <2>1, <2>4, CongArithmetic
  <2>6. Cong((s * m4) * (s * m4), z4 * r, P)
    BY <2>3, <2>5
  <2> QED
    BY <1>1, <2>1, <2>2, <2>6, CongEquivalence
<1>14. Cong(y, z4 * a, P)
  <2>1. a * z4 = z4 * a
    BY <1>9
  <2> QED
    BY <2>1 DEF z4, z2
<1>15. z4 * a \in Int /\ z4 * r \in Int /\ u * u \in Int
  BY <1>6, <1>8, <1>9
<1>16. ASSUME Cong(u * u, y, P) PROVE Cong(r, a, P)
  <2>1. Cong(z4 * r, u * u, P) /\ Cong(u * u, z4 * a, P)
    BY <1>1, <1>13, <1>14, <1>15, <1>16, CongEquivalence
  <2>2. Cong(z4 * r, z4 * a, P)
    BY <1>1, <1>15, <2>1, CongEquivalence
  <2> QED
    BY <1>1, <1>6, <1>9, <1>10, <2>2, PrimeFactor
<1>17. ASSUME Cong(r, a, P) PROVE Cong(u * u, y, P)
  <2>1. Cong(z4 * r, z4 * a, P)
    BY <1>1, <1>6, <1>9, <1>17, CongEquivalence, CongArithmetic
  <2>2. Cong(u * u, z4 * a, P) /\ Cong(z4 * a, y, P)
    BY <1>1, <1>13, <1>14, <1>15, <2>1, CongEquivalence
  <2> QED
    BY <1>1, <1>15, <2>2, CongEquivalence
<1> QED
  BY <1>4, <1>5, <1>8, <1>16, <1>17

\* fe_equal_var compares residues.
LEMMA ValEqual ==
  ASSUME NEW a, NEW b, NEW i, NEW j, Val(a, i), Val(b, j)
  PROVE  fe_equal_var(a, b) <=> Cong(i, j, P)
<1>1. P \in Nat \ {0} /\ i \in Int /\ j \in Int /\ -i + j \in Int /\ 0 \in Int
  BY FieldFacts DEF Val
<1>2. Val(fe_add(fe_negate(a, 1), b), Plus(Minus(i), j))
  BY ValNegate, ValAdd
<1>3. fe_equal_var(a, b) <=> Cong(-i + j, 0, P)
  BY <1>2, ValZero DEF fe_equal_var, Plus, Minus
<1>4. Follows(-i + j, 0, -1, i, j) /\ Follows(i, j, -1, -i + j, 0) /\ -1 \in Int
  BY <1>1 DEF Follows
<1>5. Cong(i, j, P) => Cong(-i + j, 0, P)
  BY <1>1, <1>4, CongBy
<1>6. Cong(-i + j, 0, P) => Cong(i, j, P)
  BY <1>1, <1>4, CongBy
<1> QED
  BY <1>3, <1>5, <1>6

\* The two sides of the curve's equation.
LEMMA ValEquation ==
  ASSUME NEW y2, NEW x3, NEW c, NEW i, NEW j, NEW l, Val(y2, i), Val(x3, j), Val(c, l)
  PROVE  CurveEquation(y2, x3, c) <=> Cong(i, j + l, P)
<1>1. Val(fe_add(x3, c), j + l)
  BY ValAdd DEF Plus
<1>2. fe_normalize_weak(fe_add(x3, c)).v = fe_add(x3, c).v
  BY DEF fe_normalize_weak, fe_add, Elem
<1>3. Val(fe_normalize_weak(fe_add(x3, c)), j + l)
  BY <1>1, <1>2 DEF Val
<1> QED
  BY <1>3, ValEqual DEF CurveEquation

\* The equation of the curve as a congruence.
LEMMA EquationOf ==
  ASSUME NEW j \in Int, NEW p1 \in 0 .. P-1, NEW p2 \in 0 .. P-1, Mult(j) = <<p1, p2>>
  PROVE  /\ p1 \in Int /\ p2 \in Int /\ CURVE_B \in Int /\ CURVE_B \in Nat
         /\ Cong(p2 * p2, p1 * p1 * p1 + CURVE_B, P) /\ ~Cong(p2, 0, P)
<1>1. P \in Nat \ {0} /\ p1 \in Int /\ p2 \in Int /\ CURVE_B \in Int /\ CURVE_B \in Nat
  BY FieldFacts, CurveAssumption
<1>2. p2 # 0 /\ OnCurve(<<p1, p2>>) /\ <<p1, p2>> # Inf
  BY FinitePoint DEF Inf
<1>3. (p2 * p2) % P = (p1 * p1 * p1 + CURVE_B) % P
  BY <1>2 DEF OnCurve
<1>4. PICK u \in Int, v \in Int : u = p2 * p2 /\ v = p1 * p1 * p1 + CURVE_B
  BY <1>1
<1>5. Cong(u, v, P)
  BY <1>1, <1>3, <1>4, CongMod
<1>6. ~Cong(p2, 0, P)
  BY <1>2, ResidueZero
<1> QED
  BY <1>1, <1>4, <1>5, <1>6

\* A Jacobian point of the curve is recognised.
LEMMA GejValid ==
  ASSUME NEW a, NEW z \in Int, NEW j \in Int, NEW p1 \in 0 .. P-1, NEW p2 \in 0 .. P-1,
         Mult(j) = <<p1, p2>>, At(a, z, p1, p2)
  PROVE  gej_is_valid_var(a)
<1>1. /\ P \in Nat \ {0} /\ p1 \in Int /\ p2 \in Int /\ CURVE_B \in Int
      /\ Cong(p2 * p2, p1 * p1 * p1 + CURVE_B, P)
  BY EquationOf, FieldFacts
<1>2. a.infinity = FALSE /\ Val(a.z, z) /\ Val(a.x, p1 * z * z) /\ Val(a.y, p2 * z * z * z)
  BY DEF At
<1> DEFINE y2 == fe_sqr(a.y)
           x3 == fe_mul(fe_sqr(a.x), a.x)
           z2 == fe_sqr(a.z)
           c  == fe_mul_int(fe_mul(fe_sqr(z2), z2), CURVE_B)
           X  == p1 * z * z
           Y  == p2 * z * z * z
           Z2 == Times(z, z)
           C  == Times(Times(Times(Z2, Z2), Z2), CURVE_B)
<1>3. Val(y2, Times(Y, Y)) /\ Val(x3, Times(Times(X, X), X))
  BY <1>2, ValSqr, ValMul
<1>4. Val(z2, Z2)
  BY <1>2, ValSqr
<1> HIDE DEF z2
<1>5. Val(c, C)
  BY <1>1, <1>4, ValSqr, ValMul, ValMulInt
<1> DEFINE s == (z * z * z) * (z * z * z)
<1>6. /\ Times(Y, Y) = (p2 * p2) * s
      /\ Times(Times(X, X), X) + C = (p1 * p1 * p1 + CURVE_B) * s
      /\ s \in Int
  BY <1>1 DEF Times
<1> HIDE DEF s, X, Y, C
<1>7. Follows((p2 * p2) * s, (p1 * p1 * p1 + CURVE_B) * s, s, p2 * p2, p1 * p1 * p1 + CURVE_B)
  BY <1>1, <1>6 DEF Follows
<1>8. /\ (p2 * p2) * s \in Int /\ (p1 * p1 * p1 + CURVE_B) * s \in Int
      /\ p2 * p2 \in Int /\ p1 * p1 * p1 + CURVE_B \in Int
  BY <1>1, <1>6
<1>9. Cong((p2 * p2) * s, (p1 * p1 * p1 + CURVE_B) * s, P)
  BY <1>1, <1>6, <1>7, <1>8, CongBy
<1>10. Cong(Times(Y, Y), Times(Times(X, X), X) + C, P)
  BY <1>6, <1>9
<1>11. CurveEquation(y2, x3, c)
  BY <1>3, <1>5, <1>10, ValEquation
<1> QED
  BY <1>2, <1>11 DEF gej_is_valid_var, z2

\* So is an affine one.
LEMMA GeValid ==
  ASSUME NEW a, NEW j \in Int, NEW p1 \in 0 .. P-1, NEW p2 \in 0 .. P-1,
         Mult(j) = <<p1, p2>>, GeStands(a, <<p1, p2>>)
  PROVE  ge_is_valid_var(a)
<1>1. /\ P \in Nat \ {0} /\ p1 \in Int /\ p2 \in Int /\ CURVE_B \in Int
      /\ Cong(p2 * p2, p1 * p1 * p1 + CURVE_B, P)
  BY EquationOf, FieldFacts
<1>2. a.infinity = FALSE /\ a.x.v = p1 /\ a.y.v = p2
  <2>1. <<p1, p2>> # Inf
    BY DEF Inf
  <2> QED
    BY <2>1 DEF GeStands
<1>3. Val(a.x, p1) /\ Val(a.y, p2)
  BY <1>1, <1>2, CongEquivalence DEF Val
<1>4. Val(fe_sqr(a.y), Times(p2, p2)) /\ Val(fe_mul(fe_sqr(a.x), a.x), Times(Times(p1, p1), p1))
  BY <1>3, ValSqr, ValMul
<1>5. Val(fe_set_int(CURVE_B), CURVE_B)
  BY <1>1, ValInt
<1>6. Cong(Times(p2, p2), Times(Times(p1, p1), p1) + CURVE_B, P)
  BY <1>1 DEF Times
<1>7. CurveEquation(fe_sqr(a.y), fe_mul(fe_sqr(a.x), a.x), fe_set_int(CURVE_B))
  BY <1>4, <1>5, <1>6, ValEquation
<1> QED
  BY <1>2, <1>7 DEF ge_is_valid_var

\* The x of a Jacobian point is compared without leaving the scale.
LEMMA EqX ==
  ASSUME NEW a, NEW z \in Int, NEW p1 \in 0 .. P-1, NEW p2 \in 0 .. P-1, At(a, z, p1, p2),
         a.x \in Fes, NEW v \in 0 .. P-1
  PROVE  gej_eq_x_var(fe_set_int(v), a) <=> v = p1
<1>1. P \in Nat \ {0} /\ Prime(P) /\ p1 \in Int /\ v \in Int
  BY FieldFacts
<1>2. ~Cong(z, 0, P) /\ Val(a.z, z) /\ Val(a.x, p1 * z * z)
  BY DEF At
<1>3. Val(fe_mul(fe_sqr(a.z), fe_set_int(v)), Times(Times(z, z), v))
  BY <1>1, <1>2, ValInt, ValSqr, ValMul
<1>4. Val(fe_normalize_weak(a.x), p1 * z * z)
  BY <1>2, ValWeak
<1>5. gej_eq_x_var(fe_set_int(v), a) <=> Cong(Times(Times(z, z), v), p1 * z * z, P)
  BY <1>3, <1>4, ValEqual DEF gej_eq_x_var
<1>6. PICK s \in Int : s = z * z
  OBVIOUS
<1>7. ~Cong(s, 0, P)
  BY <1>1, <1>2, <1>6, PrimeProduct
<1>8. Times(Times(z, z), v) = s * v /\ p1 * z * z = s * p1
  BY <1>1, <1>6 DEF Times
<1>9. Cong(s * v, s * p1, P) => v = p1
  BY <1>1, <1>7, PrimeFactor, CongSmall
<1>10. v = p1 => Cong(s * v, s * p1, P)
  BY <1>1, CongEquivalence
<1> QED
  BY <1>5, <1>8, <1>9, <1>10

\* What both decompressions start from: the square of y.
LEMMA SquareOf ==
  ASSUME NEW j \in Int, NEW p1 \in 0 .. P-1, NEW p2 \in 0 .. P-1, Mult(j) = <<p1, p2>>,
         NEW c, c = fe_add(fe_set_int(CURVE_B), fe_mul(fe_set_int(p1), fe_sqr(fe_set_int(p1))))
  PROVE  c.v \in 0 .. P-1 /\ Cong(c.v, p2 * p2, P) /\ Fine(c, 2)
<1>1. /\ P \in Nat \ {0} /\ p1 \in Int /\ p2 \in Int /\ CURVE_B \in Int
      /\ Cong(p2 * p2, p1 * p1 * p1 + CURVE_B, P)
  BY EquationOf, FieldFacts
<1>2. Val(c, Plus(CURVE_B, Times(p1, Times(p1, p1))))
  BY <1>1, ValInt, ValSqr, ValMul, ValAdd
<1>3. c.v \in 0 .. P-1 /\ c.v \in Int /\ Cong(c.v, CURVE_B + p1 * (p1 * p1), P)
  BY <1>1, <1>2 DEF Val, Plus, Times
<1>4. PICK u \in Int, v \in Int : u = p2 * p2 /\ v = p1 * p1 * p1 + CURVE_B
  BY <1>1
<1>5. CURVE_B + p1 * (p1 * p1) = v
  BY <1>1, <1>4
<1>6. Cong(c.v, u, P)
  BY <1>1, <1>3, <1>4, <1>5, CongEquivalence
<1>7. Fine(fe_set_int(CURVE_B), 1) /\ Fine(fe_set_int(p1), 1)
  BY <1>1, FineInt
<1>8. Fine(fe_mul(fe_set_int(p1), fe_sqr(fe_set_int(p1))), 1)
  BY <1>7, FineSqr, FineMul
<1>9. Fine(c, 1 + 1)
  BY <1>7, <1>8, FineAdd
<1> QED
  BY <1>3, <1>4, <1>6, <1>9

\* The number under the root of ge_set_xquad.
UnderRoot(p1) == fe_add(fe_set_int(CURVE_B), fe_mul(fe_set_int(p1), fe_sqr(fe_set_int(p1))))

\* The point with x = p1 whose y is R, with everything checked.
Decompressed(r, p1, R) ==
  /\ r \in [x : Fes, y : Fes, infinity : BOOLEAN]
  /\ r.infinity = FALSE /\ r.x.v = p1 /\ r.x.ok = TRUE /\ r.y.v = R /\ r.y.ok = TRUE
  /\ r.x.m = 1 /\ r.y.m \in 1 .. 2

\* That it is one of the two, as ge_set_xquad returns it.
Found(xq, p1, p2, R) ==
  /\ xq.has = TRUE /\ Decompressed(xq.r, p1, R)
  /\ R \in 0 .. P-1 /\ (R = p2 \/ R = P - p2)

\* ge_set_xquad finds one of the two points with this x.
LEMMA XquadFinds ==
  ASSUME NEW j \in Int, NEW p1 \in 0 .. P-1, NEW p2 \in 0 .. P-1, Mult(j) = <<p1, p2>>,
         NEW xq, xq = ge_set_xquad(fe_set_int(p1)), NEW R, R = Root0[UnderRoot(p1).v]
  PROVE  Found(xq, p1, p2, R)
<1> DEFINE c == UnderRoot(p1)
<1>1. c.v \in 0 .. P-1 /\ Cong(c.v, p2 * p2, P) /\ Fine(c, 2)
  BY SquareOf DEF UnderRoot
<1>2. P \in Nat \ {0} /\ p2 \in Int /\ p1 \in Int /\ ~Cong(p2, 0, P)
  BY EquationOf, FieldFacts
<1> HIDE DEF c
<1>3. R = Root0[c.v]
  BY DEF c
<1>4. R \in 0 .. P-1 /\ R \in Int /\ Cong(R * R, p2 * p2, P)
  BY <1>1, <1>2, <1>3, RootOfSquare
<1>5. PICK u \in Int, v \in Int : u = R * R /\ v = p2 * p2
  BY <1>2, <1>4
<1>6. u % P = v % P /\ c.v % P = v % P /\ c.v % P = c.v
  <2>1. PICK w \in 0 .. P-1 : w = c.v
    BY <1>1
  <2>2. w \in Int /\ Cong(w, v, P) /\ Cong(u, v, P)
    BY <1>1, <1>2, <1>4, <1>5, <2>1
  <2>3. u % P = v % P /\ w % P = v % P /\ w % P = w
    BY <1>2, <2>2, CongMod
  <2> QED
    BY <2>1, <2>3
<1>7. ((R * R) % P = c.v) = TRUE
  BY <1>5, <1>6
<1>8. c.ok = TRUE /\ c.m <= 2 /\ c.m \in Nat
  BY <1>1, FineFacts
<1>9. (c.ok /\ c.m <= MaxMul) = TRUE
  BY <1>8 DEF MaxMul
<1>10. PICK s : s = fe_sqrt(c)
  OBVIOUS
<1>11. s.has = TRUE /\ s.root.v = R /\ s.root.ok = TRUE /\ s.root.m = 1 /\ s.root \in Fes
  BY <1>3, <1>4, <1>7, <1>9, <1>10 DEF fe_sqrt, Elem, Fes
<1>12. R = p2 \/ R = P - p2
  <2>1. (R * R) % P = (p2 * p2) % P
    BY <1>5, <1>6
  <2>2. CASE R > p2
    BY <1>2, <1>4, <2>1, <2>2, SameSquare
  <2>3. CASE p2 > R
    <3>1. p2 + R = P
      BY <1>4, <2>1, <2>3, SameSquare
    <3> QED
      BY <1>2, <1>4, <3>1
  <2> QED
    BY <1>2, <1>4, <2>2, <2>3
<1>13. PICK x : x = fe_set_int(p1)
  OBVIOUS
<1>14. x.v = p1 /\ x.ok = TRUE /\ x.m = 1 /\ x \in Fes
  <2>1. p1 % P = p1
    BY <1>2, CongMod
  <2> QED
    BY <1>13, <2>1 DEF fe_set_int, Elem, Fes
<1>15. xq.has = s.has /\ xq.r = Ge(x, s.root, FALSE)
  BY <1>10, <1>13 DEF ge_set_xquad, c, UnderRoot
<1>16. Decompressed(xq.r, p1, R)
  BY <1>11, <1>14, <1>15 DEF Decompressed, Ge
<1> QED
  BY <1>4, <1>11, <1>12, <1>15, <1>16 DEF Found

\* gej_has_quad_y_var tells whether it is this one.
LEMMA HasQuad ==
  ASSUME NEW a, NEW z \in Int, NEW j \in Int, NEW p1 \in 0 .. P-1, NEW p2 \in 0 .. P-1,
         Mult(j) = <<p1, p2>>, At(a, z, p1, p2), NEW R, R = Root0[UnderRoot(p1).v]
  PROVE  gej_has_quad_y_var(a) <=> R = p2
<1>1. /\ P \in Nat \ {0} /\ p2 \in Int /\ ~Cong(p2, 0, P)
  BY EquationOf, FieldFacts
<1>2. a.infinity = FALSE /\ ~Cong(z, 0, P) /\ Val(a.z, z) /\ Val(a.y, p2 * z * z * z)
  BY DEF At
<1>3. PICK c : c = UnderRoot(p1)
  OBVIOUS
<1>4. c.v \in 0 .. P-1 /\ Cong(c.v, p2 * p2, P)
  BY <1>3, SquareOf DEF UnderRoot
<1>5. PICK y : y = fe_mul(a.y, a.z)
  OBVIOUS
<1>6. Val(y, Times(p2 * z * z * z, z))
  BY <1>2, <1>5, ValMul
<1>7. y.v \in 0 .. P-1 /\ Cong(y.v, p2 * ((z * z) * (z * z)), P)
  <2>1. Times(p2 * z * z * z, z) = p2 * ((z * z) * (z * z))
    BY <1>1 DEF Times
  <2> QED
    BY <1>6, <2>1 DEF Val
<1>8. PICK u : u = Root0[y.v]
  OBVIOUS
<1>9. u \in Int /\ (Cong(u * u, y.v, P) <=> Cong(R, p2, P))
  BY <1>1, <1>2, <1>3, <1>4, <1>7, <1>8, RootOfScaled
<1>10. R \in 0 .. P-1 /\ R \in Int
  BY <1>1, <1>3, <1>4, RootOfSquare
<1>11. Cong(R, p2, P) <=> R = p2
  BY <1>1, <1>10, CongSmall, CongEquivalence
<1>12. (u * u) % P = y.v <=> Cong(u * u, y.v, P)
  <2>1. PICK w \in Int : w = u * u
    BY <1>9
  <2>2. y.v \in Int /\ y.v % P = y.v
    BY <1>1, <1>7, CongMod
  <2>3. Cong(w, y.v, P) <=> w % P = y.v % P
    BY <1>1, <2>2, CongMod
  <2> QED
    BY <2>1, <2>2, <2>3
<1>13. fe_sqrt(y).has <=> (u * u) % P = y.v
  BY <1>8 DEF fe_sqrt
<1> QED
  BY <1>2, <1>5, <1>9, <1>11, <1>12, <1>13 DEF gej_has_quad_y_var

\* What such a point reads as.
LEMMA DecompressedReads ==
  ASSUME NEW r, NEW p1, NEW R, Decompressed(r, p1, R)
  PROVE  GeOf(r) = <<p1, R>> /\ GeOk(r)
BY DEF Decompressed, GeOf, GeOk

\* The y of a decompressed point is normalised before its parity is looked at,
\* and negated if it is the wrong one.
LEMMA ParityOf ==
  ASSUME NEW r, NEW p1, NEW R \in 0 .. P-1, Decompressed(r, p1, R), NEW odd \in BOOLEAN,
         NEW g, g = [r EXCEPT !.y = fe_normalize(@)]
  PROVE  /\ (R % 2 = 1 <=> odd) => Decompressed(WithParity(g, odd), p1, R)
         /\ ~(R % 2 = 1 <=> odd) => Decompressed(WithParity(g, odd), p1, (-R) % P)
<1>1. /\ r \in [x : Fes, y : Fes, infinity : BOOLEAN] /\ r.infinity = FALSE /\ r.x.v = p1
      /\ r.x.ok = TRUE /\ r.x.m = 1 /\ r.y.v = R /\ r.y.ok = TRUE
  BY DEF Decompressed
<1>2. PICK y : y = fe_normalize(r.y)
  OBVIOUS
<1>3. y.v = R /\ y.m = 1 /\ y.ok = TRUE /\ y \in Fes
  BY <1>1, <1>2 DEF fe_normalize, Elem, Fes
<1>4. g = [r EXCEPT !.y = y]
  BY <1>2
<1>5. /\ g \in [x : Fes, y : Fes, infinity : BOOLEAN] /\ g.infinity = FALSE /\ g.x = r.x /\ g.y = y
  BY <1>1, <1>3, <1>4
<1>6. fe_is_odd(g.y) <=> R % 2 = 1
  BY <1>3, <1>5 DEF fe_is_odd
<1>7. fe_is_odd(g.y) \in BOOLEAN
  BY DEF fe_is_odd
<1>8. ASSUME R % 2 = 1 <=> odd PROVE Decompressed(WithParity(g, odd), p1, R)
  <2>1. WithParity(g, odd) = g
    BY <1>6, <1>7, <1>8 DEF WithParity
  <2> QED
    BY <1>1, <1>3, <1>5, <2>1 DEF Decompressed
<1>9. ASSUME ~(R % 2 = 1 <=> odd) PROVE Decompressed(WithParity(g, odd), p1, (-R) % P)
  <2>1. PICK w : w = fe_negate(y, 1)
    OBVIOUS
  <2>2. WithParity(g, odd) = [g EXCEPT !.y = w]
    BY <1>5, <1>6, <1>7, <1>9, <2>1 DEF WithParity
  <2>3. (-R) % P \in 0 .. P-1
    BY FieldFacts
  <2>4. (y.ok /\ y.m <= 1) = TRUE
    BY <1>3
  <2>5. w.v = (-R) % P /\ w.ok = TRUE /\ w.m = 2 /\ w \in Fes
    BY <1>3, <2>1, <2>3, <2>4 DEF fe_negate, Elem, Fes
  <2>6. PICK h : h = [g EXCEPT !.y = w]
    OBVIOUS
  <2>7. h \in [x : Fes, y : Fes, infinity : BOOLEAN] /\ h.infinity = FALSE /\ h.x = r.x /\ h.y = w
    BY <1>5, <2>5, <2>6
  <2>8. WithParity(g, odd) = h
    BY <2>2, <2>6
  <2>9. PICK v : v = (-R) % P
    OBVIOUS
  <2>10. Decompressed(h, p1, v)
    BY <1>1, <2>5, <2>7, <2>9 DEF Decompressed
  <2> QED
    BY <2>8, <2>9, <2>10
<1> QED
  BY <1>8, <1>9

\* ge_set_xo_var finds the point whose y has the parity that was asked for.
LEMMA XoFinds ==
  ASSUME NEW j \in Int, NEW p1 \in 0 .. P-1, NEW p2 \in 0 .. P-1, Mult(j) = <<p1, p2>>,
         NEW odd \in BOOLEAN, NEW xo, xo = ge_set_xo_var(fe_set_int(p1), odd),
         NEW q \in {p2, P - p2}, (q % 2 = 1) <=> odd
  PROVE  xo.has = TRUE /\ Decompressed(xo.r, p1, q)
<1>1. PICK R : R = Root0[UnderRoot(p1).v]
  OBVIOUS
<1>2. PICK xq : xq = ge_set_xquad(fe_set_int(p1))
  OBVIOUS
<1>3. xq.has = TRUE /\ Decompressed(xq.r, p1, R) /\ R \in 0 .. P-1 /\ (R = p2 \/ R = P - p2)
  BY <1>1, <1>2, XquadFinds DEF Found
<1>4. P \in Nat /\ P \in Nat \ {0} /\ p2 \in Int /\ p2 # 0 /\ p2 \in Nat /\ R \in Nat /\ P % 2 = 1 /\ q \in Nat
  <2>1. P \in Nat /\ P % 12 = 7
    BY FieldAssumption
  <2>2. P % 2 = 1
    BY <2>1
  <2>3. p2 # 0
    BY FinitePoint
  <2> QED
    BY <1>3, <2>1, <2>2, <2>3, FieldFacts
<1>5. PICK g : g = [xq.r EXCEPT !.y = fe_normalize(@)]
  OBVIOUS
<1>6. xo.has = TRUE /\ xo.r = WithParity(g, odd)
  BY <1>2, <1>3, <1>5 DEF ge_set_xo_var
<1>7. CASE ~(R % 2 = 1 <=> odd)
  <2>1. Decompressed(WithParity(g, odd), p1, (-R) % P)
    BY <1>3, <1>5, <1>7, ParityOf
  <2>2. R = P - q
    BY <1>3, <1>4, <1>7
  <2>3. -R = q - P /\ q \in 0 .. P-1 /\ -R \in Int /\ q \in Int
    BY <1>3, <1>4, <2>2
  <2>4. -R - q = (-1) * P
    BY <1>4, <2>3
  <2>5. Cong(-R, q, P)
    BY <2>4 DEF Cong
  <2>6. PICK m \in Int : m = -R
    BY <2>3
  <2>7. (-R) % P = q
    BY <1>4, <2>3, <2>5, <2>6, CongMod
  <2> QED
    BY <1>6, <2>1, <2>7
<1>8. CASE R % 2 = 1 <=> odd
  <2>1. Decompressed(WithParity(g, odd), p1, R)
    BY <1>3, <1>5, <1>8, ParityOf
  <2>2. R = q
    BY <1>3, <1>4, <1>8
  <2> QED
    BY <1>6, <2>1, <2>2
<1> QED
  BY <1>7, <1>8

\* What the invariant says about the answers.
LEMMA StandsReads == AccStands => PointReadsAgree
<1> SUFFICES ASSUME AccStands PROVE PointReadsAgree
  OBVIOUS
<1>1. GejFine(acc) /\ k \in 0 .. Order-1 /\ k \in Int /\ Stands(acc, Mult(k))
  BY OrderFacts DEF AccStands
<1>2. AffineOf(acc) = Mult(k)
  BY <1>1, AffineOfStands
<1>3. CASE k = 0
  <2>1. Mult(k) = Inf
    BY <1>3, GroupLaw
  <2>2. acc.infinity = TRUE
    BY <1>1, <2>1 DEF Stands, Inf
  <2>3. gej_is_valid_var(acc) = FALSE
    BY <2>2 DEF gej_is_valid_var
  <2> QED
    BY <1>3, <2>3 DEF PointReadsAgree
<1>4. CASE k # 0
  <2>1. Mult(k) # Inf
    <3>1. k \in 1 .. Order-1
      BY <1>1, <1>4, OrderFacts
    <3> QED
      BY <3>1, CurveAssumption
  <2>2. PICK z \in Int, p1 \in 0 .. P-1, p2 \in 0 .. P-1 : Mult(k) = <<p1, p2>> /\ At(acc, z, p1, p2)
    BY <1>1, <2>1 DEF Stands
  <2>3. AffineOf(acc)[1] = p1 /\ AffineOf(acc)[2] = p2 /\ AffineOf(acc) = <<p1, p2>>
    BY <1>2, <2>2
  <2>4. gej_is_valid_var(acc)
    BY <1>1, <2>2, GejValid
  <2>5. gej_is_valid_var(acc) = (k # 0)
    BY <1>4, <2>4 DEF gej_is_valid_var
  <2>6. ge_is_valid_var(ge_set_gej(acc))
    <3>1. GeStands(ge_set_gej(acc), <<p1, p2>>)
      BY <1>1, <2>2, SetGejStands
    <3> QED
      BY <1>1, <2>2, <3>1, GeValid
  <2>7. ASSUME NEW v \in 0 .. P-1 PROVE gej_eq_x_var(fe_set_int(v), acc) = (v = p1)
    <3>1. acc.x \in Fes
      BY <1>1 DEF GejFine
    <3>2. gej_eq_x_var(fe_set_int(v), acc) <=> v = p1
      BY <2>2, <3>1, EqX
    <3> QED
      BY <3>2 DEF gej_eq_x_var, fe_equal_var, fe_normalizes_to_zero
  <2>8. PICK R : R = Root0[UnderRoot(p1).v]
    OBVIOUS
  <2>9. PICK xq : xq = ge_set_xquad(fe_set_int(p1))
    OBVIOUS
  <2>10. xq.has /\ GeOf(xq.r) = <<p1, R>>
    <3>1. Found(xq, p1, p2, R)
      BY <1>1, <2>2, <2>8, <2>9, XquadFinds
    <3> QED
      BY <3>1, DecompressedReads DEF Found
  <2>11. gej_has_quad_y_var(acc) <=> R = p2
    BY <1>1, <2>2, <2>8, HasQuad
  <2>12. gej_has_quad_y_var(acc) = (GeOf(xq.r) = <<p1, p2>>)
    BY <2>10, <2>11 DEF gej_has_quad_y_var
  <2>13. p2 \in Nat /\ P \in Nat /\ P % 2 = 1 /\ p2 < P
    <3>1. P \in Nat /\ P % 12 = 7
      BY FieldAssumption
    <3> QED
      BY <3>1
  <2>14. ASSUME NEW o \in BOOLEAN, NEW q \in {p2, P - p2}, q % 2 = 1 <=> o, NEW xo,
                xo = ge_set_xo_var(fe_set_int(p1), o)
         PROVE  xo.has /\ GeOf(xo.r) = <<p1, q>> /\ GeOk(xo.r)
    <3>1. xo.has = TRUE /\ Decompressed(xo.r, p1, q)
      BY <1>1, <2>2, <2>14, XoFinds, ZenonT(60)
    <3> QED
      BY <3>1, DecompressedReads
  <2>15. PICK xo : xo = ge_set_xo_var(fe_set_int(p1), p2 % 2 = 1)
    OBVIOUS
  <2>16. xo.has /\ GeOf(xo.r) = <<p1, p2>> /\ GeOk(xo.r)
    <3>1. PICK o \in BOOLEAN : o = (p2 % 2 = 1)
      OBVIOUS
    <3>2. p2 \in {p2, P - p2} /\ (p2 % 2 = 1 <=> o) /\ xo = ge_set_xo_var(fe_set_int(p1), o)
      BY <2>15, <3>1
    <3> QED
      BY <2>14, <3>2
  <2>17. GeOf(ge_set_xo_var(fe_set_int(p1), p2 % 2 = 0).r) = Mult(-k)
    <3>1. Mult(-k) = <<p1, P - p2>>
      BY <1>1, <2>2, OppositePair
    <3>2. (P - p2) % 2 = 1 <=> p2 % 2 = 0
      BY <2>13
    <3>3. PICK o \in BOOLEAN : o = (p2 % 2 = 0)
      OBVIOUS
    <3>4. PICK q : q = P - p2
      OBVIOUS
    <3>5. PICK xn : xn = ge_set_xo_var(fe_set_int(p1), o)
      OBVIOUS
    <3>6. q \in {p2, P - p2} /\ (q % 2 = 1 <=> o)
      BY <3>2, <3>3, <3>4
    <3>7. GeOf(xn.r) = <<p1, q>>
      BY <2>14, <3>5, <3>6
    <3> QED
      BY <3>1, <3>3, <3>4, <3>5, <3>7
  <2> QED
    BY <2>3, <2>5, <2>6, <2>7, <2>9, <2>10, <2>12, <2>15, <2>16, <2>17 DEF PointReadsAgree
<1> QED
  BY <1>3, <1>4

\* The questions group_impl.h answers about a point have the answers of the
\* curve, whatever sequence of operations led to it and whatever Z it has.
\* secp256k1_gej_is_valid_var and ge_is_valid_var accept it unless it is
\* infinity, gej_eq_x_var accepts its affine x and no other, ge_set_xquad and
\* ge_set_xo_var find it again from x, the second with the parity of y and its
\* opposite with the other, and gej_has_quad_y_var says, from Y and Z alone,
\* whether it is the one that ge_set_xquad finds.  That fe_sqrt, a fixed power,
\* finds a root of every square rests on Fermat's theorem.
THEOREM PointsAlwaysReadTrue == GroupSpec => []PointReadsAgree
<1>1. GroupInit => AccStands
  BY InitStands
<1>2. AccStands /\ [GroupNext]_groupVars => AccStands'
  BY StepStands
<1>3. AccStands => PointReadsAgree
  BY StandsReads
<1> QED
  BY <1>1, <1>2, <1>3, PTL DEF GroupSpec
=============================================================================
