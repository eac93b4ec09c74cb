------------------------------- MODULE Numbers -------------------------------
(***************************************************************************)
(* Lemmas about numbers that the other proofs share: induction in          *)
(* first-order form (the predicate is a set of numbers, so that the        *)
(* provers can use the lemmas), arithmetic modulo n, up to the inverse of  *)
(* a residue modulo a prime and Fermat's theorem, and the sum of a list.   *)
(***************************************************************************)
EXTENDS Integers, Sums, SequenceTheorems, FiniteSetTheorems, WellFoundedInduction, TLAPS

\* A set of natural numbers that is not empty has a least element.
LEMMA LeastNatural ==
  ASSUME NEW T, T \subseteq Nat, T # {}
  PROVE  \E n \in T : \A m \in T : n <= m
<1> DEFINE R == OpToRel(<, Nat)
<1>1. IsWellFoundedOn(R, Nat)
  BY NatLessThanWellFounded
<1>2. \A m, n \in Nat : m < n => <<m, n>> \in R
  BY DEF OpToRel
<1> HIDE DEF R
<1>3. PICK n \in T : \A m \in T : ~(<<m, n>> \in R)
  BY <1>1, WFMin
<1>4. \A m \in T : ~(m < n)
  BY <1>2, <1>3
<1> QED
  BY <1>4

\* What holds of 0 and passes from every number to the next holds of all.
LEMMA NatInductive ==
  ASSUME NEW T, 0 \in T, \A n \in Nat : n \in T => n + 1 \in T
  PROVE  Nat \subseteq T
<1> DEFINE Bad == {n \in Nat : n \notin T}
<1> SUFFICES ASSUME Bad # {} PROVE FALSE
  OBVIOUS
<1>1. PICK n \in Bad : \A m \in Bad : n <= m
  BY LeastNatural
<1>2. n \in Nat /\ n # 0 /\ n - 1 \in Nat
  BY <1>1
<1>3. n - 1 \in T
  BY <1>1, <1>2
<1>4. (n - 1) + 1 \in T
  BY <1>2, <1>3
<1> QED
  BY <1>1, <1>2, <1>4

-----------------------------------------------------------------------------
(* Residues.                                                               *)

\* A multiple of a positive number is at least that number, or not positive.
LEMMA MultipleFar ==
  ASSUME NEW n \in Nat \ {0}, NEW q \in Int
  PROVE  /\ q >= 1 => q * n >= n
         /\ q <= -1 => q * n <= -n
         /\ q = 0 => q * n = 0
<1>1. ASSUME q >= 1 PROVE q * n >= n
  <2>1. (q - 1) * n >= 0
    BY <1>1
  <2>2. q * n = (q - 1) * n + n
    OBVIOUS
  <2> QED
    BY <2>1, <2>2
<1>2. ASSUME q <= -1 PROVE q * n <= -n
  <2>1. (q + 1) * n <= 0
    BY <1>2
  <2>2. q * n = (q + 1) * n - n
    OBVIOUS
  <2> QED
    BY <2>1, <2>2
<1> QED
  BY <1>1, <1>2

\* A number is a multiple and a remainder.
LEMMA ModSplit ==
  ASSUME NEW n \in Nat \ {0}, NEW a \in Int
  PROVE  a % n \in 0..(n - 1) /\ \E q \in Int : a = q * n + (a % n)
<1>1. a % n \in 0..(n - 1) /\ a \div n \in Int
  OBVIOUS
<1>2. a = (a \div n) * n + (a % n)
  OBVIOUS
<1> QED
  BY <1>1, <1>2

\* a and b differ by a multiple of n.
Cong(a, b, n) == \E q \in Int : a - b = q * n

\* Residues that differ by a multiple of n are the same.
LEMMA CongSmall ==
  ASSUME NEW n \in Nat \ {0}, NEW a \in 0..(n - 1), NEW b \in 0..(n - 1), Cong(a, b, n)
  PROVE  a = b
<1>1. PICK q \in Int : a - b = q * n
  BY DEF Cong
<1>2. a - b < n /\ a - b > -n
  OBVIOUS
<1>3. q = 0
  BY <1>1, <1>2, MultipleFar
<1> QED
  BY <1>1, <1>3, MultipleFar

LEMMA CongEquivalence ==
  ASSUME NEW n \in Nat \ {0}, NEW a \in Int, NEW b \in Int, NEW c \in Int
  PROVE  /\ Cong(a, a, n)
         /\ Cong(a, b, n) => Cong(b, a, n)
         /\ Cong(a, b, n) /\ Cong(b, c, n) => Cong(a, c, n)
<1>1. Cong(a, a, n)
  <2>1. a - a = 0 * n
    OBVIOUS
  <2> QED
    BY <2>1 DEF Cong
<1>2. ASSUME Cong(a, b, n) PROVE Cong(b, a, n)
  <2>1. PICK q \in Int : a - b = q * n
    BY <1>2 DEF Cong
  <2>2. b - a = (-q) * n /\ -q \in Int
    BY <2>1
  <2> QED
    BY <2>2 DEF Cong
<1>3. ASSUME Cong(a, b, n), Cong(b, c, n) PROVE Cong(a, c, n)
  <2>1. PICK q \in Int : a - b = q * n
    BY <1>3 DEF Cong
  <2>2. PICK p \in Int : b - c = p * n
    BY <1>3 DEF Cong
  <2>3. a - c = (q + p) * n /\ q + p \in Int
    BY <2>1, <2>2
  <2> QED
    BY <2>3 DEF Cong
<1> QED
  BY <1>1, <1>2, <1>3

LEMMA CongArithmetic ==
  ASSUME NEW n \in Nat \ {0}, NEW a \in Int, NEW b \in Int, NEW c \in Int, NEW d \in Int,
         Cong(a, b, n), Cong(c, d, n)
  PROVE  Cong(a + c, b + d, n) /\ Cong(a - c, b - d, n) /\ Cong(a * c, b * d, n)
<1>1. PICK q \in Int : a - b = q * n
  BY DEF Cong
<1>2. PICK p \in Int : c - d = p * n
  BY DEF Cong
<1>3. (a + c) - (b + d) = (q + p) * n /\ (a - c) - (b - d) = (q - p) * n
  BY <1>1, <1>2
<1>4. a * c - b * d = (q * c + b * p) * n
  <2>1. a * c - b * d = (a - b) * c + b * (c - d)
    OBVIOUS
  <2>2. (a - b) * c = (q * c) * n
    BY <1>1
  <2>3. b * (c - d) = (b * p) * n
    BY <1>2
  <2>4. (q * c) * n + (b * p) * n = (q * c + b * p) * n
    OBVIOUS
  <2> QED
    BY <2>1, <2>2, <2>3, <2>4
<1>5. q + p \in Int /\ q - p \in Int /\ q * c + b * p \in Int
  OBVIOUS
<1> QED
  BY <1>3, <1>4, <1>5 DEF Cong

\* Congruence is equality of remainders.
LEMMA CongMod ==
  ASSUME NEW n \in Nat \ {0}, NEW a \in Int, NEW b \in Int
  PROVE  /\ a % n \in 0..(n - 1) /\ a % n \in Int /\ Cong(a % n, a, n)
         /\ Cong(a, b, n) <=> a % n = b % n
         /\ b \in 0..(n - 1) => b % n = b
<1> DEFINE r == a % n
           s == b % n
<1>1. r \in 0..(n - 1) /\ s \in 0..(n - 1)
  OBVIOUS
<1>2. PICK q \in Int : a = q * n + r
  BY ModSplit
<1>3. PICK p \in Int : b = p * n + s
  BY ModSplit
<1> HIDE DEF r, s
<1>4. r \in Int /\ s \in Int
  BY <1>1
<1>5. Cong(r, a, n) /\ Cong(s, b, n)
  <2>1. r - a = (-q) * n /\ -q \in Int
    BY <1>2, <1>4
  <2>2. s - b = (-p) * n /\ -p \in Int
    BY <1>3, <1>4
  <2> QED
    BY <2>1, <2>2 DEF Cong
<1>6. ASSUME Cong(a, b, n) PROVE r = s
  <2>1. Cong(r, b, n)
    BY <1>4, <1>5, <1>6, CongEquivalence
  <2>2. Cong(r, s, n)
    BY <1>4, <1>5, <2>1, CongEquivalence
  <2> QED
    BY <1>1, <2>2, CongSmall
<1>7. ASSUME r = s PROVE Cong(a, b, n)
  <2>1. Cong(a, r, n) /\ Cong(r, b, n)
    BY <1>4, <1>5, <1>7, CongEquivalence
  <2> QED
    BY <1>4, <2>1, CongEquivalence
<1>8. ASSUME b \in 0..(n - 1) PROVE s = b
  BY <1>1, <1>5, <1>8, CongSmall
<1> QED
  BY <1>1, <1>4, <1>5, <1>6, <1>7, <1>8 DEF r, s

-----------------------------------------------------------------------------
(* A prime modulus.                                                        *)

Prime(n) == n \in Nat /\ n >= 2 /\ \A d \in 2..(n - 1) : n % d # 0

\* The product of two residues other than zero is not zero.
LEMMA PrimeCancels ==
  ASSUME NEW n, Prime(n), NEW s \in 1..(n - 1), NEW t \in Nat \ {0}, Cong(s * t, 0, n)
  PROVE  n <= t
<1>1. n \in Nat \ {0} /\ n >= 2 /\ s \in Nat /\ s < n
  BY DEF Prime
<1> DEFINE D == {d \in Nat \ {0} : Cong(s * d, 0, n)}
<1>2. n \in D
  <2>1. s * n - 0 = s * n
    BY <1>1
  <2> QED
    BY <1>1, <2>1 DEF Cong
<1>3. PICK d \in D : \A e \in D : d <= e
  BY <1>2, LeastNatural
<1>4. d \in Nat \ {0} /\ d <= n /\ Cong(s * d, 0, n)
  BY <1>2, <1>3
<1>5. PICK q \in Int : n = q * d + (n % d)
  <2>1. n \in Int /\ d \in Nat \ {0}
    BY <1>1, <1>4
  <2> HIDE DEF D
  <2> QED
    BY <2>1, ModSplit
<1> DEFINE r == n % d
<1>6. r \in 0..(d - 1) /\ n = q * d + r
  BY <1>1, <1>4, <1>5
<1> HIDE DEF r
<1>7. r \in Int /\ s * r \in Int /\ s * n \in Int /\ s * d \in Int /\ q * (s * d) \in Int
  BY <1>1, <1>4, <1>6
<1>8. s * r = s * n - q * (s * d)
  <2>1. r = n - q * d
    BY <1>1, <1>4, <1>6
  <2>2. s * (n - q * d) = s * n - q * (s * d)
    BY <1>1, <1>4
  <2> QED
    BY <2>1, <2>2
<1>9. Cong(s * r, 0, n)
  <2>1. Cong(s * n, 0, n)
    BY <1>2
  <2>2. Cong(q, q, n)
    BY <1>1, CongEquivalence
  <2>3. Cong(q * (s * d), q * 0, n)
    BY <1>1, <1>4, <1>7, <2>2, CongArithmetic
  <2>4. q * 0 = 0
    OBVIOUS
  <2>5. Cong(s * n - q * (s * d), 0 - 0, n)
    BY <1>1, <1>7, <2>1, <2>3, <2>4, CongArithmetic
  <2> QED
    BY <1>8, <2>5
<1>10. r = 0
  <2> SUFFICES ASSUME r # 0 PROVE FALSE
    OBVIOUS
  <2>1. r \in Nat \ {0}
    BY <1>4, <1>6
  <2>2. r \in D
    BY <1>9, <2>1
  <2>3. d <= r
    BY <1>3, <2>2
  <2> QED
    BY <1>4, <1>6, <2>3
<1>11. n % d = 0
  BY <1>10 DEF r
<1>12. d = 1 \/ d = n
  <2> SUFFICES ASSUME d # 1, d # n PROVE FALSE
    OBVIOUS
  <2>1. d \in 2..(n - 1)
    BY <1>1, <1>4
  <2>2. \A e \in 2..(n - 1) : n % e # 0
    BY DEF Prime
  <2> HIDE DEF D
  <2> QED
    BY <1>11, <2>1, <2>2
<1>13. d # 1
  <2> SUFFICES ASSUME d = 1 PROVE FALSE
    OBVIOUS
  <2>1. Cong(s, 0, n)
    BY <1>1, <1>4
  <2>2. s \in 0..(n - 1) /\ 0 \in 0..(n - 1)
    BY <1>1
  <2>3. s = 0
    BY <1>1, <2>1, <2>2, CongSmall
  <2> QED
    BY <2>3
<1>14. t \in D
  OBVIOUS
<1> QED
  BY <1>3, <1>12, <1>13, <1>14

\* Every residue but zero has an inverse.
LEMMA PrimeInverse ==
  ASSUME NEW n, Prime(n), NEW s \in 1..(n - 1)
  PROVE  \E t \in 1..(n - 1) : (s * t) % n = 1
<1>1. n \in Nat \ {0} /\ n >= 2 /\ s \in Nat
  BY DEF Prime
<1> DEFINE I == 0..(n - 1)
           f == [t \in I |-> (s * t) % n]
<1>2. f \in [I -> I]
  <2>1. \A t \in I : (s * t) % n \in I
    BY <1>1
  <2> QED
    BY <2>1
<1>3. ASSUME NEW i \in I, NEW j \in I, i < j, f[i] = f[j] PROVE FALSE
  <2>1. Cong(s * j, s * i, n)
    <3>1. (s * j) % n = (s * i) % n /\ s * j \in Int /\ s * i \in Int
      BY <1>1, <1>3
    <3> QED
      BY <1>1, <3>1, CongMod
  <2>2. Cong(s * i, s * i, n)
    BY <1>1, CongEquivalence
  <2>3. Cong(s * j - s * i, s * i - s * i, n)
    BY <1>1, <2>1, <2>2, CongArithmetic
  <2>4. s * j - s * i = s * (j - i) /\ s * i - s * i = 0 /\ j - i \in Nat \ {0} /\ j - i < n
    BY <1>1, <1>3
  <2>5. Cong(s * (j - i), 0, n)
    BY <2>3, <2>4
  <2>6. n <= j - i
    BY <2>4, <2>5, PrimeCancels
  <2> QED
    BY <1>1, <2>4, <2>6
<1>4. \A i, j \in I : f[i] = f[j] => i = j
  <2> SUFFICES ASSUME NEW i \in I, NEW j \in I, f[i] = f[j], i # j PROVE FALSE
    OBVIOUS
  <2>1. i < j \/ j < i
    BY <1>1
  <2> HIDE DEF f
  <2> QED
    BY <1>3, <2>1
<1>5. IsFiniteSet(I) /\ 1 \in I
  BY <1>1, FS_Interval
<1> HIDE DEF I
<1>6. f \in Surjection(I, I)
  <2> HIDE DEF f
  <2>1. f \in Injection(I, I)
    BY <1>2, <1>4 DEF Injection, IsInjective
  <2> QED
    BY <1>5, <2>1, FS_Injection
<1>7. PICK t \in I : f[t] = 1
  BY <1>5, <1>6 DEF Surjection
<1>8. (s * t) % n = 1 /\ t \in 0..(n - 1)
  BY <1>7 DEF I
<1>9. t # 0
  BY <1>1, <1>8
<1> QED
  BY <1>1, <1>8, <1>9

\* The product of two numbers that n does not divide is not divided by it.
LEMMA PrimeProduct ==
  ASSUME NEW n, Prime(n), NEW a \in Int, NEW b \in Int, ~Cong(a, 0, n), ~Cong(b, 0, n)
  PROVE  ~Cong(a * b, 0, n)
<1>1. n \in Nat \ {0} /\ 0 \in 0..(n - 1) /\ 0 \in Int
  BY DEF Prime
<1> DEFINE s == a % n
           t == b % n
<1>2. /\ s \in 0..(n - 1) /\ s \in Int /\ Cong(s, a, n) /\ s # 0
      /\ t \in 0..(n - 1) /\ t \in Int /\ Cong(t, b, n) /\ t # 0
  BY <1>1, CongMod
<1> HIDE DEF s, t
<1>3. s \in 1..(n - 1) /\ t \in Nat \ {0} /\ t < n
  BY <1>1, <1>2
<1>4. Cong(s * t, a * b, n)
  BY <1>1, <1>2, CongArithmetic
<1>5. SUFFICES ASSUME Cong(a * b, 0, n) PROVE FALSE
  OBVIOUS
<1>6. s * t \in Int /\ a * b \in Int
  BY <1>2
<1>7. Cong(s * t, 0, n)
  BY <1>1, <1>4, <1>5, <1>6, CongEquivalence
<1>8. n <= t
  BY <1>3, <1>7, PrimeCancels
<1> QED
  BY <1>1, <1>3, <1>8

\* a - b is f times c - d.
Follows(a, b, f, c, d) == a - b = f * (c - d)

\* A congruence that follows from another one, with the factor that shows it.
LEMMA CongBy ==
  ASSUME NEW n \in Nat \ {0}, NEW a \in Int, NEW b \in Int, NEW c \in Int, NEW d \in Int,
         NEW f \in Int, Cong(c, d, n), Follows(a, b, f, c, d)
  PROVE  Cong(a, b, n)
<1>1. PICK q \in Int : c - d = q * n
  BY DEF Cong
<1>2. a - b = (f * q) * n /\ f * q \in Int
  <2>1. a - b = f * (q * n)
    BY <1>1 DEF Follows
  <2> QED
    BY <2>1
<1> QED
  BY <1>2 DEF Cong

\* A common factor that n does not divide cancels.
LEMMA PrimeFactor ==
  ASSUME NEW n, Prime(n), NEW a \in Int, NEW b \in Int, NEW c \in Int,
         ~Cong(c, 0, n), Cong(c * a, c * b, n)
  PROVE  Cong(a, b, n)
<1>1. n \in Nat \ {0} /\ a - b \in Int /\ c * a \in Int /\ c * b \in Int /\ c * (a - b) \in Int
  BY DEF Prime
<1>2. Follows(c * (a - b), 0, 1, c * a, c * b)
  BY DEF Follows
<1>3. Cong(c * (a - b), 0, n)
  BY <1>1, <1>2, CongBy
<1>4. Cong(a - b, 0, n)
  BY <1>1, <1>3, PrimeProduct
<1>5. Follows(a, b, 1, a - b, 0)
  BY DEF Follows
<1> QED
  BY <1>1, <1>4, <1>5, CongBy

-----------------------------------------------------------------------------
(* Powers modulo n.                                                        *)

\* g holds the powers of a up to the m-th.
Powers(g, a, m, n) == g = [i \in 0..m |-> IF i = 0 THEN 1 ELSE (a * g[i - 1]) % n]

\* The e-th power of a.
Power(a, e, n) == (CHOOSE g : Powers(g, a, e, n))[e]

\* There are powers up to any exponent.
LEMMA PowersExist ==
  ASSUME NEW a, NEW n, NEW k \in Nat
  PROVE  \E g : Powers(g, a, k, n)
<1> DEFINE T == {m \in Nat : \E g : Powers(g, a, m, n)}
<1>1. 0 \in T
  <2> DEFINE g == [i \in 0..0 |-> 1]
  <2>1. Powers(g, a, 0, n)
    BY DEF Powers
  <2> QED
    BY <2>1
<1>2. ASSUME NEW m \in Nat, m \in T PROVE m + 1 \in T
  <2>1. PICK g : Powers(g, a, m, n)
    BY <1>2
  <2> DEFINE h == [i \in 0..(m + 1) |-> IF i = m + 1 THEN (a * g[m]) % n ELSE g[i]]
  <2>2. \A i \in 0..m : g[i] = IF i = 0 THEN 1 ELSE (a * g[i - 1]) % n
    BY <2>1 DEF Powers
  <2>3. ASSUME NEW i \in 0..(m + 1) PROVE h[i] = IF i = 0 THEN 1 ELSE (a * h[i - 1]) % n
    <3>1. CASE i = 0
      BY <2>2, <3>1
    <3>2. CASE i = m + 1
      <4>1. i - 1 = m /\ i - 1 \in 0..(m + 1) /\ i - 1 # m + 1 /\ i # 0
        BY <3>2
      <4>2. h[i] = (a * g[m]) % n /\ h[i - 1] = g[m]
        BY <3>2, <4>1
      <4> QED
        BY <4>1, <4>2
    <3>3. CASE i # 0 /\ i # m + 1
      <4>1. i \in 0..m /\ i - 1 \in 0..(m + 1) /\ i - 1 # m + 1
        BY <3>3
      <4>2. h[i] = g[i] /\ h[i - 1] = g[i - 1]
        BY <3>3, <4>1
      <4> QED
        BY <2>2, <3>3, <4>1, <4>2
    <3> QED
      BY <3>1, <3>2, <3>3
  <2>4. h = [i \in 0..(m + 1) |-> h[i]]
    OBVIOUS
  <2> HIDE DEF h
  <2>5. Powers(h, a, m + 1, n)
    BY <2>3, <2>4 DEF Powers
  <2> QED
    BY <2>5
<1> HIDE DEF T
<1>3. k \in T
  BY <1>1, <1>2, NatInductive
<1> QED
  BY <1>3 DEF T

\* Two tables of powers agree as far as both go.
LEMMA PowersUnique ==
  ASSUME NEW a, NEW n, NEW m \in Nat, NEW k \in Nat, k <= m, NEW g, NEW h,
         Powers(g, a, m, n), Powers(h, a, k, n)
  PROVE  \A i \in 0..k : g[i] = h[i]
<1> DEFINE T == {i \in Nat : i <= k => g[i] = h[i]}
<1>1. /\ \A i \in 0..m : g[i] = IF i = 0 THEN 1 ELSE (a * g[i - 1]) % n
      /\ \A i \in 0..k : h[i] = IF i = 0 THEN 1 ELSE (a * h[i - 1]) % n
  BY DEF Powers
<1>2. 0 \in T
  BY <1>1
<1>3. ASSUME NEW i \in Nat, i \in T PROVE i + 1 \in T
  <2> SUFFICES ASSUME i + 1 <= k PROVE g[i + 1] = h[i + 1]
    OBVIOUS
  <2>1. i + 1 \in 0..m /\ i + 1 \in 0..k /\ i + 1 # 0 /\ (i + 1) - 1 = i
    OBVIOUS
  <2>2. g[i + 1] = (a * g[i]) % n /\ h[i + 1] = (a * h[i]) % n
    BY <1>1, <2>1
  <2>3. g[i] = h[i]
    BY <1>3
  <2> QED
    BY <2>2, <2>3
<1> HIDE DEF T
<1>4. Nat \subseteq T
  BY <1>2, <1>3, NatInductive
<1> QED
  BY <1>4 DEF T

\* A table of powers holds powers.
LEMMA PowerIs ==
  ASSUME NEW a, NEW n, NEW m \in Nat, NEW g, Powers(g, a, m, n), NEW e \in 0..m
  PROVE  g[e] = Power(a, e, n)
<1>1. e \in Nat /\ e <= m /\ e \in 0..e
  OBVIOUS
<1> DEFINE h == CHOOSE f : Powers(f, a, e, n)
<1>2. Powers(h, a, e, n)
  <2>1. \E f : Powers(f, a, e, n)
    BY <1>1, PowersExist
  <2> QED
    BY <2>1
<1>3. Power(a, e, n) = h[e]
  BY DEF Power
<1> HIDE DEF h
<1>4. \A i \in 0..e : g[i] = h[i]
  BY <1>1, <1>2, PowersUnique
<1> QED
  BY <1>1, <1>3, <1>4

\* The laws a power is computed by.
LEMMA PowerLaws ==
  ASSUME NEW n \in Nat, n >= 2, NEW a \in Int, NEW e \in Nat
  PROVE  /\ Power(a, 0, n) = 1
         /\ Power(a, e, n) \in 0..(n - 1)
         /\ Power(a, e + 1, n) = (a * Power(a, e, n)) % n
<1> DEFINE T == {k \in Nat : Power(a, k, n) \in 0..(n - 1)}
<1>1. ASSUME NEW k \in Nat PROVE Power(a, k + 1, n) = (a * Power(a, k, n)) % n /\ Power(a, 0, n) = 1
  <2>1. PICK g : Powers(g, a, k + 1, n)
    BY PowersExist
  <2>2. k \in 0..(k + 1) /\ k + 1 \in 0..(k + 1) /\ 0 \in 0..(k + 1) /\ k + 1 # 0
        /\ (k + 1) - 1 = k /\ k + 1 \in Nat
    OBVIOUS
  <2>3. g[k] = Power(a, k, n) /\ g[k + 1] = Power(a, k + 1, n) /\ g[0] = Power(a, 0, n)
    BY <2>1, <2>2, PowerIs
  <2>4. g[k + 1] = (a * g[(k + 1) - 1]) % n /\ g[0] = 1
    BY <2>1, <2>2 DEF Powers
  <2> QED
    BY <2>2, <2>3, <2>4
<1>2. 0 \in T
  BY <1>1
<1>3. ASSUME NEW k \in Nat, k \in T PROVE k + 1 \in T
  <2>1. a * Power(a, k, n) \in Int
    BY <1>3
  <2> QED
    BY <1>1, <2>1, CongMod
<1> HIDE DEF T
<1>4. Nat \subseteq T
  BY <1>2, <1>3, NatInductive
<1> QED
  BY <1>1, <1>4 DEF T

\* A power is a residue.
LEMMA PowerType ==
  ASSUME NEW n \in Nat, n >= 2, NEW a \in Int, NEW e \in Nat
  PROVE  /\ Power(a, e, n) \in 0..(n - 1) /\ Power(a, e, n) \in Int
         /\ Power(a, 0, n) = 1
<1>1. Power(a, e, n) \in 0..(n - 1) /\ Power(a, 0, n) = 1
  BY PowerLaws
<1> QED
  BY <1>1

\* The next power, as a congruence.
LEMMA PowerNext ==
  ASSUME NEW n \in Nat, n >= 2, NEW a \in Int, NEW e \in Nat
  PROVE  Cong(Power(a, e + 1, n), a * Power(a, e, n), n)
<1>0. Power(a, e, n) \in Int
  BY PowerType
<1>1. n \in Nat \ {0} /\ a * Power(a, e, n) \in Int
  BY <1>0
<1>2. Power(a, e + 1, n) = (a * Power(a, e, n)) % n
  BY PowerLaws
<1>3. Cong((a * Power(a, e, n)) % n, a * Power(a, e, n), n)
  BY <1>1, CongMod
<1> QED
  BY <1>2, <1>3

\* Exponents add.
LEMMA PowerSum ==
  ASSUME NEW n \in Nat, n >= 2, NEW a \in Int, NEW m \in Nat, NEW e \in Nat
  PROVE  Cong(Power(a, m + e, n), Power(a, m, n) * Power(a, e, n), n)
<1> DEFINE R(k) == Power(a, k, n)
           T == {k \in Nat : Cong(R(k + e), R(k) * R(e), n)}
<1>1. \A k \in Nat : R(k) \in Int /\ Cong(R(k + 1), a * R(k), n)
  BY PowerNext, PowerType
<1>2. R(0) = 1
  BY PowerType
<1> HIDE DEF R
<1>3. 0 \in T
  <2>1. 0 + e = e /\ R(0) * R(e) = R(e)
    BY <1>1, <1>2
  <2> QED
    BY <1>1, <2>1, CongEquivalence
<1>4. ASSUME NEW k \in Nat, k \in T PROVE k + 1 \in T
  <2> DEFINE x == R(k + e)
             y == R(k)
             z == R(e)
             u == R((k + 1) + e)
             v == R(k + 1)
  <2>1. x \in Int /\ y \in Int /\ z \in Int /\ u \in Int /\ v \in Int
    BY <1>1
  <2>2. Cong(u, a * x, n)
    <3>1. (k + e) + 1 = (k + 1) + e /\ k + e \in Nat
      OBVIOUS
    <3> QED
      BY <1>1, <3>1
  <2>3. Cong(v, a * y, n) /\ Cong(x, y * z, n)
    BY <1>1, <1>4
  <2> HIDE DEF x, y, z, u, v
  <2>4. a * x \in Int /\ a * y \in Int /\ y * z \in Int /\ a * (y * z) \in Int /\ v * z \in Int
        /\ (a * y) * z \in Int /\ n \in Nat \ {0} /\ a * (y * z) = (a * y) * z
    BY <2>1
  <2>5. Cong(a * x, a * (y * z), n)
    BY <2>1, <2>3, <2>4, CongEquivalence, CongArithmetic
  <2>6. Cong(v * z, (a * y) * z, n)
    BY <2>1, <2>3, <2>4, CongEquivalence, CongArithmetic
  <2>7. Cong(u, (a * y) * z, n) /\ Cong((a * y) * z, v * z, n)
    BY <2>1, <2>2, <2>4, <2>5, <2>6, CongEquivalence
  <2>8. Cong(u, v * z, n)
    BY <2>1, <2>4, <2>7, CongEquivalence
  <2> QED
    BY <2>8 DEF u, v, z
<1> HIDE DEF T
<1>5. m \in T
  BY <1>3, <1>4, NatInductive
<1> QED
  BY <1>5 DEF T, R

\* The power of a product is the product of the powers.
LEMMA PowerProduct ==
  ASSUME NEW n \in Nat, n >= 2, NEW a \in Int, NEW b \in Int, NEW c \in Int, Cong(c, a * b, n),
         NEW e \in Nat
  PROVE  Cong(Power(c, e, n), Power(a, e, n) * Power(b, e, n), n)
<1> DEFINE A(k) == Power(a, k, n)
           B(k) == Power(b, k, n)
           C(k) == Power(c, k, n)
           T == {k \in Nat : Cong(C(k), A(k) * B(k), n)}
<1>1. \A k \in Nat : /\ A(k) \in Int /\ Cong(A(k + 1), a * A(k), n)
                     /\ B(k) \in Int /\ Cong(B(k + 1), b * B(k), n)
                     /\ C(k) \in Int /\ Cong(C(k + 1), c * C(k), n)
  BY PowerNext, PowerType
<1>2. A(0) = 1 /\ B(0) = 1 /\ C(0) = 1
  BY PowerType
<1> HIDE DEF A, B, C
<1>3. 0 \in T
  BY <1>2, CongEquivalence
<1>4. ASSUME NEW k \in Nat, k \in T PROVE k + 1 \in T
  <2> DEFINE x == A(k)
             y == B(k)
             z == C(k)
             u == A(k + 1)
             v == B(k + 1)
             w == C(k + 1)
  <2>1. x \in Int /\ y \in Int /\ z \in Int /\ u \in Int /\ v \in Int /\ w \in Int
    BY <1>1
  <2>2. Cong(u, a * x, n) /\ Cong(v, b * y, n) /\ Cong(w, c * z, n) /\ Cong(z, x * y, n)
    BY <1>1, <1>4
  <2> HIDE DEF x, y, z, u, v, w
  <2>3. /\ a * b \in Int /\ x * y \in Int /\ c * z \in Int /\ (a * b) * (x * y) \in Int
        /\ a * x \in Int /\ b * y \in Int /\ u * v \in Int /\ (a * x) * (b * y) \in Int
        /\ n \in Nat \ {0}
    BY <2>1
  <2>4. (a * b) * (x * y) = (a * x) * (b * y)
    BY <2>1
  <2>5. Cong(c * z, (a * b) * (x * y), n) /\ Cong(u * v, (a * x) * (b * y), n)
    BY <2>1, <2>2, <2>3, CongArithmetic
  <2>6. Cong(w, (a * b) * (x * y), n) /\ Cong((a * b) * (x * y), u * v, n)
    BY <2>1, <2>2, <2>3, <2>4, <2>5, CongEquivalence
  <2>7. Cong(w, u * v, n)
    BY <2>1, <2>3, <2>6, CongEquivalence
  <2> QED
    BY <2>7 DEF u, v, w
<1> HIDE DEF T
<1>5. e \in T
  BY <1>3, <1>4, NatInductive
<1> QED
  BY <1>5 DEF T, A, B, C

\* If a power is 1, so is that of any multiple of the exponent.
LEMMA PowerOne ==
  ASSUME NEW n \in Nat, n >= 2, NEW a \in Int, NEW d \in Nat, Power(a, d, n) = 1, NEW q \in Nat
  PROVE  Power(a, q * d, n) = 1
<1> DEFINE T == {k \in Nat : Power(a, k * d, n) = 1}
<1>1. 0 \in T
  BY PowerType
<1>2. ASSUME NEW k \in Nat, k \in T PROVE k + 1 \in T
  <2>1. (k + 1) * d = k * d + d /\ k * d \in Nat /\ (k + 1) * d \in Nat
    OBVIOUS
  <2>2. Power(a, (k + 1) * d, n) \in 0..(n - 1) /\ 1 \in 0..(n - 1) /\ n \in Nat \ {0}
    BY <2>1, PowerType
  <2>3. Cong(Power(a, (k + 1) * d, n), 1 * 1, n)
    <3>1. Cong(Power(a, k * d + d, n), Power(a, k * d, n) * Power(a, d, n), n)
      BY <2>1, PowerSum
    <3> QED
      BY <1>2, <2>1, <3>1
  <2>4. Power(a, (k + 1) * d, n) = 1
    BY <2>2, <2>3, CongSmall
  <2> QED
    BY <2>4
<1> HIDE DEF T
<1>3. q \in T
  BY <1>1, <1>2, NatInductive
<1> QED
  BY <1>3 DEF T

\* A power of a residue other than zero is one.
LEMMA PowerUnit ==
  ASSUME NEW n, Prime(n), NEW a \in Int, ~Cong(a, 0, n), NEW e \in Nat
  PROVE  Power(a, e, n) \in 1..(n - 1) /\ ~Cong(Power(a, e, n), 0, n)
<1>1. n \in Nat /\ n >= 2 /\ n \in Nat \ {0} /\ 0 \in 0..(n - 1) /\ 1 \in 0..(n - 1)
  BY DEF Prime
<1> DEFINE T == {k \in Nat : ~Cong(Power(a, k, n), 0, n)}
<1>2. 0 \in T
  <2>1. Power(a, 0, n) = 1
    BY <1>1, PowerType
  <2>2. ~Cong(1, 0, n)
    BY <1>1, CongSmall
  <2> QED
    BY <2>1, <2>2
<1>3. ASSUME NEW k \in Nat, k \in T PROVE k + 1 \in T
  <2>1. Power(a, k, n) \in Int /\ Power(a, k + 1, n) \in Int
    BY <1>1, PowerType
  <2>2. ~Cong(a * Power(a, k, n), 0, n) /\ a * Power(a, k, n) \in Int
    <3>1. ~Cong(Power(a, k, n), 0, n)
      BY <1>3
    <3>2. ~Cong(a * Power(a, k, n), 0, n)
      BY <2>1, <3>1, PrimeProduct
    <3> QED
      BY <2>1, <3>2
  <2>3. Cong(Power(a, k + 1, n), a * Power(a, k, n), n)
    BY <1>1, PowerNext
  <2>4. Cong(a * Power(a, k, n), Power(a, k + 1, n), n)
    BY <1>1, <2>1, <2>2, <2>3, CongEquivalence
  <2>5. ~Cong(Power(a, k + 1, n), 0, n)
    BY <1>1, <2>1, <2>2, <2>4, CongEquivalence
  <2> QED
    BY <2>5
<1> HIDE DEF T
<1>4. e \in T
  BY <1>2, <1>3, NatInductive
<1>5. ~Cong(Power(a, e, n), 0, n)
  BY <1>4 DEF T
<1>6. Power(a, e, n) \in 0..(n - 1)
  BY <1>1, PowerType
<1>7. Power(a, e, n) # 0
  BY <1>1, <1>5, CongEquivalence
<1> QED
  BY <1>1, <1>5, <1>6, <1>7

\* d is the order of a: the least exponent with which it gives 1.
Period(a, d, n) ==
    d \in Nat \ {0} /\ Power(a, d, n) = 1 /\ \A e \in 1..(d - 1) : Power(a, e, n) # 1

\* Equal powers differ by an exponent that gives 1.
LEMMA PowersEqual ==
  ASSUME NEW n, Prime(n), NEW a \in Int, ~Cong(a, 0, n), NEW i \in Nat, NEW j \in Nat, i < j,
         Power(a, i, n) = Power(a, j, n)
  PROVE  Power(a, j - i, n) = 1
<1>1. n \in Nat /\ n >= 2 /\ n \in Nat \ {0} /\ 1 \in 0..(n - 1)
  BY DEF Prime
<1>2. j - i \in Nat /\ i + (j - i) = j
  OBVIOUS
<1> DEFINE x == Power(a, i, n)
           y == Power(a, j - i, n)
<1>3. x \in Int /\ ~Cong(x, 0, n) /\ y \in 0..(n - 1) /\ y \in Int
  BY <1>1, <1>2, PowerType, PowerUnit
<1>4. Cong(x, x * y, n)
  <2>1. Cong(Power(a, i + (j - i), n), Power(a, i, n) * Power(a, j - i, n), n)
    BY <1>1, <1>2, PowerSum
  <2> QED
    BY <1>2, <2>1
<1> HIDE DEF x, y
<1>5. Cong(x * 1, x * y, n)
  BY <1>3, <1>4
<1>6. Cong(1, y, n)
  BY <1>3, <1>5, PrimeFactor
<1>7. y = 1
  BY <1>1, <1>3, <1>6, CongSmall
<1> QED
  BY <1>7 DEF y

\* Every residue but zero has an order: among n powers two are the same.
LEMMA PeriodExists ==
  ASSUME NEW n, Prime(n), NEW a \in Int, ~Cong(a, 0, n)
  PROVE  \E d \in Nat : Period(a, d, n)
<1>1. n \in Nat /\ n >= 2
  BY DEF Prime
<1> DEFINE f == [e \in 0..(n - 1) |-> Power(a, e, n)]
           D == {d \in Nat \ {0} : Power(a, d, n) = 1}
<1>2. f \in [0..(n - 1) -> 1..(n - 1)]
  <2>1. \A e \in 0..(n - 1) : Power(a, e, n) \in 1..(n - 1)
    BY <1>1, PowerUnit
  <2> QED
    BY <2>1
<1>3. PICK i, j \in 0..(n - 1) : i # j /\ f[i] = f[j]
  <2>1. n - 1 \in Int /\ 0 \in Int /\ 1 \in Int
    BY <1>1
  <2>2. IsFiniteSet(0..(n - 1)) /\ IsFiniteSet(1..(n - 1))
    BY <2>1, FS_Interval
  <2>3. Cardinality(0..(n - 1)) = n /\ Cardinality(1..(n - 1)) = n - 1
    BY <1>1, <2>1, FS_Interval
  <2>4. Cardinality(1..(n - 1)) < Cardinality(0..(n - 1))
    BY <1>1, <2>3
  <2> HIDE DEF f
  <2> QED
    BY <1>2, <2>2, <2>4, FS_PigeonHole
<1>4. i \in Nat /\ j \in Nat /\ Power(a, i, n) = Power(a, j, n) /\ (i < j \/ j < i)
  BY <1>1, <1>3
<1>5. D # {}
  <2>1. CASE i < j
    <3>1. Power(a, j - i, n) = 1 /\ j - i \in Nat \ {0}
      BY <1>4, <2>1, PowersEqual
    <3> QED
      BY <3>1
  <2>2. CASE j < i
    <3>1. Power(a, i - j, n) = 1 /\ i - j \in Nat \ {0}
      BY <1>4, <2>2, PowersEqual
    <3> QED
      BY <3>1
  <2> QED
    BY <1>4, <2>1, <2>2
<1>6. PICK d \in D : \A e \in D : d <= e
  BY <1>5, LeastNatural
<1>7. d \in Nat \ {0} /\ Power(a, d, n) = 1
  BY <1>6
<1>8. ASSUME NEW e \in 1..(d - 1), Power(a, e, n) = 1 PROVE FALSE
  <2>1. e \in Nat \ {0} /\ e < d
    BY <1>7
  <2>2. e \in D
    BY <1>8, <2>1
  <2>3. d <= e
    BY <1>6, <2>2
  <2> QED
    BY <1>7, <2>1, <2>3
<1> HIDE DEF D
<1>9. Period(a, d, n)
  BY <1>7, <1>8 DEF Period
<1> QED
  BY <1>7, <1>9

\* A set that multiplication by a does not leave.
ClosedUnder(S, a, n) == \A x \in S : (a * x) % n \in S

\* What the multiplication makes of x after i rounds.
Round(a, x, i, n) == (Power(a, i, n) * x) % n

\* One round more is one multiplication more.
LEMMA RoundNext ==
  ASSUME NEW n \in Nat, n >= 2, NEW a \in Int, NEW x \in Int, NEW i \in Nat
  PROVE  /\ Round(a, x, i, n) \in 0..(n - 1) /\ Round(a, x, i, n) \in Int
         /\ Round(a, x, i + 1, n) = (a * Round(a, x, i, n)) % n
<1> DEFINE p == Power(a, i, n)
           q == Power(a, i + 1, n)
           y == (p * x) % n
<1>1. p \in Int /\ q \in Int /\ n \in Nat \ {0}
  BY PowerType
<1>2. Cong(q, a * p, n)
  BY PowerNext
<1> HIDE DEF p, q
<1>3. p * x \in Int /\ q * x \in Int /\ a * p \in Int /\ (a * p) * x = a * (p * x)
      /\ (a * p) * x \in Int
  BY <1>1
<1>4. y \in 0..(n - 1) /\ y \in Int /\ Cong(y, p * x, n)
  BY <1>1, <1>3, CongMod
<1> HIDE DEF y
<1>5. a * y \in Int
  BY <1>4
<1>6. Cong(a * y, a * (p * x), n)
  BY <1>1, <1>3, <1>4, CongEquivalence, CongArithmetic
<1>7. Cong(q * x, (a * p) * x, n)
  BY <1>1, <1>2, <1>3, CongEquivalence, CongArithmetic
<1>8. Cong((a * p) * x, a * y, n)
  BY <1>1, <1>3, <1>5, <1>6, CongEquivalence
<1>9. Cong(q * x, a * y, n)
  BY <1>1, <1>3, <1>5, <1>7, <1>8, CongEquivalence
<1>10. (q * x) % n = (a * y) % n
  BY <1>1, <1>3, <1>5, <1>9, CongMod
<1>11. Round(a, x, i, n) = y /\ Round(a, x, i + 1, n) = (q * x) % n
  BY DEF Round, y, p, q
<1> QED
  BY <1>4, <1>10, <1>11

\* Multiplication by a tells residues apart.
LEMMA TimesInjective ==
  ASSUME NEW n, Prime(n), NEW a \in Int, ~Cong(a, 0, n), NEW y \in 0..(n - 1), NEW z \in 0..(n - 1),
         (a * y) % n = (a * z) % n
  PROVE  y = z
<1>1. n \in Nat \ {0} /\ y \in Int /\ z \in Int /\ a * y \in Int /\ a * z \in Int
  BY DEF Prime
<1>2. Cong(a * y, a * z, n)
  BY <1>1, CongMod
<1>3. Cong(y, z, n)
  BY <1>1, <1>2, PrimeFactor
<1> QED
  BY <1>1, <1>3, CongSmall

\* The rounds of x are as many as the order of a.
LEMMA OrbitCount ==
  ASSUME NEW n, Prime(n), NEW a \in Int, ~Cong(a, 0, n), NEW d, Period(a, d, n),
         NEW x \in 1..(n - 1), NEW O, O = {Round(a, x, i, n) : i \in 0..(d - 1)}
  PROVE  IsFiniteSet(O) /\ Cardinality(O) = d
<1>1. n \in Nat /\ n >= 2 /\ x \in Int /\ x \in 0..(n - 1) /\ 0 \in 0..(n - 1) /\ n \in Nat \ {0}
  BY DEF Prime
<1>2. d \in Nat \ {0}
  BY DEF Period
<1> DEFINE I == 0..(d - 1)
           f == [i \in I |-> Round(a, x, i, n)]
<1>3. ~Cong(x, 0, n)
  BY <1>1, CongSmall
<1>4. ASSUME NEW i \in I, NEW j \in I, i < j, f[i] = f[j] PROVE FALSE
  <2> DEFINE y == Power(a, i, n)
             z == Power(a, j, n)
  <2>0. i \in Nat /\ j \in Nat
    BY <1>2
  <2>1. y \in 0..(n - 1) /\ z \in 0..(n - 1) /\ y \in Int /\ z \in Int
    <3> HIDE DEF f, I
    <3> QED
      BY <1>1, <2>0, PowerType
  <2>2. (y * x) % n = (z * x) % n
    BY <1>4 DEF Round
  <2> HIDE DEF y, z
  <2>3. y * x = x * y /\ z * x = x * z
    BY <1>1, <2>1
  <2>4. y = z
    BY <1>1, <1>3, <2>1, <2>2, <2>3, TimesInjective
  <2>5. i \in Nat /\ j \in Nat /\ j - i \in 1..(d - 1)
    BY <1>2, <1>4
  <2>6. Power(a, j - i, n) = 1
    BY <1>4, <2>4, <2>5, PowersEqual DEF y, z
  <2> QED
    BY <2>5, <2>6 DEF Period
<1>5. \A i, j \in I : f[i] = f[j] => i = j
  <2> SUFFICES ASSUME NEW i \in I, NEW j \in I, f[i] = f[j], i # j PROVE FALSE
    OBVIOUS
  <2>1. i < j \/ j < i
    BY <1>2
  <2> HIDE DEF f
  <2> QED
    BY <1>4, <2>1
<1>6. f \in [I -> O] /\ \A o \in O : \E i \in I : f[i] = o
  OBVIOUS
<1>7. IsFiniteSet(I) /\ Cardinality(I) = d
  <2>1. d - 1 \in Int /\ 0 \in Int
    BY <1>2
  <2>2. IsFiniteSet(I) /\ Cardinality(I) = IF 0 > d - 1 THEN 0 ELSE (d - 1) - 0 + 1
    BY <2>1, FS_Interval
  <2> QED
    BY <1>2, <2>2
<1> HIDE DEF f, I
<1>8. f \in Bijection(I, O)
  BY <1>5, <1>6 DEF Bijection, Injection, Surjection, IsInjective
<1>9. ExistsBijection(I, O)
  BY <1>8 DEF ExistsBijection
<1> QED
  BY <1>7, <1>9, FS_Bijection

\* Rounds do not leave a closed set, and the rest is closed again.
LEMMA OrbitRemoved ==
  ASSUME NEW n, Prime(n), NEW a \in Int, ~Cong(a, 0, n), NEW d, Period(a, d, n),
         NEW S \in SUBSET (1..(n - 1)), ClosedUnder(S, a, n), NEW x \in S,
         NEW O, O = {Round(a, x, i, n) : i \in 0..(d - 1)}
  PROVE  O \subseteq S /\ ClosedUnder(S \ O, a, n)
<1>1. n \in Nat /\ n >= 2 /\ x \in Int /\ x \in 0..(n - 1) /\ n \in Nat \ {0}
  BY DEF Prime
<1>2. d \in Nat \ {0} /\ Power(a, d, n) = 1
  BY DEF Period
<1> DEFINE R(i) == Round(a, x, i, n)
           T == {i \in Nat : R(i) \in S}
<1>3. \A i \in Nat : R(i) \in 0..(n - 1) /\ R(i + 1) = (a * R(i)) % n
  BY <1>1, RoundNext
<1>4. R(0) = x /\ R(d) = x
  <2>1. Power(a, 0, n) = 1
    BY <1>1, PowerType
  <2>2. x % n = x /\ 1 * x = x
    BY <1>1, CongMod
  <2> QED
    BY <1>2, <2>1, <2>2 DEF Round
<1>5. O = {R(i) : i \in 0..(d - 1)}
  OBVIOUS
<1> HIDE DEF R
<1>6. Nat \subseteq T
  <2>1. 0 \in T
    BY <1>4
  <2>2. ASSUME NEW i \in Nat, i \in T PROVE i + 1 \in T
    BY <1>3, <2>2 DEF ClosedUnder
  <2> HIDE DEF T
  <2> QED
    BY <2>1, <2>2, NatInductive
<1>7. O \subseteq S
  <2>1. \A i \in Nat : R(i) \in S
    BY <1>6
  <2>2. \A i \in 0..(d - 1) : i \in Nat
    BY <1>2
  <2> QED
    BY <1>5, <2>1, <2>2
<1>8. ASSUME NEW y \in S \ O, (a * y) % n \notin S \ O PROVE FALSE
  <2>1. (a * y) % n \in O
    BY <1>8 DEF ClosedUnder
  <2>2. PICK i \in 0..(d - 1) : (a * y) % n = R(i)
    BY <1>5, <2>1
  <2>3. PICK j \in 0..(d - 1) : R(i) = R(j + 1)
    <3>1. CASE i = 0
      <4>1. d - 1 \in 0..(d - 1) /\ (d - 1) + 1 = d
        BY <1>2
      <4> QED
        BY <1>4, <3>1, <4>1
    <3>2. CASE i # 0
      <4>1. i - 1 \in 0..(d - 1) /\ (i - 1) + 1 = i
        BY <1>2, <3>2
      <4> QED
        BY <4>1
    <3> QED
      BY <3>1, <3>2
  <2>4. j \in Nat /\ y \in 0..(n - 1)
    BY <1>1, <1>2
  <2>5. R(j) \in 0..(n - 1) /\ (a * y) % n = (a * R(j)) % n
    BY <1>3, <2>2, <2>3, <2>4
  <2>6. y = R(j)
    BY <2>4, <2>5, TimesInjective
  <2>7. y \in O
    BY <1>5, <2>6
  <2> QED
    BY <1>8, <2>7
<1> QED
  BY <1>7, <1>8 DEF ClosedUnder

\* The order of a divides the number of elements of a closed set: it is made
\* of disjoint rounds.
LEMMA PeriodDivides ==
  ASSUME NEW n, Prime(n), NEW a \in Int, ~Cong(a, 0, n), NEW d, Period(a, d, n),
         NEW S \in SUBSET (1..(n - 1)), ClosedUnder(S, a, n)
  PROVE  \E q \in Nat : Cardinality(S) = q * d
<1>1. n \in Nat /\ n >= 2 /\ d \in Nat \ {0}
  BY DEF Prime, Period
<1> DEFINE U == 1..(n - 1)
           Bad(X) == X \in SUBSET U /\ ClosedUnder(X, a, n) /\ ~\E q \in Nat : Cardinality(X) = q * d
           T == {m \in Nat : \E X \in SUBSET U : Bad(X) /\ Cardinality(X) = m}
<1>2. \A X \in SUBSET U : IsFiniteSet(X) /\ Cardinality(X) \in Nat
  <2>1. n - 1 \in Int /\ 1 \in Int
    BY <1>1
  <2>2. IsFiniteSet(U)
    BY <2>1, FS_Interval
  <2> HIDE DEF U
  <2> QED
    BY <2>2, FS_Subset, FS_CardinalityType
<1>3. SUFFICES ASSUME Bad(S) PROVE FALSE
  OBVIOUS
<1>4. T # {}
  <2>1. Cardinality(S) \in T
    BY <1>2, <1>3
  <2> QED
    BY <2>1
<1>5. PICK m \in T : \A k \in T : m <= k
  <2> HIDE DEF Bad, U
  <2>1. T \subseteq Nat
    OBVIOUS
  <2> HIDE DEF T
  <2> QED
    BY <1>4, <2>1, LeastNatural
<1>6. PICK X \in SUBSET U : Bad(X) /\ Cardinality(X) = m
  BY <1>5
<1>7. m \in Nat /\ ClosedUnder(X, a, n) /\ ~\E q \in Nat : m = q * d
  BY <1>5, <1>6
<1>8. X # {}
  <2> SUFFICES ASSUME X = {} PROVE FALSE
    OBVIOUS
  <2>1. m = 0 /\ 0 * d = 0
    BY <1>1, <1>6, FS_EmptySet
  <2> QED
    BY <1>7, <2>1
<1>9. PICK x : x \in X
  BY <1>8
<1>10. PICK O : O = {Round(a, x, i, n) : i \in 0..(d - 1)}
  OBVIOUS
<1>11. x \in 1..(n - 1) /\ X \in SUBSET (1..(n - 1))
  BY <1>6, <1>9
<1> HIDE DEF T, Bad
<1>12. O \subseteq X /\ ClosedUnder(X \ O, a, n)
  BY <1>7, <1>9, <1>10, <1>11, OrbitRemoved
<1>13. IsFiniteSet(O) /\ Cardinality(O) = d
  BY <1>10, <1>11, OrbitCount
<1>14. Cardinality(X \ O) = m - d /\ X \ O \in SUBSET U
  <2>1. IsFiniteSet(X)
    BY <1>2
  <2>2. Cardinality(X \ O) = Cardinality(X) - Cardinality(X \cap O)
    BY <2>1, FS_Difference
  <2>3. X \cap O = O
    BY <1>12
  <2> QED
    BY <1>6, <1>13, <2>2, <2>3
<1>15. m - d \in Nat
  BY <1>2, <1>14
<1>16. m - d \notin T
  <2> SUFFICES ASSUME m - d \in T PROVE FALSE
    OBVIOUS
  <2>1. m <= m - d
    BY <1>5
  <2> QED
    BY <1>1, <1>7, <2>1
<1>17. ~Bad(X \ O)
  <2> HIDE DEF U
  <2> QED
    BY <1>14, <1>15, <1>16 DEF T
<1>18. PICK q \in Nat : m - d = q * d
  BY <1>12, <1>14, <1>17 DEF Bad
<1>19. m = (q + 1) * d /\ q + 1 \in Nat
  BY <1>1, <1>7, <1>18
<1> QED
  BY <1>7, <1>19

\* Fermat's theorem.
LEMMA Fermat ==
  ASSUME NEW n, Prime(n), NEW a \in Int, ~Cong(a, 0, n)
  PROVE  Power(a, n - 1, n) = 1
<1>1. n \in Nat /\ n >= 2 /\ n \in Nat \ {0} /\ 0 \in 0..(n - 1)
  BY DEF Prime
<1>2. PICK d \in Nat : Period(a, d, n)
  BY PeriodExists
<1>3. PICK S : S = 1..(n - 1)
  OBVIOUS
<1>4. ClosedUnder(S, a, n)
  <2> SUFFICES ASSUME NEW x \in 1..(n - 1) PROVE (a * x) % n \in 1..(n - 1)
    BY <1>3 DEF ClosedUnder
  <2>1. x \in Int /\ x \in 0..(n - 1) /\ a * x \in Int /\ x # 0
    BY <1>1
  <2>2. ~Cong(x, 0, n)
    BY <1>1, <2>1, CongSmall
  <2>3. ~Cong(a * x, 0, n)
    BY <2>1, <2>2, PrimeProduct
  <2>4. (a * x) % n \in 0..(n - 1)
    BY <1>1, <2>1, CongMod
  <2>5. PICK y \in Int : y = a * x
    BY <2>1
  <2>6. y % n # 0
    <3> SUFFICES ASSUME y % n = 0 PROVE FALSE
      OBVIOUS
    <3>1. Cong(y % n, y, n)
      BY <1>1, CongMod
    <3>2. Cong(y, 0, n)
      BY <1>1, <3>1, CongEquivalence
    <3> QED
      BY <2>3, <2>5, <3>2
  <2> QED
    BY <1>1, <2>4, <2>5, <2>6
<1>5. Cardinality(S) = n - 1
  <2>1. n - 1 \in Int /\ 1 \in Int /\ ~(1 > n - 1)
    BY <1>1
  <2>2. Cardinality(1..(n - 1)) = (n - 1) - 1 + 1
    BY <2>1, FS_Interval
  <2> QED
    BY <1>1, <1>3, <2>2
<1>6. PICK q \in Nat : Cardinality(S) = q * d
  <2>1. S \in SUBSET (1..(n - 1))
    BY <1>3
  <2> QED
    BY <1>2, <1>4, <2>1, PeriodDivides
<1>7. Power(a, d, n) = 1
  BY <1>2 DEF Period
<1>8. Power(a, q * d, n) = 1
  BY <1>1, <1>2, <1>6, <1>7, PowerOne
<1> QED
  BY <1>5, <1>6, <1>8

\* With n = 4e - 1 the e-th power takes roots: its fourth power is the square.
LEMMA FourthPower ==
  ASSUME NEW n, Prime(n), NEW e \in Nat, 4 * e = n + 1, NEW a \in Int, ~Cong(a, 0, n),
         NEW s, s = Power(a, e, n)
  PROVE  s \in Int /\ Cong((s * s) * (s * s), a * a, n)
<1>1. n \in Nat /\ n >= 2 /\ n \in Nat \ {0} /\ n - 1 \in Nat
  BY DEF Prime
<1>2. s \in Int
  BY <1>1, PowerType
<1>a. PICK f \in Nat : f = e + e
  OBVIOUS
<1>b. f + f \in Nat /\ 2 \in Nat
  OBVIOUS
<1> DEFINE t == Power(a, f, n)
           u == Power(a, 2, n)
           v == Power(a, f + f, n)
<1>3. t \in Int /\ u \in Int /\ v \in Int
  BY <1>1, <1>b, PowerType
<1>4. Cong(t, s * s, n)
  BY <1>1, <1>a, PowerSum
<1>5. Cong(v, t * t, n)
  BY <1>1, PowerSum
<1>6. Cong(v, 1 * u, n)
  <2>1. Power(a, n - 1, n) = 1
    BY Fermat
  <2>2. Cong(Power(a, (n - 1) + 2, n), Power(a, n - 1, n) * Power(a, 2, n), n)
    BY <1>1, PowerSum
  <2>3. (n - 1) + 2 = f + f
    BY <1>1, <1>a
  <2> QED
    BY <2>1, <2>2, <2>3
<1>7. Cong(u, a * a, n)
  <2>1. Power(a, 0, n) = 1 /\ Power(a, 1, n) \in Int
    BY <1>1, PowerType
  <2>2. Cong(Power(a, 0 + 1, n), a * Power(a, 0, n), n) /\ Cong(Power(a, 1 + 1, n), a * Power(a, 1, n), n)
    BY <1>1, PowerNext
  <2>3. Cong(Power(a, 1, n), a, n) /\ Cong(u, a * Power(a, 1, n), n)
    BY <2>1, <2>2
  <2>4. PICK w \in Int : w = Power(a, 1, n)
    BY <2>1
  <2> HIDE DEF u
  <2>5. a * w \in Int /\ a * a \in Int
    OBVIOUS
  <2>6. Cong(a * w, a * a, n)
    BY <1>1, <2>3, <2>4, CongEquivalence, CongArithmetic
  <2> QED
    BY <1>1, <1>3, <2>3, <2>4, <2>5, <2>6, CongEquivalence
<1> HIDE DEF t, u, v
<1>8. s * s \in Int /\ t * t \in Int /\ (s * s) * (s * s) \in Int /\ a * a \in Int /\ 1 * u = u
  BY <1>2, <1>3
<1>9. Cong(t * t, (s * s) * (s * s), n)
  BY <1>1, <1>3, <1>4, <1>8, CongArithmetic
<1>10. Cong((s * s) * (s * s), t * t, n) /\ Cong(t * t, v, n) /\ Cong(v, u, n)
  BY <1>1, <1>3, <1>5, <1>6, <1>8, <1>9, CongEquivalence
<1>11. Cong((s * s) * (s * s), v, n) /\ Cong(v, a * a, n)
  BY <1>1, <1>3, <1>7, <1>8, <1>10, CongEquivalence
<1>12. Cong((s * s) * (s * s), a * a, n)
  BY <1>1, <1>3, <1>8, <1>11, CongEquivalence
<1> QED
  BY <1>2, <1>12

-----------------------------------------------------------------------------
(* Total adds up what it is given, element by element.                     *)

\* g holds the sums of the first i elements of v, for i up to n.
Running(g, v, n) == g = [i \in 0..n |-> IF i = 0 THEN 0 ELSE g[i - 1] + v[i]]

\* There are running sums of any length.
LEMMA RunningExists ==
  ASSUME NEW v, NEW n \in Nat
  PROVE  \E g : Running(g, v, n)
<1> DEFINE T == {m \in Nat : \E g : Running(g, v, m)}
<1>1. 0 \in T
  <2> DEFINE g == [i \in 0..0 |-> 0]
  <2>1. Running(g, v, 0)
    BY DEF Running
  <2> QED
    BY <2>1
<1>2. ASSUME NEW m \in Nat, m \in T PROVE m + 1 \in T
  <2>1. PICK g : Running(g, v, m)
    BY <1>2
  <2> DEFINE h == [i \in 0..(m + 1) |-> IF i = m + 1 THEN g[m] + v[m + 1] ELSE g[i]]
  <2>2. \A i \in 0..m : g[i] = IF i = 0 THEN 0 ELSE g[i - 1] + v[i]
    BY <2>1 DEF Running
  <2>3. ASSUME NEW i \in 0..(m + 1) PROVE h[i] = IF i = 0 THEN 0 ELSE h[i - 1] + v[i]
    <3>1. CASE i = 0
      BY <2>2, <3>1
    <3>2. CASE i = m + 1
      BY <3>2
    <3>3. CASE i # 0 /\ i # m + 1
      <4>1. i \in 0..m /\ i - 1 \in 0..(m + 1) /\ i - 1 # m + 1
        BY <3>3
      <4>2. h[i] = g[i] /\ h[i - 1] = g[i - 1]
        BY <3>3, <4>1
      <4> QED
        BY <2>2, <3>3, <4>1, <4>2
    <3> QED
      BY <3>1, <3>2, <3>3
  <2>4. h = [i \in 0..(m + 1) |-> h[i]]
    OBVIOUS
  <2> HIDE DEF h
  <2>5. Running(h, v, m + 1)
    BY <2>3, <2>4 DEF Running
  <2> QED
    BY <2>5
<1> HIDE DEF T
<1>3. n \in T
  BY <1>1, <1>2, NatInductive
<1> QED
  BY <1>3 DEF T

\* Lists that agree have the same running sums.
LEMMA RunningUnique ==
  ASSUME NEW v, NEW w, NEW n \in Nat, NEW g, NEW h, NEW k \in Nat, k <= n,
         Running(g, v, n), Running(h, w, k), \A i \in 1..k : v[i] = w[i]
  PROVE  \A i \in 0..k : g[i] = h[i]
<1> DEFINE T == {i \in Nat : i <= k => g[i] = h[i]}
<1>1. /\ \A i \in 0..n : g[i] = IF i = 0 THEN 0 ELSE g[i - 1] + v[i]
      /\ \A i \in 0..k : h[i] = IF i = 0 THEN 0 ELSE h[i - 1] + w[i]
  BY DEF Running
<1>2. 0 \in T
  BY <1>1
<1>3. ASSUME NEW i \in Nat, i \in T PROVE i + 1 \in T
  <2> SUFFICES ASSUME i + 1 <= k PROVE g[i + 1] = h[i + 1]
    OBVIOUS
  <2>1. i + 1 \in 0..n /\ i + 1 \in 0..k /\ i + 1 # 0 /\ (i + 1) - 1 = i /\ i + 1 \in 1..k
    OBVIOUS
  <2>2. g[i + 1] = g[i] + v[i + 1] /\ h[i + 1] = h[i] + w[i + 1]
    BY <1>1, <2>1
  <2>3. g[i] = h[i]
    BY <1>3
  <2> QED
    BY <2>1, <2>2, <2>3
<1> HIDE DEF T
<1>4. Nat \subseteq T
  BY <1>2, <1>3, NatInductive
<1> QED
  BY <1>4 DEF T

\* Total is the last of the running sums.
LEMMA TotalIsLast ==
  ASSUME NEW v, Len(v) \in Nat, NEW g, Running(g, v, Len(v))
  PROVE  Total(v) = g[Len(v)]
<1> DEFINE n == Len(v)
<1>1. ASSUME NEW h, h = [i \in 0..n |-> IF i = 0 THEN 0 ELSE h[i - 1] + v[i]]
      PROVE  h = g
  <2>1. Running(h, v, n) /\ Running(g, v, n)
    BY <1>1 DEF Running
  <2>2. \A i \in 0..n : g[i] = h[i]
    BY <2>1, RunningUnique
  <2>3. g = [i \in 0..n |-> g[i]] /\ h = [i \in 0..n |-> h[i]]
    BY <2>1 DEF Running
  <2> QED
    BY <2>2, <2>3
<1> QED
  BY <1>1 DEF Total, Running

\* Running sums of numbers are numbers.
LEMMA RunningType ==
  ASSUME NEW v, NEW n \in Nat, NEW g, Running(g, v, n), \A i \in 1..n : v[i] \in Int
  PROVE  \A i \in 0..n : g[i] \in Int
<1> DEFINE T == {i \in Nat : i <= n => g[i] \in Int}
<1>1. \A i \in 0..n : g[i] = IF i = 0 THEN 0 ELSE g[i - 1] + v[i]
  BY DEF Running
<1>2. 0 \in T
  BY <1>1
<1>3. ASSUME NEW i \in Nat, i \in T PROVE i + 1 \in T
  <2> SUFFICES ASSUME i + 1 <= n PROVE g[i + 1] \in Int
    OBVIOUS
  <2>1. i + 1 \in 0..n /\ i + 1 # 0 /\ (i + 1) - 1 = i /\ i + 1 \in 1..n
    OBVIOUS
  <2>2. g[i + 1] = g[i] + v[i + 1]
    BY <1>1, <2>1
  <2> QED
    BY <1>3, <2>1, <2>2
<1> HIDE DEF T
<1>4. Nat \subseteq T
  BY <1>2, <1>3, NatInductive
<1> QED
  BY <1>4 DEF T

-----------------------------------------------------------------------------
(* What the properties use.                                                *)

\* A sum of numbers is a number, and the empty sum is 0.
LEMMA TotalType ==
  ASSUME NEW v \in Seq(Int)
  PROVE  Total(v) \in Int /\ (Len(v) = 0 => Total(v) = 0)
<1>1. Len(v) \in Nat /\ \A i \in 1..Len(v) : v[i] \in Int
  BY LenProperties, ElementOfSeq
<1>2. PICK g : Running(g, v, Len(v))
  BY <1>1, RunningExists
<1>3. Total(v) = g[Len(v)]
  BY <1>1, <1>2, TotalIsLast
<1>4. \A i \in 0..Len(v) : g[i] \in Int
  BY <1>1, <1>2, RunningType
<1>5. g[0] = 0
  BY <1>1, <1>2 DEF Running
<1> QED
  BY <1>1, <1>3, <1>4, <1>5

\* One element more adds that element.
LEMMA TotalAppend ==
  ASSUME NEW v \in Seq(Int), NEW x \in Int
  PROVE  Total(Append(v, x)) = Total(v) + x
<1> DEFINE n == Len(v)
           w == Append(v, x)
<1>1. n \in Nat
  BY LenProperties
<1>2. w \in Seq(Int) /\ Len(w) = n + 1 /\ w[n + 1] = x /\ \A i \in 1..n : w[i] = v[i]
  BY AppendProperties
<1>3. PICK m \in Nat : m = n + 1 /\ n <= m
  BY <1>1
<1>4. Len(w) = m /\ \A i \in 1..n : w[i] = v[i]
  BY <1>2, <1>3
<1> HIDE DEF w, n
<1>5. PICK g : Running(g, v, n)
  BY <1>1, RunningExists
<1>6. PICK h : Running(h, w, m)
  BY RunningExists
<1>7. Total(v) = g[n] /\ Total(w) = h[m]
  BY <1>1, <1>4, <1>5, <1>6, TotalIsLast DEF n
<1>8. \A i \in 0..n : h[i] = g[i]
  BY <1>1, <1>3, <1>4, <1>5, <1>6, RunningUnique
<1>9. h[m] = h[n] + w[m]
  BY <1>1, <1>3, <1>6 DEF Running
<1>10. Total(w) = Total(v) + x
  BY <1>1, <1>2, <1>3, <1>7, <1>8, <1>9
<1> QED
  BY <1>10 DEF w

\* Changing one element changes the sum by the difference.
LEMMA TotalExcept ==
  ASSUME NEW v \in Seq(Int), NEW k \in 1..Len(v), NEW x \in Int
  PROVE  Total([v EXCEPT ![k] = x]) = Total(v) - v[k] + x
<1> DEFINE n == Len(v)
           w == [v EXCEPT ![k] = x]
<1>1. n \in Nat /\ \A i \in 1..n : v[i] \in Int
  BY LenProperties, ElementOfSeq
<1>2. w \in Seq(Int) /\ Len(w) = n /\ \A i \in 1..n : w[i] = IF i = k THEN x ELSE v[i]
  BY ExceptSeq, LenProperties
<1>3. k \in 1..n
  OBVIOUS
<1>4. Len(v) = n /\ Len(w) = n
  BY <1>2
<1> HIDE DEF n, w
<1>5. PICK g : Running(g, v, n)
  BY <1>1, RunningExists
<1>6. PICK h : Running(h, w, n)
  BY <1>1, RunningExists
<1>7. Total(v) = g[n] /\ Total(w) = h[n]
  BY <1>1, <1>4, <1>5, <1>6, TotalIsLast
<1>8. /\ \A i \in 0..n : g[i] = IF i = 0 THEN 0 ELSE g[i - 1] + v[i]
      /\ \A i \in 0..n : h[i] = IF i = 0 THEN 0 ELSE h[i - 1] + w[i]
  BY <1>5, <1>6 DEF Running
<1>9. \A i \in 0..n : g[i] \in Int
  BY <1>1, <1>5, RunningType
<1> DEFINE T == {i \in Nat : i <= n => h[i] = IF i < k THEN g[i] ELSE g[i] - v[k] + x}
<1>10. 0 \in T
  BY <1>1, <1>3, <1>8
<1>11. ASSUME NEW i \in Nat, i \in T PROVE i + 1 \in T
  <2> SUFFICES ASSUME i + 1 <= n
               PROVE  h[i + 1] = IF i + 1 < k THEN g[i + 1] ELSE g[i + 1] - v[k] + x
    OBVIOUS
  <2>1. i + 1 \in 0..n /\ i + 1 # 0 /\ (i + 1) - 1 = i /\ i + 1 \in 1..n /\ i \in 0..n
    BY <1>1
  <2>2. g[i + 1] = g[i] + v[i + 1] /\ h[i + 1] = h[i] + w[i + 1]
    BY <1>8, <2>1
  <2>3. g[i] \in Int /\ v[i + 1] \in Int /\ v[k] \in Int /\ k \in Int
    BY <1>1, <1>3, <1>9, <2>1
  <2>4. h[i] = IF i < k THEN g[i] ELSE g[i] - v[k] + x
    BY <1>1, <1>11
  <2>5. w[i + 1] = IF i + 1 = k THEN x ELSE v[i + 1]
    BY <1>2, <2>1
  <2>6. CASE i + 1 < k
    BY <2>2, <2>3, <2>4, <2>5, <2>6
  <2>7. CASE i + 1 = k
    <3>1. h[i + 1] = g[i] + x /\ g[i + 1] = g[i] + v[k]
      BY <2>2, <2>3, <2>4, <2>5, <2>7
    <3> QED
      BY <2>3, <2>7, <3>1
  <2>8. CASE i + 1 > k
    <3>1. h[i + 1] = (g[i] - v[k] + x) + v[i + 1] /\ g[i + 1] = g[i] + v[i + 1]
      BY <2>2, <2>3, <2>4, <2>5, <2>8
    <3> QED
      BY <2>3, <2>8, <3>1
  <2> QED
    BY <2>3, <2>6, <2>7, <2>8
<1> HIDE DEF T
<1>12. Nat \subseteq T
  BY <1>10, <1>11, NatInductive
<1>13. n \in T
  BY <1>1, <1>12
<1>14. h[n] = g[n] - v[k] + x
  BY <1>1, <1>3, <1>13 DEF T
<1> QED
  BY <1>7, <1>14 DEF w

\* No element of a list of natural numbers exceeds their sum.
LEMMA TotalBounds ==
  ASSUME NEW v \in Seq(Nat)
  PROVE  Total(v) \in Nat /\ \A k \in 1..Len(v) : v[k] <= Total(v)
<1> DEFINE n == Len(v)
<1>1. n \in Nat /\ \A i \in 1..n : v[i] \in Nat
  BY LenProperties, ElementOfSeq
<1>2. Len(v) = n
  OBVIOUS
<1> HIDE DEF n
<1>3. PICK g : Running(g, v, n)
  BY <1>1, RunningExists
<1>4. Total(v) = g[n]
  BY <1>1, <1>2, <1>3, TotalIsLast
<1>5. \A i \in 0..n : g[i] = IF i = 0 THEN 0 ELSE g[i - 1] + v[i]
  BY <1>3 DEF Running
<1> DEFINE T == {i \in Nat : i <= n => g[i] \in Nat /\ \A k \in 1..i : v[k] <= g[i]}
<1>6. 0 \in T
  BY <1>1, <1>5
<1>7. ASSUME NEW i \in Nat, i \in T PROVE i + 1 \in T
  <2> SUFFICES ASSUME i + 1 <= n
               PROVE  g[i + 1] \in Nat /\ \A k \in 1..(i + 1) : v[k] <= g[i + 1]
    OBVIOUS
  <2>1. i + 1 \in 0..n /\ i + 1 # 0 /\ (i + 1) - 1 = i /\ i + 1 \in 1..n /\ i <= n
    BY <1>1
  <2>2. g[i + 1] = g[i] + v[i + 1]
    BY <1>5, <2>1
  <2>3. g[i] \in Nat /\ v[i + 1] \in Nat /\ \A k \in 1..i : v[k] <= g[i]
    BY <1>1, <1>7, <2>1
  <2>4. ASSUME NEW k \in 1..(i + 1) PROVE v[k] <= g[i + 1]
    <3>1. k \in 1..n
      BY <1>1
    <3>2. v[k] \in Nat
      BY <1>1, <3>1
    <3>3. CASE k = i + 1
      BY <2>2, <2>3, <3>3
    <3>4. CASE k # i + 1
      <4>1. v[k] <= g[i]
        BY <2>3, <3>4
      <4> QED
        BY <2>2, <2>3, <3>2, <4>1
    <3> QED
      BY <3>3, <3>4
  <2> QED
    BY <2>2, <2>3, <2>4
<1> HIDE DEF T
<1>8. n \in T
  BY <1>1, <1>6, <1>7, NatInductive
<1> QED
  BY <1>1, <1>2, <1>4, <1>8 DEF T
=============================================================================
