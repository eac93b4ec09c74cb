-------------------------------- MODULE Field --------------------------------
(***************************************************************************)
(* Field elements modulo the prime as libsecp256k1 computes them           *)
(* (src/field_5x52_impl.h, src/field_5x52_int128_impl.h,                   *)
(* src/field_10x26_impl.h, src/field_impl.h).  An element is a vector of   *)
(* limbs that may be larger than their nominal width: additions do not     *)
(* carry, and the caller tracks how large the limbs may be (magnitude)     *)
(* and whether the vector is the canonical one (normalized).               *)
(*                                                                         *)
(* The preprocessor picks one of two layouts, five limbs of 52 bits or     *)
(* ten of 26; here the choice is the variable build, made once.  The       *)
(* prime keeps the code's shape, P = 2^(B*(L-1)+T) - (C0 + C1 * 2^B), with *)
(* a top limb of T < B bits.  mag bounds the magnitude of an element (2048 *)
(* in the code) and mul the product of the magnitudes that a product takes *)
(* (8 * 8 in the code): both follow from how much wider than a limb of P   *)
(* the constants C0 and C1 leave the words.                                *)
(*                                                                         *)
(* The state machine is two elements in memory, a and b, and the calls a   *)
(* caller may make under the documented preconditions (the VERIFY_CHECKs   *)
(* on magnitude and normalized).  va and vb are the residues the caller    *)
(* believes they are.                                                      *)
(***************************************************************************)
EXTENDS Integers, Sequences, FiniteSetsExt, SequencesExt, Chain

CONSTANTS
    Builds,     \* the layouts: records with L, B, T, C0, C1, mag and mul
    Seeds,      \* numbers that elements are loaded from
    MaxSteps    \* bound on the number of calls

VARIABLES
    build,      \* the layout the library was compiled with
    a, b,       \* two field elements
    va, vb,     \* their values modulo P
    steps       \* calls made so far

elements == <<build, a, b, va, vb, steps>>
vars == <<elements, power>>

-----------------------------------------------------------------------------
(* Limbs. *)

LL(l)  == 0 .. l.L - 1
Prime(l) == 2^(l.B * (l.L - 1) + l.T) - (l.C0 + l.C1 * 2^l.B)
PLimbs(l) == [i \in LL(l) |-> CASE i = 0 -> 2^l.B - l.C0
                                [] i = 1 -> 2^l.B - 1 - l.C1
                                [] i = l.L - 1 -> 2^l.T - 1
                                [] OTHER -> 2^l.B - 1]

\* The shape of a layout: every limb of P is at least m/(m+1) of a full limb, so
\* that fe_negate cannot wrap below zero, and the top limb is wide enough for
\* the first pass of a normalisation to leave at most one carry.
ASSUME FieldAssumption ==
    /\ MaxSteps \in Nat
    /\ \A l \in Builds :
        /\ l.L \in {5, 10} /\ l.T < l.B /\ l.C0 \in 1 .. 2^l.B - 1
        /\ l.L = 5 => l.C1 = 0
        /\ 2 * l.mag <= 2^l.T
        /\ \A i \in 0 .. l.L - 2 : \A m \in 0 .. l.mag - 1 :
              PLimbs(l)[i] * (m + 1) >= (2^l.B - 1) * m

L == build.L
B == build.B
T == build.T
Limbs == 0 .. L - 1
Top   == L - 1
BASE  == 2^B
M     == BASE - 1
P     == Prime(build)
PL    == PLimbs(build)

\* v * k modulo P by doubling, and the residue a vector stands for and its
\* product with a residue by Horner's rule: the numbers stay within 31 bits.
Times(v, k) ==
    LET f[j \in 0 .. k] == IF j = 0 THEN 0 ELSE (2 * f[j \div 2] + (j % 2) * v) % P
    IN  f[k]
TimesMod(v, n) ==
    LET h[i \in 0 .. L] ==
            IF i = L THEN 0 ELSE (Times(h[i+1], BASE) + Times(v, n[i])) % P
    IN  h[0]
Residue(n) == TimesMod(1, n)

ToLimbs(x) == [i \in Limbs |-> IF i = Top THEN x \div BASE^i ELSE (x \div BASE^i) % BASE]

\* ok becomes FALSE when a VERIFY_CHECK inside an operation fails.
Fe(n, magnitude, normalized, ok) ==
    [n |-> n, magnitude |-> magnitude, normalized |-> normalized, ok |-> ok]

\* Is a carried vector at least P?  (Its top limb may have one bit too many.)
AtLeastP(t) ==
    /\ t[Top] = 2^T - 1
    /\ \A i \in 2 .. Top - 1 : t[i] = M
    /\ t[1] + build.C1 + (t[0] + build.C0) \div BASE > M

\* The limb bounds that magnitude and normalized promise.
fe_verify(r) ==
    LET m == IF r.normalized THEN 1 ELSE 2 * r.magnitude
    IN  /\ \A i \in Limbs \ {Top} : r.n[i] \in 0 .. M * m
        /\ r.n[Top] \in 0 .. (2^T - 1) * m
        /\ r.magnitude \in 0 .. build.mag
        /\ r.normalized => r.magnitude <= 1 /\ ~AtLeastP(r.n)

\* t1 += t0 >> B; t0 &= M; ... : every limb but the top one is cut to B bits.
Carry(n) ==
    LET t[i \in Limbs] == n[i] + (IF i = 0 THEN 0 ELSE t[i-1] \div BASE)
    IN  [i \in Limbs |-> IF i = Top THEN t[i] ELSE t[i] % BASE]

\* Mutant: the second limb of the constant is forgotten.
AddXLow(n, x) == [n EXCEPT ![0] = @ + x * build.C0]

\* Adds x * (2^256 - P), which is how x * 2^256 is folded back.
AddX(n, x) == [n EXCEPT ![0] = @ + x * build.C0, ![1] = @ + x * build.C1]

\* The first pass: cut the top limb and fold what was above it.
FirstPass(n) ==
    Carry(AddX([n EXCEPT ![Top] = @ % 2^T], n[Top] \div 2^T))

-----------------------------------------------------------------------------
(* Normalisation. *)

\* The conditional last subtraction of P, as an addition and a mask: x says
\* whether it is needed, t is the vector after the first pass.
FinalReduction(t, x, ok) ==
    LET u == Carry(AddX(t, x))
    IN  Fe([u EXCEPT ![Top] = @ % 2^T], 1, TRUE,
           ok /\ t[Top] \div 2^(T+1) = 0 /\ u[Top] \div 2^T = x)

\* Mutant: only a carry out of the top limb is noticed.
NeedsPOnCarry(t) == IF t[Top] \div 2^T # 0 THEN 1 ELSE 0

NeedsP(t) == IF t[Top] \div 2^T # 0 \/ AtLeastP(t) THEN 1 ELSE 0

NormalizeFrom(t, ok) == FinalReduction(t, NeedsP(t), ok)
fe_normalize(r) == NormalizeFrom(FirstPass(r.n), r.ok)

\* Magnitude 1, but not necessarily the canonical vector.
WeakFrom(t, r) == Fe(t, 1, r.normalized, r.ok /\ t[Top] \div 2^(T+1) = 0)
fe_normalize_weak(r) == WeakFrom(FirstPass(r.n), r)

\* The variable-time one only does the second pass when it is needed.
NormalizeVarFrom(t, ok) ==
    IF NeedsP(t) = 1 THEN FinalReduction(t, 1, ok)
    ELSE Fe(t, 1, TRUE, ok /\ t[Top] \div 2^(T+1) = 0)
fe_normalize_var(r) == NormalizeVarFrom(FirstPass(r.n), r.ok)

\* z0 and z1 of the code: the raw value after the first pass is 0 or P.
RawZero(t) == (\A i \in Limbs : t[i] = 0) \/ t = PL

fe_normalizes_to_zero(r) == RawZero(FirstPass(r.n))

\* Looks at the low limb first and returns early for most inputs.
fe_normalizes_to_zero_var(r) ==
    LET t0 == r.n[0] + (r.n[Top] \div 2^T) * build.C0
    IN  /\ t0 % BASE \in {0, PL[0]}
        /\ RawZero(FirstPass(r.n))

-----------------------------------------------------------------------------
(* Loading, storing and comparing. *)

fe_set_int(v) == Fe([i \in Limbs |-> IF i = 0 THEN v ELSE 0], 1, TRUE, TRUE)

fe_clear == Fe([i \in Limbs |-> 0], 0, TRUE, TRUE)

fe_is_zero(r) == \A i \in Limbs : r.n[i] = 0

fe_is_odd(r) == r.n[0] % 2 = 1

\* Mutant: from the lowest limb up.
fe_cmp_up(r, s) ==
    LET differ == {i \in Limbs : r.n[i] # s.n[i]}
    IN  IF differ = {} THEN 0
        ELSE IF r.n[Min(differ)] > s.n[Min(differ)] THEN 1 ELSE -1

\* From the top limb down; 1, 0 or -1.
fe_cmp_var(r, s) ==
    LET differ == {i \in Limbs : r.n[i] # s.n[i]}
    IN  IF differ = {} THEN 0
        ELSE IF r.n[Max(differ)] > s.n[Max(differ)] THEN 1 ELSE -1

\* A 32-byte string is the number it spells; one of P or more is refused.
fe_set_b32(x) == Fe(ToLimbs(x), 1, TRUE, TRUE)
fe_set_b32_ret(x) == IF AtLeastP(ToLimbs(x)) THEN 0 ELSE 1

fe_get_b32(r) ==
    LET h[i \in 0 .. L] == IF i = L THEN 0 ELSE h[i+1] * BASE + r.n[i] IN h[0]

\* The packed form without spare bits, and back (normalized, magnitude 1).
fe_to_storage(r) == fe_get_b32(r)
fe_from_storage(x) == Fe(ToLimbs(x), 1, TRUE, TRUE)

-----------------------------------------------------------------------------
(* Arithmetic. *)

\* Mutant: the magnitude is not raised.
fe_negate_unraised(r, m) ==
    Fe([i \in Limbs |-> PL[i] * 2 * (m + 1) - r.n[i]], m, FALSE, r.ok)

\* 2(m+1)P - r, limb by limb: m is the caller's bound on the magnitude.
fe_negate(r, m) ==
    Fe([i \in Limbs |-> PL[i] * 2 * (m + 1) - r.n[i]], m + 1, FALSE, r.ok)

fe_mul_int(r, k) ==
    Fe([i \in Limbs |-> r.n[i] * k], r.magnitude * k, FALSE, r.ok)

fe_add(r, s) ==
    Fe([i \in Limbs |-> r.n[i] + s.n[i]], r.magnitude + s.magnitude, FALSE,
       r.ok /\ s.ok)

fe_cmov(r, s, flag) ==
    Fe(IF flag = 1 THEN s.n ELSE r.n,
       IF s.magnitude > r.magnitude THEN s.magnitude ELSE r.magnitude,
       r.normalized /\ s.normalized, r.ok /\ s.ok)

fe_storage_cmov(x, y, flag) == IF flag = 1 THEN y ELSE x

\* p[k] = sum of n[i] * m[k-i]; the square adds every mixed product doubled.
Columns(n, m) ==
    [k \in 0 .. 2*Top |->
        FoldSet(LAMBDA i, acc : acc + n[i] * m[k-i], 0,
                {i \in Limbs : k - i \in Limbs})]
SqrColumns(n) ==
    [k \in 0 .. 2*Top |->
        FoldSet(LAMBDA i, acc : acc + (IF i = k - i THEN 1 ELSE 2) * n[i] * n[k-i], 0,
                {i \in Limbs : k - i \in Limbs /\ i <= k - i})]

\* Accumulators of the reduction: c below, d above, out the finished limbs.
Accu(c, d, tx) == [c |-> c, d |-> d, tx |-> tx, out |-> <<>>, kept |-> <<>>]

(* The 5x52 reduction: columns 3 and 4 first, so that the overflow of limb 4 *)
(* (tx) joins column 5; then columns 0..2 with 5..7 folded onto them.        *)
Keep5(s, p, c8) ==        \* t3 or t4: the limb at d, then d moves up
    [s EXCEPT !.kept = Append(@, (s.d + p + c8) % BASE), !.d = (s.d + p + c8) \div BASE]
High5(p8, p3, p4, R) ==
    Keep5(Keep5(Accu(0, 0, 0), p3, (p8 % BASE) * R), p4, (p8 \div BASE) * R)
SplitT4(s) ==             \* tx = t4 >> T; t4 &= M >> (B-T)
    [s EXCEPT !.tx = s.kept[2] \div 2^T, !.kept[2] = @ % 2^T]
Low5(s, p, q, R, first) ==  \* one low column p with the high column q folded on
    LET d == s.d + q
        c == s.c + p + (IF first THEN ((d % BASE) * 2^(B-T) + s.tx) * (R \div 2^(B-T))
                        ELSE (d % BASE) * R)
    IN  [s EXCEPT !.out = Append(@, c % BASE), !.c = c \div BASE, !.d = d \div BASE]
End5(s, c3) ==            \* r3 and r4: what is left, with t3 and t4
    LET c == s.c + s.d * c3 + s.kept[1]
    IN  s.out \o <<c % BASE, c \div BASE + s.kept[2]>>
Reduce5x52(p) ==
    LET R == build.C0 * 2^(B-T)
    IN  End5(Low5(Low5(Low5(SplitT4(High5(p[8], p[3], p[4], R)),
                            p[0], p[5], R, TRUE), p[1], p[6], R, FALSE),
                  p[2], p[7], R, FALSE), R)

(* The 10x26 reduction: column 9 is kept, then columns 0..8 take the columns *)
(* 10..18 with the two-limb constant (R0, R1).                               *)
Low10(s, p, q, R0, R1) ==
    LET d == s.d + q
        u == d % BASE
        c == s.c + p + u * R0
    IN  [s EXCEPT !.out = Append(@, c % BASE), !.c = c \div BASE + u * R1,
                  !.d = d \div BASE]
Loop10(p, R0, R1) ==
    FoldLeft(LAMBDA s, k : Low10(s, p[k], p[k+10], R0, R1),
             Accu(0, p[9] \div BASE, 0), <<0, 1, 2, 3, 4, 5, 6, 7, 8>>)
Tail10(out, r9, e0, e1) ==  \* r0, r1 and r2 take the last carry
    <<e0 % BASE, e1 % BASE, e1 \div BASE + out[3]>> \o SubSeq(out, 4, 9) \o <<r9>>
Fold10(s, c9, c, R0, R1) ==
    LET e0 == c * (R0 \div 2^(B-T)) + s.out[1]
    IN  Tail10(s.out, c9 % 2^T, e0, e0 \div BASE + c * (R1 \div 2^(B-T)) + s.out[2])
End10(s, t9, R0, R1) ==
    LET c9 == s.c + s.d * R0 + t9
    IN  Fold10(s, c9, c9 \div 2^T + s.d * (R1 * 2^(B-T)), R0, R1)
Reduce10x26(p) ==
    LET R0 == build.C0 * 2^(B-T)
        R1 == build.C1 * 2^(B-T)
    IN  End10(Loop10(p, R0, R1), p[9] % BASE, R0, R1)

Reduced(p) == LET s == IF L = 5 THEN Reduce5x52(p) ELSE Reduce10x26(p)
              IN  [i \in Limbs |-> s[i+1]]

fe_mul_inner(n, m) == Reduced(Columns(n, m))
fe_sqr_inner(n) == Reduced(SqrColumns(n))

fe_mul(r, s) == Fe(fe_mul_inner(r.n, s.n), 1, FALSE, r.ok /\ s.ok)
fe_sqr(r) == Fe(fe_sqr_inner(r.n), 1, FALSE, r.ok)

\* -r + s is zero: for r of magnitude at most 1.
fe_equal(r, s) == fe_normalizes_to_zero(fe_add(fe_negate(r, 1), s))
fe_equal_var(r, s) == fe_normalizes_to_zero_var(fe_add(fe_negate(r, 1), s))

-----------------------------------------------------------------------------
(* Inverse and square root: the powers P-2 and (P+1)/4 of the real prime.   *)

\* x2 = x^(2^2-1), x3 = x^(2^3-1), ... : the blocks of ones both chains share.
OnesBlocksBy(k) ==
    << <<"x2", "x", 1, "x">>, <<"x3", "x2", 1, "x">>, <<"x6", "x3", 3, "x3">>,
       <<"x9", "x6", 3, "x3">>, <<"x11", "x9", 2, "x2">>, <<"x22", "x11", 11, "x11">>,
       <<"x44", "x22", 22, "x22">>, <<"x88", "x44", 44, "x44">>,
       <<"x176", "x88", 88, "x88">>, <<"x220", "x176", k, "x44">>,
       <<"x223", "x220", 3, "x3">> >>

\* Mutant: one squaring too few.
OnesBlocksBy43 == OnesBlocksBy(43)

OnesBlocks == OnesBlocksBy(44)

fe_sqrt_chain ==
    OnesBlocks \o << <<"t1", "x223", 23, "x22">>, <<"t1", "t1", 6, "x2">>,
                     <<"r", "t1", 2>> >>

fe_inv_chain ==
    OnesBlocks \o << <<"t1", "x223", 23, "x22">>, <<"t1", "t1", 5, "x">>,
                     <<"t1", "t1", 3, "x2">>, <<"r", "t1", 2, "x">> >>

\* The real prime: 2^256 - 2^32 - 977.
RealPrime == <<\hFFFF, \hFFFF, \hFFFF, \hFFFF, \hFFFF, \hFFFF, \hFFFF, \hFFFF,
               \hFFFF, \hFFFF, \hFFFF, \hFFFF, \hFFFF, \hFFFE, \hFFFF, \hFC2F>>
-----------------------------------------------------------------------------
(* The machine.  Guards are the preconditions the callers must meet.        *)

Load(x) == Fe(ToLimbs(x), 1, TRUE, TRUE)

Init == /\ build \in Builds
        /\ \E x \in Seeds, y \in Seeds :
             /\ x < P /\ y < P
             /\ a = Load(x) /\ va = x /\ b = Load(y) /\ vb = y
        /\ steps = 0 /\ power = NoCall

\* A call that leaves b alone and changes a to r, which should be worth v.
Call(r, v) == /\ steps < MaxSteps /\ steps' = steps + 1
              /\ a' = r /\ va' = v /\ UNCHANGED <<build, b, vb>>

Normalize     == Call(fe_normalize(a), va)
NormalizeWeak == Call(fe_normalize_weak(a), va)
NormalizeVar  == Call(fe_normalize_var(a), va)
Negate == \E m \in Max({1, a.magnitude}) .. build.mag - 1 :    \* callers pass m >= 1
              Call(fe_negate(a, m), (P - va) % P)
MulInt == \E k \in 2 .. build.mag :
              a.magnitude * k <= build.mag /\ Call(fe_mul_int(a, k), Times(va, k))
AddB   == /\ a.magnitude + b.magnitude <= build.mag
          /\ Call(fe_add(a, b), (va + vb) % P)
MulB   == a.magnitude * b.magnitude <= build.mul /\ Call(fe_mul(a, b), TimesMod(va, b.n))
Sqr    == a.magnitude * a.magnitude <= build.mul /\ Call(fe_sqr(a), TimesMod(va, a.n))
Cmov   == \E flag \in {0, 1} :
              Call(fe_cmov(a, b, flag), IF flag = 1 THEN vb ELSE va)
Store  == a.normalized /\ Call(fe_from_storage(fe_to_storage(a)), va)
SetInt == Call(fe_set_int(1), 1)
Clear  == Call(fe_clear, 0)
Swap   == /\ steps < MaxSteps /\ steps' = steps + 1
          /\ a' = b /\ b' = a /\ va' = vb /\ vb' = va /\ UNCHANGED build

Calls == \/ Normalize \/ NormalizeWeak \/ NormalizeVar \/ Negate \/ MulInt
         \/ AddB \/ MulB \/ Sqr \/ Cmov \/ Store \/ SetInt \/ Clear \/ Swap

\* fe_inv and fe_sqrt, on their own.
Invert     == steps = 0 /\ Begin("fe_inv", fe_inv_chain)
SquareRoot == steps = 0 /\ Begin("fe_sqrt", fe_sqrt_chain)

Next == \/ Calls /\ power = NoCall /\ UNCHANGED power
        \/ (Invert \/ SquareRoot \/ PowerStep \/ PowerReturn) /\ UNCHANGED elements

Spec == Init /\ [][Next]_vars

-----------------------------------------------------------------------------
(* Properties. *)

\* Whatever sequence of calls is made within the preconditions, the limbs
\* still stand for the value the caller expects modulo P: no carry is lost in
\* lazy additions, negations, products or folds, in either layout.
ComputesModP == Residue(a.n) = va

\* ... and the limbs stay within what magnitude and normalized promise, with no
\* VERIFY_CHECK on a leftover carry failing: a normalized element is canonical.
WithinMagnitude == fe_verify(a) /\ a.ok

SameNormal(r, s) == r.n = s.n /\ r.ok /\ s.ok /\ fe_get_b32(r) = va

\* The constant-time and the variable-time normalisation, and the two zero
\* tests (one of which returns after looking at the low limb), agree with the
\* value for every representation of it, 0 and P included.
NormalisationsAgree ==
    /\ SameNormal(fe_normalize(a), fe_normalize_var(a))
    /\ fe_normalizes_to_zero(a) <=> va = 0
    /\ fe_normalizes_to_zero_var(a) <=> va = 0

\* On normalized elements comparison, parity, zero and bytes are those of the
\* value, a 32-byte string is refused exactly when it spells P or more, and
\* fe_equal compares values, not limbs, whatever b's magnitude.
ReadsCanonical ==
    /\ a.normalized => /\ fe_is_zero(a) <=> va = 0
                       /\ fe_is_odd(a) <=> va % 2 = 1
                       /\ fe_get_b32(a) = va
                       /\ fe_storage_cmov(fe_to_storage(a), 0, 0) = va
    /\ a.normalized /\ b.normalized =>
            fe_cmp_var(a, b) = IF va = vb THEN 0 ELSE IF va > vb THEN 1 ELSE -1
    /\ \A x \in {va, P, P + 1, P + va} :
            x < 2^(B * Top + T) => (fe_set_b32_ret(x) = 1 <=> x < P)
    /\ a.magnitude <= 1 /\ b.magnitude + 2 <= build.mag =>
            /\ fe_equal(a, b) <=> va = vb
            /\ fe_equal_var(a, b) <=> va = vb

\* The chains of fe_inv and fe_sqrt end with the exponents that make them an
\* inverse and a square root modulo the real prime: P-2 and (P+1)/4.
ChainsReachExponents ==
    /\ Ended("fe_inv") => Plus(power.reg["r"], {1}) = OneBits(RealPrime)
    /\ Ended("fe_sqrt") => Squared(power.reg["r"], 2) = Plus(OneBits(RealPrime), {0})
=============================================================================
