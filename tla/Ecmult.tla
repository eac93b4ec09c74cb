------------------------------- MODULE Ecmult -------------------------------
(***************************************************************************)
(* Scalar multiplication in libsecp256k1: na*A + ng*G for verification     *)
(* (src/ecmult_impl.h), n*A in constant time (src/ecmult_const_impl.h) and *)
(* the blinded n*G for signing (src/ecmult_gen_impl.h), in the build that  *)
(* secp256.go configures (USE_ENDOMORPHISM, no static precomputation).     *)
(*                                                                         *)
(* Scalars are integers modulo Order: module Scalar shows their limbs.     *)
(* The multiplications write the accumulator of module Group; the state    *)
(* added here is the signing context with its blinding.                    *)
(***************************************************************************)
EXTENDS Group

CONSTANTS
    ScalarBits,         \* bits of the order (256 in the code)
    HalfBits,           \* bits of a half scalar (128)
    WINDOW_A, WINDOW_G, \* wNAF windows for A and for G (5 and 15)
    GenRows, GenBits,   \* the comb of ecmult_gen: rows and bits per row (64, 4)
    MinusB1, B2,        \* the lattice basis of split_lambda
    NumsX,              \* x of the point with no known logarithm
    Blinds              \* the blinding scalars the generator may draw

\* The basis vectors (B2, -MinusB1) and (B2 + MinusB1, B2) are short and span the
\* lattice.  nums is a point: the code checks it.
ASSUME EcmultAssumption ==
    /\ {ScalarBits, HalfBits, GenRows, GenBits} \subseteq Nat \ {0}
    /\ 2^(ScalarBits - 1) < Order /\ Order < 2^ScalarBits
    /\ ScalarBits <= 2 * HalfBits /\ GenRows * GenBits >= ScalarBits
    /\ {WINDOW_A, WINDOW_G} \subseteq 3 .. ScalarBits
    /\ {MinusB1, B2} \subseteq Nat /\ 2 * B2 + MinusB1 <= 2^(HalfBits + 1)
    /\ B2 * B2 + B2 * MinusB1 + MinusB1 * MinusB1 = Order
    /\ (B2 - MinusB1 * Lambda) % Order = 0
    /\ (B2 + MinusB1 + B2 * Lambda) % Order = 0
    /\ Blinds \subseteq 1 .. Order-1
    /\ \E j \in 1 .. Order-1 : Mult(j)[1] = NumsX

VARIABLE gctx           \* secp256k1_ecmult_gen_context: prec (built?), blind, initial

vars == <<acc, k, gctx>>

Scalars == 0 .. Order-1
Bits(a, offset, count) == (a \div 2^offset) % 2^count
Downto(n) == [i \in 1 .. n |-> n - i]     \* <<n-1, ..., 1, 0>>
Bool(p) == IF p THEN 1 ELSE 0

-----------------------------------------------------------------------------
(* Tables of odd multiples. *)

ECMULT_TABLE_SIZE(w) == 2^(w-2)

\* P, 3P, 5P, ...: computed on the curve where 2P is affine, so every Z but the
\* last is short of the factor d.z.
ecmult_odd_multiples_table(n, a) ==
    LET d     == gej_double_var(Checked(a, ~a.infinity)).r
        a_ge  == ge_set_gej_zinv(a, d.z)
        d_ge  == Ge(d.x, d.y, FALSE)
        s[i \in 1 .. n] ==
            IF i = 1 THEN Sum(Gej(a_ge.x, a_ge.y, a.z, FALSE), d.z)
            ELSE gej_add_ge_var(s[i-1].r, d_ge)
    IN  [prej |-> [i \in 1 .. n |-> IF i = n THEN [s[n].r EXCEPT !.z = fe_mul(@, d.z)]
                                    ELSE s[i].r],
         zr   |-> [i \in 1 .. n |-> s[i].zr]]

\* All entries relative to one Z, without an inversion.
GlobalZOf(t) == ge_globalz_set_table_gej(t.prej, t.zr)
ecmult_odd_multiples_table_globalz_windowa(a) ==
    GlobalZOf(ecmult_odd_multiples_table(ECMULT_TABLE_SIZE(WINDOW_A), a))

\* Truly affine entries, in storage form.
AffineTable(t) ==
    [i \in DOMAIN t.prej |-> ge_to_storage(ge_set_table_gej_var(t.prej, t.zr)[i])]
ecmult_odd_multiples_table_storage_var(n, a) ==
    AffineTable(ecmult_odd_multiples_table(n, a))

\* ctx->pre_g and ctx->pre_g_128, filled once when the context is built.
Doubled(a, n) ==
    LET r[i \in 0 .. n] == IF i = 0 THEN a ELSE gej_double_var(r[i-1]).r
    IN  r[n]
G == FreshGe(1)
PreG ==
    ecmult_odd_multiples_table_storage_var(ECMULT_TABLE_SIZE(WINDOW_G), gej_set_ge(G))
PreG128 ==
    ecmult_odd_multiples_table_storage_var(ECMULT_TABLE_SIZE(WINDOW_G),
                                           Doubled(gej_set_ge(G), HalfBits))

DigitOk(n, w) == n % 2 = 1 /\ n >= -(2^(w-1) - 1) /\ n <= 2^(w-1) - 1
GeChecked(a, cond) == [a EXCEPT !.x = Check(@, cond)]

\* Entry |n| of the table, negated for a negative digit.
ECMULT_TABLE_GET_GE(pre, n, w) ==
    IF n > 0 THEN GeChecked(pre[(n - 1) \div 2 + 1], DigitOk(n, w))
    ELSE ge_neg(GeChecked(pre[(-n - 1) \div 2 + 1], DigitOk(n, w)))
ECMULT_TABLE_GET_GE_STORAGE(pre, n, w) ==
    ECMULT_TABLE_GET_GE([i \in DOMAIN pre |-> ge_from_storage(pre[i])], n, w)

-----------------------------------------------------------------------------
(* Recoding scalars. *)

\* k = r1 + r2 * Lambda with both about half as long: round k to the lattice.
Rounded(x) == (2 * x + Order) \div (2 * Order)
SplitOf(a, r2) == [r1 |-> (a - r2 * Lambda) % Order, r2 |-> r2 % Order]
scalar_split_lambda(a) ==
    SplitOf(a, Rounded(B2 * a) * MinusB1 - Rounded(MinusB1 * a) * B2)
scalar_split_128(a) == [r1 |-> a % 2^HalfBits, r2 |-> a \div 2^HalfBits]

\* Mutant: the carry is taken from one bit too high.
WnafDigitHigh(s, bit, now, w, st) ==
    LET word  == Bits(s, bit, now) + st.carry
        carry == (word \div 2^w) % 2
    IN  [d |-> [st.d EXCEPT ![bit] = word - carry * 2^w],
         carry |-> carry, next |-> bit + now, last |-> bit]

\* One bit of the wNAF loop: positions below st.next were consumed by a digit.
WnafDigit(s, bit, now, w, st) ==
    LET word  == Bits(s, bit, now) + st.carry
        carry == (word \div 2^(w-1)) % 2
    IN  [d |-> [st.d EXCEPT ![bit] = word - carry * 2^w],
         carry |-> carry, next |-> bit + now, last |-> bit]
WnafStep(s, len, w, st, bit) ==
    IF bit < st.next \/ Bits(s, bit, 1) = st.carry THEN st
    ELSE WnafDigit(s, bit, IF w > len - bit THEN len - bit ELSE w, w, st)

\* The digits, the number of positions used, and the checks at the end.
WnafEnd(st, s, len, sign) ==
    [d |-> [i \in 0 .. len-1 |-> sign * st.d[i]], bits |-> st.last + 1,
     ok |-> st.carry = 0 /\ s \div 2^len = 0]
WnafOf(s, len, w, sign) ==
    LET st[bit \in 0 .. len] ==
          IF bit = 0
            THEN [d |-> [i \in 0 .. len-1 |-> 0], carry |-> 0, next |-> 0, last |-> -1]
            ELSE WnafStep(s, len, w, st[bit-1], bit - 1)
    IN  WnafEnd(st[len], s, len, sign)

\* A scalar with its top bit set is taken as negative.
ecmult_wnaf(len, a, w) ==
    IF Bits(a, ScalarBits - 1, 1) = 1 THEN WnafOf(Order - a, len, w, -1)
    ELSE WnafOf(a, len, w, 1)

\* The constant-time recoding: every digit odd, WNAF_SIZE + 1 of them, of the
\* scalar plus a skew of 1 or 2 that the caller takes away again.
WNAF_SIZE(w) == (HalfBits + w - 1) \div w
ConstStep(st, w) ==
    LET u    == st.s % 2^w
        even == Bool(u % 2 = 0)
        sign == IF st.u > 0 THEN 1 ELSE -1
    IN  [s |-> st.s \div 2^w, u |-> u + sign * even,
         d |-> st.u - sign * even * 2^w]
ConstDigits(s, w) ==
    LET n == WNAF_SIZE(w)
        st[word \in 0 .. n] ==
          IF word = 0 THEN [s |-> s \div 2^w, u |-> s % 2^w, d |-> 0]
          ELSE ConstStep(st[word-1], w)
    IN  [d |-> [i \in 1 .. n + 1 |-> IF i > n THEN st[n].u ELSE st[i].d], ok |-> st[n].s = 0]
ConstEnd(c, sign, bit) ==
    [d |-> [i \in DOMAIN c.d |-> sign * c.d[i]], skew |-> 2^bit, ok |-> c.ok]
\* Minus one cannot take a skew of 2: it is only negated, which is the same.
wnaf_const(s, w) ==
    LET flip      == s > Order \div 2
        bit       == Bool(flip # (s % 2 = 1))
        minusOne  == s = Order - 1
        skewed    == IF minusOne THEN s ELSE s + 2^bit
    IN  ConstEnd(ConstDigits(IF flip THEN (-skewed) % Order ELSE skewed, w),
                 (IF flip THEN -1 ELSE 1) * (IF minusOne THEN -1 ELSE 1), bit)

-----------------------------------------------------------------------------
(* na * A + ng * G, interleaving four half-length recodings. *)

\* r plus the table entry that digit i of a recoding asks for; entries of A's
\* tables are relative to Z, those of G's are affine and get Z as inverse.
AddA(r, pre, wnaf, i) ==
    IF i >= wnaf.bits \/ wnaf.d[i] = 0 THEN r
    ELSE gej_add_ge_var(r, ECMULT_TABLE_GET_GE(pre, wnaf.d[i], WINDOW_A)).r
AddG(r, pre, wnaf, i, Z) ==
    IF i >= wnaf.bits \/ wnaf.d[i] = 0 THEN r
    ELSE gej_add_zinv_var(r, ECMULT_TABLE_GET_GE_STORAGE(pre, wnaf.d[i], WINDOW_G), Z)

EcmultStep(r, i, pre, pre_lam, Z, w) ==
    AddG(AddG(AddA(AddA(gej_double_var(r).r, pre, w[1], i), pre_lam, w[2], i),
              PreG, w[3], i, Z), PreG128, w[4], i, Z)

MaxBits(w) == CHOOSE n \in {w[i].bits : i \in 1 .. 4} : \A i \in 1 .. 4 : w[i].bits <= n

EcmultEnd(r, Z, ok) ==
    IF r.infinity THEN Checked(r, ok) ELSE Checked([r EXCEPT !.z = fe_mul(@, Z)], ok)
EcmultLoop(t, w) ==
    EcmultEnd(FoldLeft(LAMBDA r, i :
                  EcmultStep(r, i, t.pre, [j \in DOMAIN t.pre |-> ge_mul_lambda(t.pre[j])],
                             t.globalz, w),
                  gej_set_infinity, Downto(MaxBits(w))),
              t.globalz, \A i \in 1 .. 4 : w[i].ok)

Recoded(sa, sg) ==
    <<ecmult_wnaf(HalfBits + 2, sa.r1, WINDOW_A), ecmult_wnaf(HalfBits + 2, sa.r2, WINDOW_A),
      ecmult_wnaf(HalfBits + 1, sg.r1, WINDOW_G), ecmult_wnaf(HalfBits + 1, sg.r2, WINDOW_G)>>

ecmult(a, na, ng) ==
    EcmultLoop(ecmult_odd_multiples_table_globalz_windowa(a),
               Recoded(scalar_split_lambda(na), scalar_split_128(ng)))

-----------------------------------------------------------------------------
(* n * A in constant time. *)

\* Every entry is passed over, and the one asked for is moved out under a mask;
\* a negative digit's entry is then replaced by its negative.
Swept(column, idx) ==
    FoldLeft(LAMBDA r, m : fe_cmov(r, column[m], m = idx), fe_clear, [m \in DOMAIN column |-> m])
ECMULT_CONST_TABLE_GET_GE(pre, n, w) ==
    LET idx == (IF n > 0 THEN n ELSE -n) \div 2 + 1
        y   == Swept([m \in DOMAIN pre |-> pre[m].y], idx)
    IN  GeChecked(Ge(Swept([m \in DOMAIN pre |-> pre[m].x], idx),
                     fe_cmov(y, fe_negate(y, 1), n < 0), FALSE),
                  DigitOk(n, w))

AddConst(r, pre, n) == gej_add_ge(r, ECMULT_CONST_TABLE_GET_GE(pre, n, WINDOW_A))

DoubleNonzero(r, n) ==
    FoldLeft(LAMBDA s, j : gej_double_nonzero(s).r, r, [j \in 1 .. n |-> j])

\* Take away skew times a (or Lambda * a): a or 2a, selected in storage form.
Correction(a, skew) ==
    ge_neg(ge_from_storage(ge_to_storage(
        IF skew = 2 THEN ge_set_gej(gej_double_var(gej_set_ge(a)).r) ELSE a)))
Corrected(r, a, w1, w2) ==
    gej_add_ge(gej_add_ge(r, Correction(a, w1.skew)), ge_mul_lambda(Correction(a, w2.skew)))

ConstLoop(pre, pre_lam, d1, d2) ==
    LET size == WNAF_SIZE(WINDOW_A - 1)
        top  == gej_set_ge(ECMULT_CONST_TABLE_GET_GE(pre, d1[size + 1], WINDOW_A))
    IN  FoldLeft(LAMBDA r, i :
                    AddConst(AddConst(DoubleNonzero(r, WINDOW_A - 1), pre, d1[i + 1]),
                             pre_lam, d2[i + 1]),
                 AddConst(top, pre_lam, d2[size + 1]), Downto(size))

ConstFrom(a, t, w1, w2) ==
    LET pre == [i \in DOMAIN t.pre |-> [t.pre[i] EXCEPT !.y = fe_normalize_weak(@)]]
        r   == ConstLoop(pre, [i \in DOMAIN pre |-> ge_mul_lambda(pre[i])], w1.d, w2.d)
    IN  Checked(Corrected([r EXCEPT !.z = fe_mul(@, t.globalz)], a, w1, w2),
                w1.ok /\ w2.ok)

ConstSplit(a, s) ==
    ConstFrom(a, ecmult_odd_multiples_table_globalz_windowa(gej_set_ge(a)),
              wnaf_const(s.r1, WINDOW_A - 1), wnaf_const(s.r2, WINDOW_A - 1))
ecmult_const(a, n) == ConstSplit(a, scalar_split_lambda(n))

-----------------------------------------------------------------------------
(* The signing context: a comb of precomputed points and a blinding pair. *)

\* The point nobody knows the logarithm of, plus G.
Nums == gej_add_ge_var(gej_set_ge(ge_set_xo_var(fe_set_int(NumsX), FALSE).r), G).r

\* Row j starts at 2^j nums, the last one at (1 - 2^j) nums, so that the rows'
\* offsets add up to zero; entry i adds i * 16^j * G.
RowStart(j) ==
    IF j < GenRows - 1 THEN Doubled(Nums, j)
    ELSE gej_add_var(gej_neg(Doubled(Nums, j)), Nums).r
RowOf(start, base) ==
    LET e[i \in 0 .. 2^GenBits - 1] == IF i = 0 THEN start ELSE gej_add_var(e[i-1], base).r
    IN  e
PrecJ ==
    LET row == [j \in 0 .. GenRows-1 |->
                  RowOf(RowStart(j), Doubled(gej_set_ge(G), GenBits * j))]
    IN  [n \in 1 .. GenRows * 2^GenBits |-> row[(n - 1) \div 2^GenBits][(n - 1) % 2^GenBits]]
Prec ==
    LET prec == ge_set_all_gej_var(PrecJ)
    IN  [j \in 0 .. GenRows-1 |-> [i \in 0 .. 2^GenBits - 1 |->
           ge_to_storage(prec[j * 2^GenBits + i + 1])]]

\* The logarithm of nums is unknown, so meeting infinity while the comb is
\* filled is out of reach; a small curve has to be told.
ASSUME CombAssumption == \A n \in 1 .. GenRows * 2^GenBits : ~PrecJ[n].infinity

\* One point of every row, picked by the bits of n + blind.
GenStep(r, gnb, j) ==
    gej_add_ge(r, ge_from_storage(Prec[j][Bits(gnb, j * GenBits, GenBits)]))
ecmult_gen(ctx, gn) ==
    LET r[j \in 0 .. GenRows] ==
          IF j = 0 THEN ctx.initial ELSE GenStep(r[j-1], (gn + ctx.blind) % Order, j - 1)
    IN  r[GenRows]

ecmult_gen_context_init == [prec |-> FALSE, blind |-> 0, initial |-> gej_clear]

\* A new projection s and a new blinding value b, both drawn from the seeded
\* generator until in range and not zero.  Without a seed the pair is reset
\* first; with one, the old pair computes the new.
Unseeded(ctx) == [ctx EXCEPT !.initial = gej_neg(gej_set_ge(G)), !.blind = 1]
\* Mutant: the blinding value is not negated.
ReblindedSame(ctx, s, b) ==
    [ctx EXCEPT !.blind = b,
                !.initial = ecmult_gen([ctx EXCEPT !.initial = gej_rescale(@, s)], b)]
Reblinded(ctx, s, b) ==
    [ctx EXCEPT !.blind = (-b) % Order,
                !.initial = ecmult_gen([ctx EXCEPT !.initial = gej_rescale(@, s)], b)]
ecmult_gen_blind(ctx, seeded, s, b) ==
    Reblinded(IF seeded THEN ctx ELSE Unseeded(ctx), s, b)

-----------------------------------------------------------------------------
(* The multiplications only write their result, so they are called on an   *)
(* empty accumulator; and only ecmult_gen reads the signing context, so    *)
(* everything else happens while it is cleared.                            *)

Empty == acc = gej_set_infinity

Init == GroupInit /\ gctx = ecmult_gen_context_init

GroupOp == ~gctx.prec /\ GroupNext /\ UNCHANGED gctx

Ecmult ==
    /\ Empty /\ ~gctx.prec
    /\ \E o \in GejOperands, na, ng \in Scalars :
         ~o.b.infinity /\ Compute(ecmult(o.b, na, ng), na * o.k + ng)
    /\ UNCHANGED gctx

EcmultConst ==
    /\ Empty /\ ~gctx.prec
    /\ \E o \in GeOperands, n \in Scalars :
         ~o.b.infinity /\ Compute(ecmult_const(o.b, n), n * o.k)
    /\ UNCHANGED gctx

\* Building an already built context changes nothing.
ContextBuild ==
    /\ Empty /\ UNCHANGED groupVars
    /\ IF gctx.prec THEN UNCHANGED gctx
       ELSE \E z \in Zs, b \in Blinds :
              gctx' = ecmult_gen_blind([gctx EXCEPT !.prec = TRUE], FALSE, fe_set_int(z), b)

ContextBlind ==
    /\ gctx.prec /\ Empty /\ UNCHANGED groupVars
    /\ \E seeded \in BOOLEAN, z \in Zs, b \in Blinds :
         gctx' = ecmult_gen_blind(gctx, seeded, fe_set_int(z), b)

EcmultGen ==
    /\ gctx.prec /\ Empty
    /\ \E n \in Scalars : Compute(ecmult_gen(gctx, n), n)
    /\ UNCHANGED gctx

ContextClear == gctx' = ecmult_gen_context_init /\ UNCHANGED groupVars

Next ==
    \/ GroupOp \/ Ecmult \/ EcmultConst
    \/ ContextBuild \/ ContextBlind \/ EcmultGen \/ ContextClear

Spec == Init /\ [][Next]_vars

-----------------------------------------------------------------------------
(* Properties. *)

\* Blinding never changes what is computed: through any sequence of seeded and
\* unseeded re-blindings the context's starting point is minus its blinding
\* value times G, and no check fails on the way.
BlindingCancels ==
    gctx.prec => AffineOf(gctx.initial) = Mult(-gctx.blind) /\ Ok(gctx.initial)

DigitSum(d, base) == LET n == Len(d)
                         s[i \in 1 .. n + 1] == IF i > n THEN 0 ELSE d[i] + base * s[i+1]
                     IN  s[1]
Abs(a) == IF a >= 2^(ScalarBits - 1) THEN Order - a ELSE a

WnafExact(wnaf, w) ==
    /\ wnaf.ok
    /\ DigitSum([i \in 1 .. ScalarBits |-> wnaf.d[i-1]], 2) % Order = k
    /\ \A i \in 0 .. ScalarBits-1 : wnaf.d[i] # 0 =>
         /\ DigitOk(wnaf.d[i], w)
         /\ i < wnaf.bits
         /\ \A j \in i+1 .. ScalarBits-1 : wnaf.d[j] # 0 => j >= i + w
    /\ wnaf.bits = 0 \/ 2^(wnaf.bits - 1) <= 2 * Abs(k)
WnafConstExact(c, a) ==
    /\ c.ok
    /\ DigitSum(c.d, 2^(WINDOW_A - 1)) % Order = (a + c.skew) % Order
    /\ \A i \in DOMAIN c.d : DigitOk(c.d[i], WINDOW_A)

\* What the multiplications need of the recodings, for every scalar.  wnaf, as
\* its comment says: the digits represent the number, each is zero or odd and
\* below half the window, nonzero ones are at least a window apart, and no more
\* positions are used than the bits of the absolute value plus one.  wnaf_const,
\* for both halves: every digit is odd and in the table, and they represent the
\* number plus the skew that is returned and that ecmult_const takes away again.
\* The header comment promises something else, that they sum to the number and
\* that the number of words set is returned: the caller goes by the code.
RecodingsExact ==
    /\ \A w \in {WINDOW_A, WINDOW_G} : WnafExact(ecmult_wnaf(ScalarBits, k, w), w)
    /\ LET s == scalar_split_lambda(k)
       IN  \A a \in {s.r1, s.r2} : WnafConstExact(wnaf_const(a, WINDOW_A - 1), a)
=============================================================================
