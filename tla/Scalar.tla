------------------------------- MODULE Scalar -------------------------------
(***************************************************************************)
(* Scalars modulo the group order as libsecp256k1 computes them            *)
(* (src/scalar_4x64_impl.h, src/scalar_impl.h): four limbs, carries that   *)
(* are recovered from unsigned wrap-around, and a double-width product     *)
(* that is folded back into four limbs by three reductions.                *)
(*                                                                         *)
(* The limb width is a parameter: 64 in the code, a few bits here.  The    *)
(* shape of the order is the code's: Order = 2^(4W) - N_C where N_C has    *)
(* three limbs, the highest of them 1.  A scalar is a function on 0..3,    *)
(* limb 0 the least significant, as the code's d[0..3].                    *)
(*                                                                         *)
(* The state machine is one scalar in memory and the operations a caller   *)
(* may apply to it; val is the integer the caller believes it holds.       *)
(***************************************************************************)
EXTENDS Integers, Sequences, SequencesExt, Chain

CONSTANTS
    W,          \* bits of a limb (64 in the code)
    NC0, NC1,   \* low limbs of 2^(4W) - Order: SECP256K1_N_C_0, _1 (N_C_2 is 1)
    Lambda,     \* the cube root of unity of split_lambda
    MinusB1, B2,\* -b1 and b2 of the lattice basis (scalar_impl.h:297-300)
    SplitShift, \* precision of g1 and g2, a few bits above 4W (272 in the code)
    Operands,   \* second operands of the binary operations
    Shifts      \* shift amounts of mul_shift_var

Limbs == 0 .. 3
WORD  == 2^W
Order == 2^(4*W) - (NC0 + NC1 * WORD + WORD * WORD)

\* The shape of the constants: an odd order whose complement is small enough
\* for three reductions, and a lattice basis (a1, b1), (a2, b2) for Lambda
\* with a1 = b2 and a2 = a1 - b1, as in the code's comment.
ASSUME ScalarAssumption ==
    /\ W \in Nat \ {0, 1}
    /\ NC0 \in 1 .. WORD-1 /\ NC1 \in 0 .. WORD-1
    /\ Order % 2 = 1
    /\ (Lambda * Lambda + Lambda + 1) % Order = 0
    /\ (B2 - MinusB1 * Lambda) % Order = 0
    /\ (B2 + MinusB1 + B2 * Lambda) % Order = 0
    /\ Operands \subseteq 0 .. Order-1
    /\ \A s \in Shifts \cup {SplitShift} : s >= 4*W /\ s < 8*W

VARIABLES
    r,          \* the scalar in memory
    val,        \* the number the caller believes it holds
    agrees      \* every int returned so far was the one the caller expects

scalar == <<r, val, agrees>>
vars == <<scalar, power>>

-----------------------------------------------------------------------------
(* Words and limb vectors. *)

Bit(p) == IF p THEN 1 ELSE 0

ToLimbs(x) == [i \in Limbs |-> (x \div 2^(i*W)) % WORD]

N  == ToLimbs(Order)               \* SECP256K1_N_0 .. _3
NH == ToLimbs(Order \div 2)        \* SECP256K1_N_H_0 .. _3
NC == <<NC0, NC1, 1, 0>>           \* SECP256K1_N_C_0 .. _2

\* A scalar: its limbs d[0..3], and ok, which is FALSE once a VERIFY_CHECK on
\* the way to it has failed.
Scalar(limbs, ok) == [d |-> limbs, ok |-> ok]
Const(x) == Scalar(ToLimbs(x), TRUE)
Value(a) == a.d[0] + WORD * (a.d[1] + WORD * (a.d[2] + WORD * a.d[3]))

\* t = x0; r0 = t & mask; t >>= W; t += x1; ... : the carry chain that every
\* limb-wise addition of the file is written as.  x[i] is what is added at i.
CarryChain(x) ==
    LET t[i \in Limbs] == x[i] + (IF i = 0 THEN 0 ELSE t[i-1] \div WORD)
    IN  [d |-> [i \in Limbs |-> t[i] % WORD], carry |-> t[3] \div WORD]

scalar_set_int(v) == Scalar([i \in Limbs |-> IF i = 0 THEN v ELSE 0], TRUE)

scalar_get_bits(a, offset, count) ==
    (a.d[offset \div W] \div 2^(offset % W)) % 2^count

\* Mutant: the limb above is not looked at.
scalar_get_bits_within(a, offset, count) == scalar_get_bits(a, offset, count)

\* Bits that may straddle two limbs.
scalar_get_bits_var(a, offset, count) ==
    IF (offset + count - 1) \div W = offset \div W
    THEN scalar_get_bits(a, offset, count)
    ELSE LET low == offset % W
             hi  == (a.d[offset \div W + 1] * 2^(W - low)) % WORD
         IN  (a.d[offset \div W] \div 2^low + hi) % 2^count

\* Are the limbs x at least the order?  The comparison runs from the top limb
\* down; "no" remembers that a higher limb already decided.
scalar_check_overflow(x) ==
    LET no2 == x[3] < N[3] \/ x[2] < N[2]
        no1 == no2 \/ x[1] < N[1]
    IN  Bit(\/ x[2] > N[2] /\ ~no2
            \/ x[1] > N[1] /\ ~no1
            \/ x[0] >= N[0] /\ ~no1)

\* Subtract the order once by adding its complement, dropping the carry.
scalar_reduce(x, overflow) ==
    CarryChain([i \in Limbs |-> x[i] + overflow * NC[i+1]]).d

AddOverflow(s) == s.carry + scalar_check_overflow(s.d)

\* The end of add, of set_b32 and of reduce_512: at most one subtraction is
\* left to do.  s is a carry chain's result.
ReduceOnce(s, ok) ==
    Scalar(scalar_reduce(s.d, AddOverflow(s)), ok /\ AddOverflow(s) <= 1)

scalar_add(a, b) ==
    ReduceOnce(CarryChain([i \in Limbs |-> a.d[i] + b.d[i]]), a.ok /\ b.ok)

scalar_add_overflow(a, b) ==
    AddOverflow(CarryChain([i \in Limbs |-> a.d[i] + b.d[i]]))

CaddBitEnd(s, ok) ==
    Scalar(s.d, ok /\ s.carry = 0 /\ scalar_check_overflow(s.d) = 0)

\* Adds 2^bit when flag is set; a cleared flag moves the bit out of range.
scalar_cadd_bit(a, bit, flag) ==
    LET at == bit + (IF flag = 1 THEN 0 ELSE 4*W)
    IN  CaddBitEnd(CarryChain([i \in Limbs |->
                       a.d[i] + (IF at \div W = i THEN 2^(at % W) ELSE 0)]), a.ok)

\* A 32-byte string is the number it spells, 0 .. 2^(4W)-1.
scalar_set_b32(x) == ReduceOnce([d |-> ToLimbs(x), carry |-> 0], TRUE)
scalar_set_b32_overflow(x) == scalar_check_overflow(ToLimbs(x))

scalar_get_b32(a) == Value(a)

scalar_is_zero(a) == \A i \in Limbs : a.d[i] = 0

scalar_is_one(a) == a.d[0] = 1 /\ \A i \in Limbs \ {0} : a.d[i] = 0

scalar_is_even(a) == a.d[0] % 2 = 0

\* N - a is ~a + N + 1 with the carry dropped; zero is masked to zero.
scalar_negate(a) ==
    IF scalar_is_zero(a) THEN Scalar(ToLimbs(0), a.ok)
    ELSE Scalar(CarryChain([i \in Limbs |-> (WORD - 1 - a.d[i]) + N[i] + Bit(i = 0)]).d,
                a.ok)

scalar_is_high(a) ==
    LET no3  == a.d[3] < NH[3]
        yes3 == a.d[3] > NH[3] /\ ~no3
        no2  == no3 \/ (a.d[2] < NH[2] /\ ~yes3)
        no1  == no2 \/ (a.d[1] < NH[1] /\ ~yes3)
        yes1 == yes3 \/ (a.d[1] > NH[1] /\ ~no1)
    IN  yes1 \/ (a.d[0] > NH[0] /\ ~no1)

\* As negate, under a mask; the code returns -1 when it negated, 1 when not.
scalar_cond_negate(a, flag) ==
    LET Masked(i) == IF flag = 0 THEN a.d[i]
                     ELSE (WORD - 1 - a.d[i]) + ((N[i] + Bit(i = 0)) % WORD)
    IN  IF scalar_is_zero(a) THEN Scalar(ToLimbs(0), a.ok)
        ELSE Scalar(CarryChain([i \in Limbs |-> Masked(i)]).d, a.ok)

scalar_shr_int(a, n) ==
    Scalar([i \in Limbs |-> a.d[i] \div 2^n +
                (IF i = 3 THEN 0 ELSE (a.d[i+1] * 2^(W-n)) % WORD)], a.ok)

\* The low and the high half as two scalars.
scalar_split_128(a) ==
    [r1 |-> Scalar([i \in Limbs |-> IF i < 2 THEN a.d[i] ELSE 0], a.ok),
     r2 |-> Scalar([i \in Limbs |-> IF i < 2 THEN a.d[i+2] ELSE 0], a.ok)]

scalar_eq(a, b) == \A i \in Limbs : a.d[i] = b.d[i]

-----------------------------------------------------------------------------
(* The three-word accumulator (c0, c1, c2) of the multiplication.  out is   *)
(* the list of extracted limbs, ok the conjunction of the VERIFY_CHECKs.    *)

Accu(c0, ok) == [c0 |-> c0, c1 |-> 0, c2 |-> 0, out |-> <<>>, ok |-> ok]

\* Mutant: the carry out of c0 is lost.
muladd_uncarried(c, a, b) ==
    LET th == (a * b) \div WORD
        c1 == (c.c1 + th) % WORD
    IN  [c EXCEPT !.c0 = (@ + a * b) % WORD, !.c1 = c1, !.c2 = (@ + Bit(c1 < th)) % WORD]

muladd(c, a, b) ==
    LET tl == (a * b) % WORD
        c0 == (c.c0 + tl) % WORD
        th == (a * b) \div WORD + Bit(c0 < tl)
        c1 == (c.c1 + th) % WORD
        c2 == (c.c2 + Bit(c1 < th)) % WORD
    IN  [c EXCEPT !.c0 = c0, !.c1 = c1, !.c2 = c2, !.ok = @ /\ (c1 >= th \/ c2 # 0)]

\* The caller promises that c1 cannot overflow, so c2 is not touched.
muladd_fast(c, a, b) ==
    LET tl == (a * b) % WORD
        c0 == (c.c0 + tl) % WORD
        th == (a * b) \div WORD + Bit(c0 < tl)
        c1 == (c.c1 + th) % WORD
    IN  [c EXCEPT !.c0 = c0, !.c1 = c1, !.ok = @ /\ c1 >= th]

\* Adds 2ab, doubling the two halves of the product separately.
muladd2(c, a, b) ==
    LET th   == (a * b) \div WORD
        tl   == (a * b) % WORD
        tha  == (2 * th) % WORD
        c2a  == (c.c2 + Bit(tha < th)) % WORD
        tl2  == (2 * tl) % WORD
        thb  == (tha + Bit(tl2 < tl)) % WORD
        c0   == (c.c0 + tl2) % WORD
        th2  == (thb + Bit(c0 < tl2)) % WORD
        c2b  == (c2a + Bit(c0 < tl2 /\ th2 = 0)) % WORD
        c1   == (c.c1 + th2) % WORD
        c2   == (c2b + Bit(c1 < th2)) % WORD
    IN  [c EXCEPT !.c0 = c0, !.c1 = c1, !.c2 = c2,
                  !.ok = /\ @
                         /\ tha >= th \/ c2a # 0
                         /\ c0 >= tl2 \/ th2 # 0 \/ c2b # 0
                         /\ c1 >= th2 \/ c2 # 0]

sumadd(c, a) ==
    LET c0   == (c.c0 + a) % WORD
        over == Bit(c0 < a)
        c1   == (c.c1 + over) % WORD
    IN  [c EXCEPT !.c0 = c0, !.c1 = c1, !.c2 = (@ + Bit(c1 < over)) % WORD]

sumadd_fast(c, a) ==
    LET c0 == (c.c0 + a) % WORD
        c1 == (c.c1 + Bit(c0 < a)) % WORD
    IN  [c EXCEPT !.c0 = c0, !.c1 = c1,
                  !.ok = @ /\ (c1 # 0 \/ c0 >= a) /\ c.c2 = 0]

extract(c) ==
    [c EXCEPT !.out = Append(@, c.c0), !.c0 = c.c1, !.c1 = c.c2, !.c2 = 0]

extract_fast(c) ==
    [c EXCEPT !.out = Append(@, c.c0), !.c0 = c.c1, !.c1 = 0, !.ok = @ /\ c.c2 = 0]

\* The straight-line macro calls of mul_512, sqr_512 and reduce_512 are
\* written as programs: sequences of <<macro, arguments>>.
Macro(c, s) ==
    CASE s[1] = "muladd"       -> muladd(c, s[2], s[3])
      [] s[1] = "muladd_fast"  -> muladd_fast(c, s[2], s[3])
      [] s[1] = "muladd2"      -> muladd2(c, s[2], s[3])
      [] s[1] = "sumadd"       -> sumadd(c, s[2])
      [] s[1] = "sumadd_fast"  -> sumadd_fast(c, s[2])
      [] s[1] = "extract"      -> extract(c)
      [] s[1] = "extract_fast" -> extract_fast(c)

Run(program, c) == FoldLeft(Macro, c, program)

\* What is left in c0 is the top limb of the result; the check is the code's
\* VERIFY_CHECK on it.
WithTop(c, top, check) == [l |-> Append(c.out, top), ok |-> c.ok /\ check]
Product(c) == WithTop(c, c.c0, c.c1 = 0)

\* l[0..7] = a * b, one column of partial products per extracted limb.
scalar_mul_512(a, b) ==
    LET x == a.d
        y == b.d
        Column(k) == [j \in 1 .. (IF k < 4 THEN k+1 ELSE 7-k) |->
                        LET i == (IF k < 4 THEN 0 ELSE k-3) + j - 1
                        IN  <<"muladd", x[i], y[k-i]>>] \o << <<"extract">> >>
    IN  Product(Run(<< <<"muladd_fast", x[0], y[0]>>, <<"extract_fast">> >>
                    \o Column(1) \o Column(2) \o Column(3) \o Column(4) \o Column(5)
                    \o << <<"muladd_fast", x[3], y[3]>>, <<"extract_fast">> >>,
                    Accu(0, a.ok /\ b.ok)))

scalar_sqr_512(a) ==
    LET x == a.d IN
    Product(Run(<< <<"muladd_fast", x[0], x[0]>>, <<"extract_fast">>,
                   <<"muladd2", x[0], x[1]>>, <<"extract">>,
                   <<"muladd2", x[0], x[2]>>, <<"muladd", x[1], x[1]>>, <<"extract">>,
                   <<"muladd2", x[0], x[3]>>, <<"muladd2", x[1], x[2]>>, <<"extract">>,
                   <<"muladd2", x[1], x[3]>>, <<"muladd", x[2], x[2]>>, <<"extract">>,
                   <<"muladd2", x[2], x[3]>>, <<"extract">>,
                   <<"muladd_fast", x[3], x[3]>>, <<"extract_fast">> >>, Accu(0, a.ok)))

\* First reduction: m[0..6] = l[0..3] + l[4..7] * N_C.
TopM6(c) == WithTop(c, c.c0, c.c0 <= 1)
Reduce512to385(p) ==
    LET l == p.l  n0 == l[5]  n1 == l[6]  n2 == l[7]  n3 == l[8]
    IN  TopM6(Run(<< <<"muladd_fast", n0, NC0>>, <<"extract_fast">>,
                     <<"sumadd_fast", l[2]>>, <<"muladd", n1, NC0>>, <<"muladd", n0, NC1>>,
                     <<"extract">>,
                     <<"sumadd", l[3]>>, <<"muladd", n2, NC0>>, <<"muladd", n1, NC1>>,
                     <<"sumadd", n0>>, <<"extract">>,
                     <<"sumadd", l[4]>>, <<"muladd", n3, NC0>>, <<"muladd", n2, NC1>>,
                     <<"sumadd", n1>>, <<"extract">>,
                     <<"muladd", n3, NC1>>, <<"sumadd", n2>>, <<"extract">>,
                     <<"sumadd_fast", n3>>, <<"extract_fast">> >>, Accu(l[1], p.ok)))

\* Second reduction: p[0..4] = m[0..3] + m[4..6] * N_C.
TopP4(c, m6) == WithTop(c, c.c0 + m6, c.c0 + m6 <= 2)
Reduce385to258(p) ==
    LET m == p.l
    IN  TopP4(Run(<< <<"muladd_fast", m[5], NC0>>, <<"extract_fast">>,
                     <<"sumadd_fast", m[2]>>, <<"muladd", m[6], NC0>>, <<"muladd", m[5], NC1>>,
                     <<"extract">>,
                     <<"sumadd", m[3]>>, <<"muladd", m[7], NC0>>, <<"muladd", m[6], NC1>>,
                     <<"sumadd", m[5]>>, <<"extract">>,
                     <<"sumadd_fast", m[4]>>, <<"muladd_fast", m[7], NC1>>,
                     <<"sumadd_fast", m[6]>>, <<"extract_fast">> >>, Accu(m[1], p.ok)), m[7])

\* Third reduction, r[0..3] = p[0..3] + p[4] * N_C, and the last subtraction.
Reduce258to256(p) ==
    ReduceOnce(CarryChain([i \in Limbs |-> p.l[i+1] + NC[i+1] * p.l[5]]), p.ok)

scalar_reduce_512(l) == Reduce258to256(Reduce385to258(Reduce512to385(l)))

scalar_mul(a, b) == scalar_reduce_512(scalar_mul_512(a, b))

scalar_sqr(a) == scalar_reduce_512(scalar_sqr_512(a))

\* The bits of the product l from position shift on, rounded by the bit below.
ShiftRound(p, shift) ==
    LET sl   == shift \div W
        low  == shift % W
        limb(i) == IF shift >= (8-i) * W THEN 0
                   ELSE p.l[i+sl+1] \div 2^low +
                        (IF shift < (7-i) * W /\ low # 0
                         THEN (p.l[i+sl+2] * 2^(W-low)) % WORD ELSE 0)
    IN  scalar_cadd_bit(Scalar([i \in Limbs |-> limb(i)], p.ok), 0,
                        (p.l[(shift-1) \div W + 1] \div 2^((shift-1) % W)) % 2)

\* round(a * b / 2^shift)
scalar_mul_shift_var(a, b, shift) == ShiftRound(scalar_mul_512(a, b), shift)

\* The constants of split_lambda: g1 = round(2^shift * b2 / Order), g2 with -b1.
g1 == (2^SplitShift * B2 + Order \div 2) \div Order
g2 == (2^SplitShift * MinusB1 + Order \div 2) \div Order

\* Mutant: b2 for -b2.
SplitR2PlusB2(a) ==
    scalar_add(scalar_mul(scalar_mul_shift_var(a, Const(g1), SplitShift), Const(MinusB1)),
               scalar_mul(scalar_mul_shift_var(a, Const(g2), SplitShift), Const(B2)))

SplitR2(a) ==
    scalar_add(scalar_mul(scalar_mul_shift_var(a, Const(g1), SplitShift), Const(MinusB1)),
               scalar_mul(scalar_mul_shift_var(a, Const(g2), SplitShift), Const(Order - B2)))

SplitBoth(a, r2) ==
    [r1 |-> scalar_add(scalar_mul(r2, Const(Order - Lambda)), a), r2 |-> r2]

\* r1 + Lambda * r2 = a, with r1 and r2 short (for the endomorphism).
scalar_split_lambda(a) == SplitBoth(a, SplitR2(a))

-----------------------------------------------------------------------------
(* Inversion: the power Order-2 of the real order, by an addition chain.    *)

\* The second half: how often to square, and the block of ones to multiply by.
InverseDigits ==
    << <<2, "x">>, <<4, "x3">>, <<2, "x">>, <<2, "x">>, <<2, "x">>, <<4, "x3">>,
       <<3, "x2">>, <<4, "x3">>, <<5, "x3">>, <<4, "x2">>, <<2, "x">>, <<2, "x">>,
       <<5, "x4">>, <<2, "x">>, <<3, "x">>, <<4, "x">>, <<2, "x">>, <<10, "x3">>,
       <<4, "x3">>, <<9, "x8">>, <<2, "x">>, <<3, "x">>, <<3, "x">>, <<5, "x4">>,
       <<2, "x">>, <<5, "x2">>, <<4, "x2">>, <<2, "x">>, <<8, "x2">>, <<3, "x2">>,
       <<3, "x">>, <<6, "x">>, <<8, "x6">> >>

\* The first half: x^(2^n - 1) for growing n; x15 takes k squarings.
InverseBlocksBy(k) ==
    << <<"x2", "x", 1, "x">>, <<"x3", "x2", 1, "x">>, <<"x4", "x3", 1, "x">>,
       <<"x6", "x4", 2, "x2">>, <<"x7", "x6", 1, "x">>, <<"x8", "x7", 1, "x">>,
       <<"x15", "x8", k, "x7">>, <<"x30", "x15", 15, "x15">>, <<"x60", "x30", 30, "x30">>,
       <<"x120", "x60", 60, "x60">>, <<"x127", "x120", 7, "x7">> >>

\* Mutant: one squaring too many.
InverseBlocksBy8 == InverseBlocksBy(8)

InverseBlocks == InverseBlocksBy(7)

\* t points at x127 from the second half on, so x127 is overwritten in place.
scalar_inverse_chain ==
    InverseBlocks \o [i \in 1 .. Len(InverseDigits) |->
        <<"x127", "x127", InverseDigits[i][1], InverseDigits[i][2]>>]

\* The real order.
RealOrder == <<\hFFFF, \hFFFF, \hFFFF, \hFFFF, \hFFFF, \hFFFF, \hFFFF, \hFFFE,
               \hBAAE, \hDCE6, \hAF48, \hA03B, \hBFD2, \h5E8C, \hD036, \h4141>>

-----------------------------------------------------------------------------
(* The machine: a caller applies the operations to a scalar and keeps the   *)
(* number it expects.                                                       *)

Returned(got, want) == agrees' = (agrees /\ got = want)

Init == r = scalar_set_int(0) /\ val = 0 /\ agrees = TRUE /\ power = NoCall

SetB32 == \E x \in Operands \cup {Order, Order + 1, 2^(4*W) - 1} :
          /\ r' = scalar_set_b32(x) /\ val' = x % Order
          /\ Returned(scalar_set_b32_overflow(x), Bit(x >= Order))

Add == \E b \in Operands :
          /\ r' = scalar_add(r, Const(b)) /\ val' = (val + b) % Order
          /\ Returned(scalar_add_overflow(r, Const(b)), Bit(val + b >= Order))

Mul == \E b \in Operands :
          /\ r' = scalar_mul(r, Const(b)) /\ val' = (val * b) % Order
          /\ UNCHANGED agrees

Sqr == /\ r' = scalar_sqr(r) /\ val' = (val * val) % Order
       /\ UNCHANGED agrees

Negate == /\ r' = scalar_negate(r) /\ val' = (Order - val) % Order
          /\ UNCHANGED agrees

CondNegate == \E flag \in {0, 1} :
          /\ r' = scalar_cond_negate(r, flag)
          /\ val' = (IF flag = 1 THEN (Order - val) % Order ELSE val)
          /\ UNCHANGED agrees

\* cadd_bit is only called where the sum cannot reach the order.
CaddBit == \E bit \in 0 .. 4*W-1, flag \in {0, 1} :
          /\ val + 2^bit < Order
          /\ r' = scalar_cadd_bit(r, bit, flag) /\ val' = val + flag * 2^bit
          /\ UNCHANGED agrees

\* Returns the bits it shifts out.
ShrInt == \E n \in 1 .. W-1 :
          /\ r' = scalar_shr_int(r, n) /\ val' = val \div 2^n
          /\ Returned(r.d[0] % 2^n, val % 2^n)

MulShift == \E b \in Operands, s \in Shifts :
          /\ r' = scalar_mul_shift_var(r, Const(b), s)
          /\ val' = (val * b + 2^(s-1)) \div 2^s
          /\ UNCHANGED agrees

Calls == \/ SetB32 \/ Add \/ Mul \/ Sqr \/ Negate \/ CondNegate \/ CaddBit
         \/ ShrInt \/ MulShift

\* scalar_inverse, on its own.
InverseCall == val = 0 /\ Begin("scalar_inverse", scalar_inverse_chain)

Next == \/ Calls /\ power = NoCall /\ UNCHANGED power
        \/ (InverseCall \/ PowerStep \/ PowerReturn) /\ UNCHANGED scalar

Spec == Init /\ [][Next]_vars

-----------------------------------------------------------------------------
(* Properties. *)

\* After any sequence of operations the limbs spell the number the caller
\* expects, fully reduced; no VERIFY_CHECK on a carry or on the size of an
\* intermediate value (c2, m6, p4, overflow) would have failed; and the
\* overflow bits and shifted-out bits that were returned are the caller's.
ComputesModOrder == Value(r) = val /\ r.ok /\ agrees

\* Every read of the limbs sees the same number: comparisons from the top limb
\* with half the order, parity, bytes, halves, and windows of bits that may
\* straddle two limbs (what wnaf and the comb multiplication read).
LimbReadsAgree ==
    /\ scalar_is_zero(r) <=> val = 0
    /\ scalar_is_one(r) <=> val = 1
    /\ scalar_is_even(r) <=> val % 2 = 0
    /\ scalar_is_high(r) <=> val > Order \div 2
    /\ scalar_get_b32(r) = val
    /\ scalar_eq(r, Const(val))
    /\ Value(scalar_split_128(r).r1) + 2^(2*W) * Value(scalar_split_128(r).r2) = val
    /\ \A offset \in 0 .. 4*W-1 : \A count \in 1 .. W :
         offset + count <= 4*W =>
            scalar_get_bits_var(r, offset, count) = (val \div 2^offset) % 2^count

Short(k) == k < 2^(2*W) \/ Order - k < 2^(2*W)
Recombines(s) == /\ s.r1.ok
                 /\ (Value(s.r1) + Lambda * Value(s.r2)) % Order = val
                 /\ Short(Value(s.r1)) /\ Short(Value(s.r2))

\* split_lambda recombines to the scalar, and both halves are short up to sign:
\* ecmult and ecmult_const size their tables of digits by that.
SplitIsShort == Recombines(scalar_split_lambda(r))

\* The chain of scalar_inverse ends with the exponent that inverts modulo the
\* real order: Order-2.
InverseChainExact ==
    Ended("scalar_inverse") => Plus(power.reg["x127"], {1}) = OneBits(RealOrder)
=============================================================================
