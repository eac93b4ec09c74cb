-------------------------------- MODULE Group -------------------------------
(***************************************************************************)
(* The group law of libsecp256k1 (src/group_impl.h): affine points (ge),   *)
(* Jacobian points (gej) whose coordinates are residues with a magnitude,  *)
(* and the formulas that add, double, negate, rescale and convert them.    *)
(*                                                                         *)
(* The curve is y^2 = x^3 + CURVE_B over a small prime field, with prime   *)
(* order below the field prime, as in the code.  The state machine is one  *)
(* Jacobian accumulator acc on which a caller performs any sequence of     *)
(* operations; k is the discrete logarithm the caller believes it has.     *)
(***************************************************************************)
EXTENDS Curve

CONSTANTS
    Beta,       \* cube root of unity in the field: ge_mul_lambda's constant
    Lambda,     \* cube root of unity modulo Order: what mul_lambda multiplies by
    Logs,       \* discrete logarithms of the second operands
    Zs          \* Z coordinates of the second operands

\* The map (x, y) -> (Beta x, y) multiplies the generator by Lambda.
ASSUME GroupAssumption ==
    /\ Beta \in 2 .. P-1 /\ (Beta * Beta * Beta) % P = 1
    /\ Lambda \in Int /\ Mult(Lambda) = <<(Beta * GX) % P, GY>>
    /\ Logs \subseteq 0 .. Order-1 /\ Zs \subseteq 1 .. P-1

-----------------------------------------------------------------------------
(* Points. *)

Ge(x, y, infinity) == [x |-> x, y |-> y, infinity |-> infinity]
Gej(x, y, z, infinity) == [x |-> x, y |-> y, z |-> z, infinity |-> infinity]

\* What a representation stands for, and whether every VERIFY_CHECK passed.
AffineOf(a) ==
    IF a.infinity THEN Inf
    ELSE LET zi == Inverse0[a.z.v]
         IN  <<(a.x.v * zi * zi) % P, (a.y.v * ((zi * zi * zi) % P)) % P>>
GeOf(a) == IF a.infinity THEN Inf ELSE <<a.x.v, a.y.v>>
Ok(a) == a.x.ok /\ a.y.ok /\ a.z.ok
GeOk(a) == a.x.ok /\ a.y.ok
Checked(a, cond) == [a EXCEPT !.x = Check(@, cond)]

\* j * G as it comes out of a table (ge), and with Z coordinate z.
FreshGe(j) ==
    IF j = 0 THEN Ge(fe_clear, fe_clear, TRUE)
    ELSE Ge(fe_set_int(Mult(j)[1]), fe_set_int(Mult(j)[2]), FALSE)
Fresh(j, z) ==
    IF j = 0 THEN Gej(fe_clear, fe_clear, fe_clear, TRUE)
    ELSE Gej(fe_set_int(Mult(j)[1] * z * z), fe_set_int(Mult(j)[2] * ((z * z * z) % P)),
             fe_set_int(z), FALSE)

gej_set_infinity == Gej(fe_clear, fe_clear, fe_clear, TRUE)
gej_clear == Gej(fe_clear, fe_clear, fe_clear, FALSE)

gej_set_ge(a) == Gej(a.x, a.y, fe_set_int(1), a.infinity)

\* The affine point of a, given the inverse of its Z (or another scale).
ge_set_gej_zinv(a, zi) ==
    LET zi2 == fe_sqr(zi)
    IN  Ge(fe_mul(a.x, zi2), fe_mul(a.y, fe_mul(zi2, zi)), a.infinity)

\* ge_set_gej rewrites its argument as well: a becomes the affine point, Z = 1.
ge_set_gej(a) == ge_set_gej_zinv(a, fe_inv(a.z))
ge_set_gej_a(a) == gej_set_ge(ge_set_gej(a))

\* The variable-time one returns before touching the coordinates of infinity;
\* r keeps whatever it held.
ge_set_gej_var(a, r) == IF a.infinity THEN [r EXCEPT !.infinity = TRUE] ELSE ge_set_gej(a)
ge_set_gej_var_a(a) == IF a.infinity THEN a ELSE ge_set_gej_a(a)

ge_neg(a) == [a EXCEPT !.y = fe_negate(fe_normalize_weak(@), 1)]
\* Mutant: y is not brought to magnitude 1 first.
gej_neg_lazy(a) == [a EXCEPT !.y = fe_negate(@, 1)]
gej_neg(a) == [a EXCEPT !.y = fe_negate(fe_normalize_weak(@), 1)]

ge_to_storage(a) ==
    Ge(fe_to_storage(Check(fe_normalize(a.x), ~a.infinity)),
       fe_to_storage(fe_normalize(a.y)), FALSE)
ge_from_storage(a) == Ge(fe_from_storage(a.x), fe_from_storage(a.y), FALSE)

ge_mul_lambda(a) == [a EXCEPT !.x = fe_mul(@, fe_set_int(Beta))]

gej_rescale(a, s) ==
    LET zz == fe_sqr(s)
    IN  Gej(Check(fe_mul(a.x, zz), s.normal /\ s.v # 0),
            fe_mul(fe_mul(a.y, zz), s), fe_mul(a.z, s), a.infinity)

-----------------------------------------------------------------------------
(* Doubling and adding.  r is the register a, as in every call of the      *)
(* multiplication loops: what a branch does not assign keeps a's value.    *)
(* zr is *rzr, the ratio of the new Z to a's, 1 or 0 at infinity.          *)

Sum(r, zr) == [r |-> r, zr |-> zr]

DoubleFinite(a) ==
    LET t1 == fe_mul_int(fe_sqr(a.x), 3)
        t2 == fe_sqr(t1)
        t3 == fe_mul_int(fe_sqr(a.y), 2)
        t4 == fe_mul_int(fe_sqr(t3), 2)
        t5 == fe_mul(t3, a.x)
        t6 == fe_add(fe_mul_int(t5, 6), fe_negate(t2, 1))
    IN  Gej(fe_add(fe_negate(fe_mul_int(t5, 4), 4), t2),
            fe_add(fe_mul(t1, t6), fe_negate(t4, 2)),
            fe_mul_int(fe_mul(a.z, a.y), 2), FALSE)

gej_double_var(a) ==
    IF a.infinity THEN Sum(a, fe_set_int(1))
    ELSE Sum(DoubleFinite(a), fe_mul_int(fe_normalize_weak(a.y), 2))

gej_double_nonzero(a) == gej_double_var(Checked(a, ~a.infinity))

\* Mutant: opposite points are taken for equal ones.
SameXDoubles(a, i) == gej_double_var(a)

\* a and b have the same x: the same point or opposite ones.
SameX(a, i) ==
    IF fe_normalizes_to_zero(i) THEN gej_double_var(a)
    ELSE Sum([a EXCEPT !.infinity = TRUE], fe_set_int(0))

\* The common end of the three variable-time additions.
AddDistinct(z, u1, s1, h, i) ==
    LET h2 == fe_sqr(h)
        h3 == fe_mul(h, h2)
        t  == fe_mul(u1, h2)
        x  == fe_add(fe_negate(fe_add(fe_mul_int(t, 2), h3), 3), fe_sqr(i))
    IN  Gej(x,
            fe_add(fe_mul(fe_add(fe_negate(x, 5), t), i), fe_negate(fe_mul(h3, s1), 1)),
            z, FALSE)

\* hz is h times the Z of b: the factor by which Z grows.
AddFrom(a, z, u1, s1, h, i, hz) ==
    IF fe_normalizes_to_zero(h) THEN SameX(a, i)
    ELSE Sum(AddDistinct(fe_mul(z, hz), u1, s1, h, i), hz)

Diff(u1, u2) == fe_add(fe_negate(u1, 1), u2)

gej_add_var(a, b) ==
    IF a.infinity THEN Sum(b, fe_set_int(1))
    ELSE IF b.infinity THEN Sum(a, fe_set_int(1))
    ELSE LET z22 == fe_sqr(b.z)
             z12 == fe_sqr(a.z)
             u1  == fe_mul(a.x, z22)
             s1  == fe_mul(fe_mul(a.y, z22), b.z)
             h   == Diff(u1, fe_mul(b.x, z12))
         IN  AddFrom(a, a.z, u1, s1, h, Diff(s1, fe_mul(fe_mul(b.y, z12), a.z)),
                     fe_mul(h, b.z))

\* b is affine relative to a Z of az: az is a.z here, a.z * bzinv below.
AddAffine(a, b, az) ==
    LET z12 == fe_sqr(az)
        u1  == fe_normalize_weak(a.x)
        s1  == fe_normalize_weak(a.y)
        h   == Diff(u1, fe_mul(b.x, z12))
    IN  AddFrom(a, a.z, u1, s1, h, Diff(s1, fe_mul(fe_mul(b.y, z12), az)), h)

gej_add_ge_var(a, b) ==
    IF a.infinity THEN Sum(gej_set_ge(b), fe_set_int(1))
    ELSE IF b.infinity THEN Sum(a, fe_set_int(1))
    ELSE AddAffine(a, b, a.z)

\* Adds (b.x, b.y, 1/bzinv).
gej_add_zinv_var(a, b, bzinv) ==
    IF b.infinity THEN a
    ELSE IF a.infinity THEN gej_set_ge(ge_set_gej_zinv(b, bzinv))
    ELSE AddAffine(a, b, fe_mul(a.z, bzinv)).r

\* The constant-time addition: a unified formula, an alternative slope moved in
\* when the formula is 0/0, and b moved in when a is infinity.
UnifiedEnd(a, b, t, m, rr, m_alt, rr_alt, degenerate) ==
    LET n  == fe_sqr(m_alt)
        q  == fe_negate(fe_mul(n, t), 1)
        n2 == fe_cmov(fe_sqr(n), m, degenerate)
        z  == fe_mul(a.z, m_alt)
        x3 == fe_normalize_weak(fe_add(fe_sqr(rr_alt), q))
        ty == fe_add(fe_mul(fe_add(fe_mul_int(x3, 2), q), rr_alt), n2)
        y3 == fe_normalize_weak(fe_negate(ty, 3))
    IN  Gej(fe_cmov(fe_mul_int(x3, 4), b.x, a.infinity),
            fe_cmov(fe_mul_int(y3, 4), b.y, a.infinity),
            fe_cmov(fe_mul_int(z, 2), fe_set_int(1), a.infinity),
            fe_normalizes_to_zero(z) /\ ~a.infinity)

Unified(a, b, u1, u2, s1, t, m, rr) ==
    LET degenerate == fe_normalizes_to_zero(m) /\ fe_normalizes_to_zero(rr)
    IN  UnifiedEnd(a, b, t, m, rr,
                   fe_cmov(fe_add(fe_negate(u2, 1), u1), m, ~degenerate),
                   fe_cmov(fe_mul_int(s1, 2), rr, ~degenerate), degenerate)

gej_add_ge(a, b) ==
    LET zz == fe_sqr(a.z)
        u1 == fe_normalize_weak(a.x)
        u2 == fe_mul(b.x, zz)
        s1 == fe_normalize_weak(a.y)
        t  == fe_add(u1, u2)
        m  == fe_add(s1, fe_mul(fe_mul(b.y, zz), a.z))
    IN  Checked(Unified(a, b, u1, u2, s1, t, m,
                        fe_add(fe_sqr(t), fe_mul(u1, fe_negate(u2, 1)))),
                ~b.infinity)

-----------------------------------------------------------------------------
(* Reading and recognising points. *)

CurveEquation(y2, x3, c) == fe_equal_var(y2, fe_normalize_weak(fe_add(x3, c)))

gej_is_valid_var(a) ==
    ~a.infinity /\ LET z2 == fe_sqr(a.z)
                   IN  CurveEquation(fe_sqr(a.y), fe_mul(fe_sqr(a.x), a.x),
                           fe_mul_int(fe_mul(fe_sqr(z2), z2), CURVE_B))

ge_is_valid_var(a) ==
    ~a.infinity /\ CurveEquation(fe_sqr(a.y), fe_mul(fe_sqr(a.x), a.x), fe_set_int(CURVE_B))

gej_eq_x_var(x, a) ==
    fe_equal_var(fe_mul(fe_sqr(a.z), x), fe_normalize_weak(a.x))

\* Mutant: the Jacobian y is tested for the affine one.
gej_has_quad_y_var_jacobian(a) == ~a.infinity /\ fe_sqrt(a.y).has

\* Y/Z^3 is a square iff Y*Z is.
gej_has_quad_y_var(a) == ~a.infinity /\ fe_sqrt(fe_mul(a.y, a.z)).has

\* The point with this x whose y is a square; has is the value returned.
ge_set_xquad(x) ==
    LET s == fe_sqrt(fe_add(fe_set_int(CURVE_B), fe_mul(x, fe_sqr(x))))
    IN  [has |-> s.has, r |-> Ge(x, s.root, FALSE)]

\* The point with this x whose y has the given parity.
WithParity(r, odd) ==
    IF fe_is_odd(r.y) # odd THEN [r EXCEPT !.y = fe_negate(@, 1)] ELSE r
ge_set_xo_var(x, odd) ==
    LET q == ge_set_xquad(x)
    IN  [has |-> q.has,
         r   |-> IF q.has THEN WithParity([q.r EXCEPT !.y = fe_normalize(@)], odd) ELSE q.r]

-----------------------------------------------------------------------------
(* Tables of points.  A sequence is the code's array, index 1 its entry 0. *)

\* All inverses with one inversion: prefix products, then back down.
fe_inv_all_var(s) ==
    LET n == Len(s)
        prod[i \in 1 .. n] == IF i = 1 THEN s[1] ELSE fe_mul(prod[i-1], s[i])
        u[i \in 1 .. n] == IF i = n THEN fe_inv(prod[n]) ELSE fe_mul(u[i+1], s[i+1])
    IN  [i \in 1 .. n |-> IF i = 1 THEN u[1] ELSE fe_mul(prod[i-1], u[i])]

\* Infinities are skipped: their entry of the result only gets the flag.
ge_set_all_gej_var(s) ==
    LET finite   == {i \in DOMAIN s : ~s[i].infinity}
        count(i) == Cardinality({j \in finite : j <= i})
        az       == [c \in 1 .. Cardinality(finite) |->
                       s[CHOOSE i \in finite : count(i) = c].z]
        azi      == fe_inv_all_var(az)
    IN  [i \in DOMAIN s |->
           IF s[i].infinity THEN Ge(fe_clear, fe_clear, TRUE)
           ELSE ge_set_gej_zinv(s[i], azi[count(i)])]

\* zr[i] is the Z of entry i divided by the Z of the entry before it: from the
\* last inverse the others follow by multiplication.
ge_set_table_gej_var(s, zr) ==
    LET n == Len(s)
        zi[i \in 1 .. n] == IF i = n THEN fe_inv(s[n].z) ELSE fe_mul(zi[i+1], zr[i+1])
    IN  [i \in 1 .. n |-> ge_set_gej_zinv(s[i], zi[i])]

\* The same without an inversion: every entry is brought to the Z of the last.
ge_globalz_set_table_gej(s, zr) ==
    LET n == Len(s)
        zs[i \in 1 .. n-1] == IF i = n-1 THEN zr[n] ELSE fe_mul(zs[i+1], zr[i+1])
    IN  [globalz |-> s[n].z,
         pre |-> [i \in 1 .. n |-> IF i = n THEN Ge(s[n].x, s[n].y, FALSE)
                                  ELSE ge_set_gej_zinv(s[i], zs[i])]]

-----------------------------------------------------------------------------
(* The accumulator. *)

VARIABLES
    acc,        \* the Jacobian point in memory
    k           \* its discrete logarithm, as the caller believes

groupVars == <<acc, k>>

\* Second operands: a point with each magnitude a caller can present.
GejOperands ==
    {[k |-> j, b |-> Fresh(j, z)] : j \in Logs, z \in Zs} \cup
    {[k |-> 2 * j, b |-> gej_double_var(Fresh(j, z)).r] : j \in Logs, z \in Zs}
GeOperands ==
    {[k |-> j, b |-> FreshGe(j)] : j \in Logs} \cup
    {[k |-> -j, b |-> ge_neg(FreshGe(j))] : j \in Logs}

GroupInit == acc = gej_set_infinity /\ k = 0

Compute(r, j) == acc' = r /\ k' = j % Order

SetInfinity == Compute(gej_set_infinity, 0)
SetGe == \E o \in GeOperands : Compute(gej_set_ge(o.b), o.k)
Double == Compute(gej_double_var(acc).r, 2 * k)
Neg == Compute(gej_neg(acc), -k)
AddVar == \E o \in GejOperands : Compute(gej_add_var(acc, o.b).r, k + o.k)
AddGeVar == \E o \in GeOperands : Compute(gej_add_ge_var(acc, o.b).r, k + o.k)
AddZinvVar ==
    \E j \in Logs, z \in Zs :
        Compute(gej_add_zinv_var(acc, Fresh(j, z), fe_inv(fe_set_int(z))), k + j)
AddGe ==
    \E o \in GeOperands :
        /\ ~o.b.infinity
        /\ Compute(gej_add_ge(acc, o.b), k + o.k)
Rescale == \E z \in Zs : Compute(gej_rescale(acc, fe_set_int(z)), k)
ToAffine == Compute(ge_set_gej_a(acc), k)
ToAffineVar == Compute(ge_set_gej_var_a(acc), k)
MulLambda ==
    /\ ~acc.infinity
    /\ Compute(gej_set_ge(ge_mul_lambda(ge_set_gej(acc))), Lambda * k)

GroupNext ==
    \/ SetInfinity \/ SetGe \/ Double \/ Neg \/ AddVar \/ AddGeVar \/ AddZinvVar
    \/ AddGe \/ Rescale \/ ToAffine \/ ToAffineVar \/ MulLambda

GroupSpec == GroupInit /\ [][GroupNext]_groupVars

-----------------------------------------------------------------------------
(* Properties. *)

\* Whatever sequence of operations led here, whatever Z it left behind, the
\* accumulator stands for the multiple of G the caller computed, infinity
\* exactly when that is zero: all the special cases of the addition formulas
\* (same point, opposite points, infinity on either side, y1 = -y2 with
\* x1 # x2) are taken when they must be.
AccIsMultiple == AffineOf(acc) = Mult(k)

\* No sequence of group operations hands fe_mul, fe_sqr or fe_negate an element
\* of larger magnitude than it accepts (the numbers in the comments of
\* group_impl.h), and no other VERIFY_CHECK fails.
MagnitudesHold == Ok(acc)

\* The questions asked of a point have the answer of the curve: it is on the
\* curve, its x compares equal to its own and to no other, the square-root test
\* does not need the affine y, and both decompressions find it again from x.
PointReadsAgree ==
    LET q == AffineOf(acc)
        x == fe_set_int(q[1])
    IN  /\ gej_is_valid_var(acc) = (k # 0)
        /\ k # 0 =>
             /\ ge_is_valid_var(ge_set_gej(acc))
             /\ \A v \in 0 .. P-1 : gej_eq_x_var(fe_set_int(v), acc) = (v = q[1])
             /\ LET xq == ge_set_xquad(x)
                    xo == ge_set_xo_var(x, q[2] % 2 = 1)
                IN  /\ xq.has /\ gej_has_quad_y_var(acc) = (GeOf(xq.r) = q)
                    /\ xo.has /\ GeOf(xo.r) = q /\ GeOk(xo.r)
                    /\ GeOf(ge_set_xo_var(x, q[2] % 2 = 0).r) = Mult(-k)
=============================================================================
