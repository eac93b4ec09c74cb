--------------------------------- MODULE Fe ---------------------------------
(***************************************************************************)
(* A field element as the group code sees it: its residue modulo P, and    *)
(* the two facts the VERIFY build of src/field_5x52_impl.h keeps beside    *)
(* the limbs, the magnitude (how many multiples of the modulus the limbs   *)
(* may hold) and whether the limbs are normalised.  ok is FALSE once a     *)
(* VERIFY_CHECK of an operation on the way to the element has failed.      *)
(* Module Field shows what the limbs do inside these bounds.               *)
(***************************************************************************)
EXTENDS Integers

CONSTANT P          \* the field prime

\* P = 3 mod 4, so that fe_sqrt is a power; P = 1 mod 3, so that the curve has
\* an endomorphism.
ASSUME FieldAssumption ==
    P \in Nat /\ P > 3 /\ P % 12 = 7 /\ \A d \in 2 .. P-1 : P % d # 0

Inverse0 == [x \in 0 .. P-1 |->
    IF x = 0 THEN 0 ELSE CHOOSE y \in 1 .. P-1 : (x * y) % P = 1]
Root0 == [x \in 0 .. P-1 |->
    LET pow[e \in 0 .. P] == IF e = 0 THEN 1 ELSE (x * pow[e-1]) % P
    IN  pow[(P + 1) \div 4]]

Elem(v, m, normal, ok) == [v |-> v, m |-> m, normal |-> normal, ok |-> ok]
Check(a, cond) == [a EXCEPT !.ok = @ /\ cond]
MaxMul == 8         \* the largest magnitude fe_mul and fe_sqr accept

fe_set_int(v) == Elem(v % P, 1, TRUE, TRUE)

fe_clear == Elem(0, 0, TRUE, TRUE)

fe_normalize(a) == Elem(a.v, 1, TRUE, a.ok)

fe_normalize_weak(a) == [a EXCEPT !.m = 1]

fe_normalizes_to_zero(a) == a.v = 0

fe_is_odd(a) == a.v % 2 = 1

\* The caller promises that the magnitude of a is at most m.
fe_negate(a, m) == Elem((-a.v) % P, m + 1, FALSE, a.ok /\ a.m <= m)

fe_mul_int(a, k) == Elem((a.v * k) % P, a.m * k, FALSE, a.ok)

fe_add(a, b) == Elem((a.v + b.v) % P, a.m + b.m, FALSE, a.ok /\ b.ok)

fe_mul(a, b) ==
    Elem((a.v * b.v) % P, 1, FALSE, a.ok /\ b.ok /\ a.m <= MaxMul /\ b.m <= MaxMul)

fe_sqr(a) == Elem((a.v * a.v) % P, 1, FALSE, a.ok /\ a.m <= MaxMul)

\* The larger magnitude survives whichever way the flag goes.
fe_cmov(r, a, flag) ==
    Elem(IF flag THEN a.v ELSE r.v, IF a.m > r.m THEN a.m ELSE r.m,
         a.normal /\ r.normal, a.ok /\ r.ok)

\* The addition chain of fe_inv multiplies its argument: it must fit fe_mul.
fe_inv(a) == Elem(Inverse0[a.v], 1, FALSE, a.ok /\ a.m <= MaxMul)

\* a^((P+1)/4), and whether squaring it gives a back: fe_equal negates the
\* square and adds a.
fe_sqrt(a) ==
    [has  |-> (Root0[a.v] * Root0[a.v]) % P = a.v,
     root |-> Elem(Root0[a.v], 1, FALSE, a.ok /\ a.m <= MaxMul)]

\* equal_var negates a with magnitude 1 and adds b.
fe_equal_var(a, b) == fe_normalizes_to_zero(fe_add(fe_negate(a, 1), b))

\* to_storage wants a normalised element; from_storage makes one.
fe_to_storage(a) == Check(a, a.normal)
fe_from_storage(a) == Elem(a.v, 1, TRUE, a.ok)
=============================================================================
