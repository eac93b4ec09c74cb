-------------------------------- MODULE Curve -------------------------------
(***************************************************************************)
(* The curve y^2 = x^3 + CURVE_B by its definition: affine points over the *)
(* integers modulo P, the chord-and-tangent law, and the table of all      *)
(* multiples of the generator.  It is what the formulas of module Group    *)
(* are checked against, and the group the signature code of module         *)
(* Secp256k1 computes in.                                                  *)
(***************************************************************************)
EXTENDS Integers, Sequences, SequencesExt, Fe

CONSTANTS
    CURVE_B,    \* the constant of the curve equation (7 in the code)
    GX, GY,     \* the generator
    Order       \* the number of points

Inf == <<>>
OnCurve(q) == q = Inf \/ (q[2] * q[2]) % P = (q[1] * q[1] * q[1] + CURVE_B) % P

Chord(p, q, slope) ==
    LET x == (slope * slope - p[1] - q[1]) % P
    IN  <<x, (slope * (p[1] - x) - p[2]) % P>>
AffineAdd(p, q) ==
    IF p = Inf THEN q
    ELSE IF q = Inf THEN p
    ELSE IF p[1] # q[1] THEN Chord(p, q, ((q[2] - p[2]) * Inverse0[(q[1] - p[1]) % P]) % P)
    ELSE IF p[2] = q[2] THEN Chord(p, q, (3 * p[1] * p[1] * Inverse0[(2 * p[2]) % P]) % P)
    ELSE Inf

\* Multiples[j+1] is j * G, for j in 0 .. Order-1; Mult(j) takes any integer.
Multiples ==
    FoldLeft(LAMBDA s, j : Append(s, AffineAdd(Last(s), <<GX, GY>>)),
             <<Inf>>, [j \in 1 .. Order-1 |-> j])
Mult(j) == Multiples[(j % Order) + 1]

\* A curve of prime order, below P but above P/2, without a point of order two.
ASSUME CurveAssumption ==
    /\ CURVE_B \in Nat /\ GX \in 0 .. P-1 /\ GY \in 0 .. P-1 /\ OnCurve(<<GX, GY>>)
    /\ Order \in 3 .. P-1 /\ 2 * Order > P /\ \A d \in 2 .. Order-1 : Order % d # 0
    /\ \A j \in 1 .. Order-1 : Mult(j) # Inf
    /\ AffineAdd(Mult(Order - 1), <<GX, GY>>) = Inf

\* The points are a group that the generator generates: adding multiples of it
\* adds their factors, and every point is a multiple.
ASSUME GroupLaw ==
    /\ Mult(0) = Inf /\ Mult(1) = <<GX, GY>>
    /\ \A i, j \in 0 .. Order-1 : AffineAdd(Mult(i), Mult(j)) = Mult(i + j)
    /\ {q \in (0 .. P-1) \X (0 .. P-1) : OnCurve(q)} = {Mult(j) : j \in 1 .. Order-1}
=============================================================================
