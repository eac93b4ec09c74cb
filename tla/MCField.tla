------------------------------ MODULE MCField ------------------------------
EXTENDS Field

\* Toy versions of the two layouts, as large as 32-bit arithmetic allows:
\* P = 2^29 - 2 and 2^29 - 1 on five limbs of 6 bits, 2^29 - 9 on ten of 3 bits.
MCBuilds ==
    { [L |-> 5,  B |-> 6, T |-> 5, C0 |-> 2, C1 |-> 0, mag |-> 8, mul |-> 1],
      [L |-> 5,  B |-> 6, T |-> 5, C0 |-> 1, C1 |-> 0, mag |-> 8, mul |-> 3],
      [L |-> 10, B |-> 3, T |-> 2, C0 |-> 1, C1 |-> 1, mag |-> 2, mul |-> 1] }

\* Values at the borders: small ones, limbs that are full but for one, and the
\* largest residues of the primes.
MCSeeds == {0, 1, 2^24 - 1, 2^29 - 11, 2^29 - 3}
=============================================================================
