-------------------------------- MODULE Chain --------------------------------
(***************************************************************************)
(* Addition chains.  libsecp256k1 computes inverses and square roots as    *)
(* fixed powers, by hand-written sequences of squarings and                *)
(* multiplications.  What matters about such a sequence is the exponent it *)
(* ends with, and that does not depend on the modulus: these chains are    *)
(* modelled at their real size of 256 bits.                                *)
(*                                                                         *)
(* An exponent is the set of its one bits.  A chain is a sequence of steps *)
(* <<dst, src, k>> and <<dst, src, k, by>>: dst is src squared k times,    *)
(* multiplied by the variable by.  The base is the variable "x".           *)
(***************************************************************************)
EXTENDS Integers, Sequences, SequencesExt, TLC

Squared(E, k) == {i + k : i \in E}

\* The sum of two exponents: carries where both have a one.
RECURSIVE Plus(_, _)
Plus(E, F) == IF E \cap F = {} THEN E \cup F
              ELSE Plus((E \ F) \cup (F \ E), Squared(E \cap F, 1))

ChainStep(reg, s) ==
    LET power == Squared(reg[s[2]], s[3])
    IN  (s[1] :> IF Len(s) = 3 THEN power ELSE Plus(power, reg[s[4]])) @@ reg

\* A running call: its name, its local variables and the steps that are left.
VARIABLE power
Called(name, chain) == [call |-> name, reg |-> "x" :> {0}, todo |-> chain]
NoCall == Called("none", <<>>)
Begin(name, chain) == power = NoCall /\ power' = Called(name, chain)
PowerStep ==
    /\ power.todo # <<>>
    /\ power' = [power EXCEPT !.reg = ChainStep(@, Head(power.todo)), !.todo = Tail(@)]
PowerReturn == power # NoCall /\ power.todo = <<>> /\ power' = NoCall
Ended(name) == power.call = name /\ power.todo = <<>>

\* The one bits of a number written as 16-bit words, the highest first.
OneBits(words) ==
    {j \in 0 .. 16 * Len(words) - 1 :
        (words[Len(words) - (j \div 16)] \div 2^(j % 16)) % 2 = 1}
=============================================================================
