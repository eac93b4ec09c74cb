-------------------------------- MODULE Codec -------------------------------
(***************************************************************************)
(* The byte-level code of libsecp256k1 for TLC: DER of module Der, HMAC    *)
(* and the nonce generator of module Hash.  The three objects share no     *)
(* state, so each is explored by itself while the others stay as they are. *)
(***************************************************************************)
EXTENDS Der, Hash

VARIABLE focus    \* the object that is explored
vars == <<focus, input, edits, hmac, key, text, rng, args, drawn>>

\* Any mixing function does that tells blocks and their order apart.
MCCompress(s, block) == FoldLeft(LAMBDA a, b : (a * 31 + b + 7) % 65521, s + 1, block)
MCOutput(s) == <<(s \div 256) % 256, s % 256>>

\* Keys that are empty, short, as long as a block and longer than one.
MCHmacKeys == {<<>>, <<17, 3>>, <<9, 8, 7, 6>>, <<1, 2, 3, 4, 5>>}

\* Two-byte keys, messages and data, a one-byte algorithm name: 32, 32, 32, 16.
MCNonceArgs ==
    [key32 : {<<0, 5>>}, msg32 : {<<4, 4>>, <<4, 5>>},
     data : {<<>>, <<2, 2>>, <<2, 6>>}, algo16 : {<<>>, <<2>>}]
MCMiddle == [compressed |-> 10, full |-> 29]

\* An object that is not explored: no bytes, the empty key, some arguments.
IdleDer == input = <<>> /\ edits = MaxEdits
IdleHmac == key = <<>> /\ text = <<>> /\ hmac = hmac_sha256_initialize(<<>>)
IdleRng ==
    /\ args = CHOOSE a \in NonceArgs : TRUE
    /\ drawn = <<>> /\ rng = rfc6979_hmac_sha256_initialize(KeyData(args))

Init ==
    \/ focus = "der" /\ DerInit /\ IdleHmac /\ IdleRng
    \/ focus = "hmac" /\ HmacInit /\ IdleDer /\ IdleRng
    \/ focus = "rng" /\ RngInit /\ IdleDer /\ IdleHmac

Der1 == focus = "der" /\ DerNext /\ UNCHANGED <<focus, hashVars>>
Hmac1 == focus = "hmac" /\ HmacWrite /\ UNCHANGED <<focus, derVars>>
Rng1 == focus = "rng" /\ (RngGenerate \/ RngFinalize \/ RngRestart)
                      /\ UNCHANGED <<focus, derVars>>
Next == Der1 \/ Hmac1 \/ Rng1
Spec == Init /\ [][Next]_vars
=============================================================================
