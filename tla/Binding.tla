------------------------------- MODULE Binding ------------------------------
(***************************************************************************)
(* The Go binding of the signature library (crypto/secp256k1/secp256.go),  *)
(* as package crypto and the node call it: one context made when the       *)
(* package is loaded, an illegal callback that panics, and calls that keep *)
(* nothing but Go values.  Of the variables of module Secp256k1, sig is    *)
(* the 65 bytes Sign returned, pubkey the coordinates of the ecdsa key at  *)
(* hand (ZeroKey for nil), and seckey is not used: a key is an argument.   *)
(* BindingSpec has both callers of the library: the binding (inGo), and a  *)
(* C program, which makes the calls of Secp256k1 in its own order.         *)
(*                                                                         *)
(* ScalarMult (scalar_mult_cgo.go) is left out: ext_scalar_mul checks no   *)
(* argument but for NULL.                                                  *)
(***************************************************************************)
EXTENDS Secp256k1

VARIABLE inGo       \* the caller is the Go binding, not a C program

goVars == <<vars, inGo>>

\* Every string VerifySignature may be given for a key: the two sizes that are
\* looked at and one for all others; tag 0 stands for every unknown one, and
\* the y of 33 bytes, which have none, is 0.
Tags == {0, 2, 3, 4, 6, 7}
Compressed == [size : {33}, tag : Tags, x : B32, y : {0}]
KeyBytes == Compressed \cup [size : {65}, tag : Tags, x : B32, y : B32]
                       \cup [size : {64}, tag : Tags, x : {0}, y : {0}]

\* The last byte of a signature: a recovery id, or (4) any other value.
LastBytes == 0 .. 4

\* The package's init.
Load ==
    /\ ~ctx.live /\ ctx' = Both
    /\ UNCHANGED <<seckey, pubkey, sig, msg, signer, panicked>>

BindingCall == Call /\ UNCHANGED <<ctx, seckey, msg>>
Fresh == sig = ZeroSig /\ pubkey = ZeroKey

\* The coordinates in 65 bytes of output, or nil.
Coordinates(f) == IF f.ret THEN <<f.out.x, f.out.y>> ELSE ZeroKey
Marshal(q) == [size |-> 65, tag |-> 4, x |-> q[1], y |-> q[2]]

Sign ==
    /\ BindingCall /\ Fresh
    /\ \E k \in B32, nonces \in NonceStreams :
         LET f == ecdsa_sign_recoverable(ctx, msg, k, nonces)
         IN  /\ ec_seckey_verify(k)
             /\ sig' = f.out /\ Panic(f)
             /\ signer' = IF f.ret THEN k ELSE 0
    /\ UNCHANGED pubkey

\* checkSignature refuses a last byte that is no recovery id.
RecoverFrom(r, s, v) ==
    LET f == ext_ecdsa_recover(ctx, r, s, v, msg)
    IN  v < 4 /\ pubkey' = Coordinates(f) /\ Panic(f)

\* The 65 bytes come from a peer, or from Sign.
RecoverPubkey ==
    /\ BindingCall
    /\ \/ sig = ZeroSig /\ \E r, s \in B32, v \in LastBytes : RecoverFrom(r, s, v)
       \/ sig # ZeroSig /\ RecoverFrom(sig.r, sig.s, sig.recid)
    /\ UNCHANGED <<sig, signer>>

\* Its answer changes nothing, so strangers' bytes are tried once per message.
VerifySignature ==
    /\ BindingCall
    /\ \/ Fresh /\ \E r \in Rs, s \in Ss, b \in KeyBytes : Panic(ext_ecdsa_verify(ctx, r, s, msg, b))
       \/ /\ sig # ZeroSig /\ pubkey # ZeroKey
          /\ Panic(ext_ecdsa_verify(ctx, sig.r, sig.s, msg, Marshal(pubkey)))
    /\ UNCHANGED <<sig, pubkey, signer>>

DecompressPubkey ==
    /\ BindingCall /\ sig = ZeroSig
    /\ \E b \in Compressed :
         LET f == ext_reencode_pubkey(65, b) IN pubkey' = Coordinates(f) /\ Panic(f)
    /\ UNCHANGED <<sig, signer>>

\* Called with a key the binding itself decoded; a failure panics too.
CompressPubkey ==
    /\ BindingCall /\ pubkey # ZeroKey
    /\ LET f == ext_reencode_pubkey(33, Marshal(pubkey)) IN panicked' = (f.illegal \/ ~f.ret)
    /\ UNCHANGED <<sig, pubkey, signer>>

GoNext ==
    \/ Load \/ Sign \/ RecoverPubkey \/ VerifySignature \/ DecompressPubkey \/ CompressPubkey

BindingInit == Init /\ inGo \in BOOLEAN
BindingNext ==
    /\ \/ inGo /\ GoNext
       \/ ~inGo /\ Next
    /\ UNCHANGED inGo

BindingSpec == BindingInit /\ [][BindingNext]_goVars

-----------------------------------------------------------------------------
(* Properties, besides those of Secp256k1. *)

\* The Go binding never panics, whatever 65 bytes of signature and whatever
\* bytes of a key a peer sends, r and s above the order, coordinates above P
\* and points off the curve included: with the context it creates and the last
\* byte it has checked, no argument check of the library fails, and a key it
\* has once decoded can always be compressed.
BindingNeverPanics == inGo => ~panicked
=============================================================================
