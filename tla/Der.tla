--------------------------------- MODULE Der --------------------------------
(***************************************************************************)
(* The DER code of libsecp256k1: the strict parser and the serialiser of   *)
(* ecdsa_impl.h, and contrib's lax signature parser and private key        *)
(* import and export.                                                      *)
(*                                                                         *)
(* A byte has Base values and the top one of its bits marks a long length; *)
(* High is that bit (0x80), Base - 1 is 0xFF.  An integer has IntLen bytes *)
(* (32).  A parser is a fold over a cursor: next byte, whether everything  *)
(* was well formed so far, and the greatest index read, which property     *)
(* StaysInBounds is about.  Bytes beyond the end read as zero.             *)
(***************************************************************************)
EXTENDS Integers, Sequences, SequencesExt

CONSTANTS
    Base,        \* the number of values of a byte
    IntLen,      \* the bytes of a scalar
    SizeLen,     \* sizeof(size_t)
    DerOrder,    \* the group order
    SEQUENCE, INTEGER, OCTETS,   \* the tags 0x30, 0x02 and 0x04
    Middle,      \* the lengths of the constant parts of an exported key
    DerScalars,     \* the scalars that are serialised
    EditBytes,   \* the bytes an edit puts into an input
    MaxEdits

High == Base \div 2
Max32 == Base ^ IntLen
ASSUME DerAssumption ==
    /\ Base % 2 = 0 /\ {SEQUENCE, INTEGER, OCTETS} \subseteq 1 .. (High - 1)
    /\ DerOrder \in 2 .. Max32 /\ DerScalars \subseteq 0 .. (DerOrder - 1)
    /\ 4 + 2 * (IntLen + 1) < High
    /\ EditBytes \subseteq 0 .. (Base - 1)

VARIABLES
    input,      \* the bytes handed to the parsers
    edits       \* how many edits separate them from a serialised object
derVars == <<input, edits>>

\* The number that bytes from .. to of in spell, the highest first.
Number(in, from, to) ==
    FoldLeft(LAMBDA n, i : (n * Base + in[from + i - 1]) % Base ^ SizeLen, 0,
             [i \in 1 .. (to - from + 1) |-> i])
Digits(v, n) == [i \in 1 .. n |-> (v \div Base ^ (n - i)) % Base]
At(in, i) == IF i \in DOMAIN in THEN in[i] ELSE 0
Larger(a, b) == IF a > b THEN a ELSE b

-----------------------------------------------------------------------------
(* The strict parser *)

Fail(c) == [c EXCEPT !.ok = FALSE]
Read(c, i) == [c EXCEPT !.top = Larger(@, i)]

\* A cursor's len is the length der_read_len returned, its val the last integer.
Start == [pos |-> 1, ok |-> TRUE, len |-> 0, val |-> 0, top |-> 0]

\* A size_t returned as an int: the top bit is the sign.  (Here both have the
\* same width.  Only a length of all ones gets this far without being bounded by
\* the input, and it is -1 in an int of any width.)
AsInt(n) == IF n >= Base ^ SizeLen \div 2 THEN n - Base ^ SizeLen ELSE n

\* The loop over the bytes of a long length: stop as soon as what was read and
\* the bytes still to come exceed what is left; their sum may wrap.
RECURSIVE LongLength(_, _, _)
LongLength(in, c, left) ==
    LET ret == (c.len * Base + At(in, c.pos)) % Base ^ SizeLen
    IN  IF left = 0 THEN IF c.len < High THEN Fail(c) ELSE [c EXCEPT !.len = AsInt(@)]
        ELSE IF (ret + left) % Base ^ SizeLen > Len(in) + 1 - c.pos THEN Fail(Read(c, c.pos))
        ELSE LongLength(in, [Read(c, c.pos) EXCEPT !.len = ret, !.pos = @ + 1], left - 1)

\* Mutant: the number of length bytes is not compared with what is left.
der_read_len_unbounded(in, c) ==
    LET b1   == At(in, c.pos)
        left == b1 - High
        d    == [Read(c, c.pos) EXCEPT !.pos = @ + 1, !.len = 0]
    IN  IF c.pos > Len(in) THEN Fail(c)
        ELSE IF b1 < High THEN [d EXCEPT !.len = b1]
        ELSE IF b1 \in {Base - 1, High} THEN Fail(d)
        ELSE IF At(in, d.pos) = 0 \/ left > SizeLen THEN Fail(Read(d, d.pos))
        ELSE LongLength(in, d, left)
\* secp256k1_der_read_len: short form, or the shortest long form.
der_read_len(in, c) ==
    LET b1   == At(in, c.pos)
        left == b1 - High
        d    == [Read(c, c.pos) EXCEPT !.pos = @ + 1, !.len = 0]
    IN  IF c.pos > Len(in) THEN Fail(c)
        ELSE IF b1 < High THEN [d EXCEPT !.len = b1]
        ELSE IF b1 \in {Base - 1, High} \/ left > Len(in) + 1 - d.pos THEN Fail(d)
        ELSE IF At(in, d.pos) = 0 \/ left > SizeLen THEN Fail(Read(d, d.pos))
        ELSE LongLength(in, d, left)

\* Mutant: superfluous zeros are let through.
PaddedOnesOnly(in, c) ==
    c.len > 1 /\ in[c.pos] = Base - 1 /\ in[c.pos + 1] >= High
\* Leading zeros that are not needed to keep an integer positive, or ones that
\* are not needed to keep it negative.
Padded(in, c) ==
    /\ c.len > 1
    /\ \/ in[c.pos] = 0 /\ in[c.pos + 1] < High
       \/ in[c.pos] = Base - 1 /\ in[c.pos + 1] >= High

Leading0(in, pos, len) ==
    CHOOSE n \in 0 .. len : /\ \A i \in 1 .. n : in[pos + i - 1] = 0
                            /\ n = len \/ in[pos + n] # 0

\* A negative, too long or too large integer is read as zero.
Value(in, c) ==
    LET zeros  == Leading0(in, c.pos, c.len)
        digits == SubSeq(in, c.pos + zeros, c.pos + c.len - 1)
        v      == FoldLeft(LAMBDA n, b : n * Base + b, 0, digits)
    IN  IF in[c.pos] >= High \/ Len(digits) > IntLen \/ v >= DerOrder THEN 0 ELSE v

\* secp256k1_der_parse_integer.
der_parse_integer(in, c) ==
    IF c.pos > Len(in) THEN Fail(c)
    ELSE IF in[c.pos] # INTEGER THEN Fail(Read(c, c.pos))
    ELSE LET d == der_read_len(in, [c EXCEPT !.pos = @ + 1, !.top = Larger(@, c.pos)])
         IN  IF ~d.ok \/ d.len <= 0 \/ d.pos + d.len - 1 > Len(in) THEN Fail(d)
             ELSE IF Padded(in, d) THEN Fail(Read(d, d.pos + 1))
             ELSE [Read(d, d.pos + d.len - 1)
                      EXCEPT !.pos = @ + d.len, !.val = Value(in, d)]

\* secp256k1_ecdsa_sig_parse and, with its failure case, parse_der.
Refused(top) == [ok |-> FALSE, r |-> 0, s |-> 0, top |-> top]
ecdsa_sig_parse(in) ==
    LET c == IF in # <<>> /\ in[1] = SEQUENCE
             THEN der_read_len(in, [Start EXCEPT !.pos = 2, !.top = 1])
             ELSE Fail([Start EXCEPT !.top = IF in = <<>> THEN 0 ELSE 1])
        r == der_parse_integer(in, c)
        s == der_parse_integer(in, r)
    IN  IF ~c.ok \/ c.len < 0 \/ c.pos + c.len - 1 # Len(in) THEN Refused(c.top)
        ELSE IF ~r.ok THEN Refused(r.top)
        ELSE IF ~s.ok \/ s.pos # Len(in) + 1 THEN Refused(s.top)
        ELSE [ok |-> TRUE, r |-> r.val, s |-> s.val, top |-> s.top]

\* ecdsa_sig_serialize: the fewest bytes that keep an integer positive.
Shortest(v) ==
    LET full == <<0>> \o Digits(v, IntLen)
        n    == CHOOSE n \in 1 .. Len(full) :
                    /\ n = Len(full) \/ full[n] # 0 \/ full[n + 1] >= High
                    /\ \A i \in 1 .. (n - 1) : full[i] = 0 /\ full[i + 1] < High
    IN  SubSeq(full, n, Len(full))
\* The size needed is reported whether or not the buffer of the caller has it.
ecdsa_sig_serialize(r, s, size) ==
    LET rp == Shortest(r)
        sp == Shortest(s)
    IN  [ok |-> size >= 6 + Len(rp) + Len(sp), size |-> 6 + Len(rp) + Len(sp),
         sig |-> <<SEQUENCE, 4 + Len(rp) + Len(sp), INTEGER, Len(rp)>> \o rp
                     \o <<INTEGER, Len(sp)>> \o sp]

-----------------------------------------------------------------------------
(* The lax parser *)

\* Any tag and any length byte there are: the cursor after them.
Tag(in, c, tag) ==
    IF ~c.ok \/ c.pos > Len(in) THEN Fail(c)
    ELSE IF in[c.pos] # tag THEN Fail(Read(c, c.pos))
    ELSE [Read(c, c.pos) EXCEPT !.pos = @ + 1]
LengthByte(in, c) ==
    IF ~c.ok \/ c.pos > Len(in) THEN Fail(c)
    ELSE [Read(c, c.pos) EXCEPT !.pos = @ + 1, !.len = in[c.pos]]

\* Mutant: the bytes of a long length are not skipped.
SkipLengthShort(in, c) == LengthByte(in, c)
\* The sequence's own length is skipped, whatever it is.
SkipLength(in, c) ==
    LET d == LengthByte(in, c)
        n == d.len - High
    IN  IF ~d.ok \/ d.len < High THEN d
        ELSE IF d.pos + n - 1 > Len(in) THEN Fail(d)
        ELSE [d EXCEPT !.pos = @ + n]

\* An integer's length may have leading zeros, and must fit a size_t.
LaxLength(in, c) ==
    LET d     == LengthByte(in, c)
        n     == d.len - High
        zeros == Leading0(in, d.pos, n)
    IN  IF ~d.ok \/ d.len < High THEN d
        ELSE IF d.pos + n - 1 > Len(in) THEN Fail(d)
        ELSE IF n - zeros >= SizeLen THEN Fail(Read(d, d.pos + zeros))
        ELSE [Read(d, d.pos + n - 1) EXCEPT !.pos = @ + n,
                                            !.len = Number(in, d.pos + zeros, d.pos + n - 1)]

\* pos moves over the integer and val becomes where it began.
LaxInteger(in, c) ==
    LET d == LaxLength(in, Tag(in, c, INTEGER))
    IN  IF ~d.ok \/ d.len > Len(in) + 1 - d.pos THEN Fail(d)
        ELSE [Read(d, d.pos + d.len - 1) EXCEPT !.pos = @ + d.len, !.val = d.pos]
\* The bytes of an integer that was passed, without its leading zeros.
Trimmed(in, c) ==
    SubSeq(in, c.val + Leading0(in, c.val, c.len), c.val + c.len - 1)
Unsigned(digits) == FoldLeft(LAMBDA n, b : n * Base + b, 0, digits)

\* Both are zero when either does not fit; what follows S is ignored.
Fits(digits) == Len(digits) <= IntLen /\ Unsigned(digits) < DerOrder
LaxPair(rd, sd, top) ==
    IF Fits(rd) /\ Fits(sd)
    THEN [ok |-> TRUE, r |-> Unsigned(rd), s |-> Unsigned(sd), top |-> top]
    ELSE [ok |-> TRUE, r |-> 0, s |-> 0, top |-> top]
LaxAnswer(in, r, s) ==
    IF ~r.ok \/ ~s.ok THEN Refused(s.top)
    ELSE LaxPair(Trimmed(in, r), Trimmed(in, s), s.top)
LaxSecond(in, r) == LaxAnswer(in, r, LaxInteger(in, r))
ecdsa_signature_parse_der_lax(in) ==
    LaxSecond(in, LaxInteger(in, SkipLength(in, Tag(in, Start, SEQUENCE))))

-----------------------------------------------------------------------------
(* Private keys in DER *)

\* ec_privkey_export_der: version 1, the key, constant curve parameters and the
\* public key; Middle.compressed and Middle.full count all that follows the key.
ec_privkey_export_der(k, compressed) ==
    LET rest == [i \in 1 .. IF compressed THEN Middle.compressed ELSE Middle.full |-> 3]
        body == <<INTEGER, 1, 1, OCTETS, IntLen>> \o Digits(k, IntLen) \o rest
    IN  IF k \notin 1 .. (DerOrder - 1) THEN <<>>
        ELSE IF compressed THEN <<SEQUENCE, High + 1, Len(body)>> \o body
        ELSE <<SEQUENCE, High + 2>> \o Digits(Len(body), 2) \o body

\* ec_privkey_import_der, with the greatest index it reads and the first index
\* of its 32 bytes of output that the key is copied to (IntLen for no copy).
NoKey(top, first) == [ok |-> FALSE, key |-> 0, top |-> top, first |-> first]
\* Mutant: the bytes are taken without secp256k1_ec_seckey_verify.
ImportKeyUnverified(in, at) ==
    IF Len(in) < at + 1 THEN NoKey(at - 1, IntLen)
    ELSE IF in[at] # OCTETS \/ in[at + 1] > IntLen \/ Len(in) < at + 1 + in[at + 1]
    THEN NoKey(at + 1, IntLen)
    ELSE [ok |-> TRUE, key |-> Unsigned(SubSeq(in, at + 2, at + 1 + in[at + 1])),
          top |-> at + 1 + in[at + 1], first |-> IntLen - in[at + 1]]
ImportKey(in, at) ==
    IF Len(in) < at + 1 THEN NoKey(at - 1, IntLen)
    ELSE IF in[at] # OCTETS \/ in[at + 1] > IntLen \/ Len(in) < at + 1 + in[at + 1]
    THEN NoKey(at + 1, IntLen)
    ELSE LET n == in[at + 1]
             k == Unsigned(SubSeq(in, at + 2, at + 1 + n))
         IN  IF k \in 1 .. (DerOrder - 1)
             THEN [ok |-> TRUE, key |-> k, top |-> at + 1 + n, first |-> IntLen - n]
             ELSE NoKey(at + 1 + n, IntLen - n)

ec_privkey_import_der(in) ==
    LET lenb == in[2] - High
        at   == 3 + lenb                \* the first byte after the length
        len  == IF lenb = 1 THEN in[3] ELSE in[3] * Base + in[4]
    IN  IF in = <<>> \/ in[1] # SEQUENCE THEN NoKey(IF in = <<>> THEN 0 ELSE 1, IntLen)
        ELSE IF Len(in) < 2 THEN NoKey(1, IntLen)
        ELSE IF lenb \notin 1 .. 2 \/ Len(in) < 2 + lenb THEN NoKey(2, IntLen)
        ELSE IF Len(in) < at - 1 + len THEN NoKey(at - 1, IntLen)
        ELSE IF Len(in) < at + 2 THEN NoKey(at - 1, IntLen)
        ELSE IF SubSeq(in, at, at + 2) # <<INTEGER, 1, 1>> THEN NoKey(at + 2, IntLen)
        ELSE ImportKey(in, at + 3)

-----------------------------------------------------------------------------
(* Inputs: what the serialisers write, signatures in the looser encodings  *)
(* the lax parser is for, lengths at the limit of a size_t, and all of     *)
(* these after up to MaxEdits edits.                                       *)

\* An integer with n bytes in front and its length in the long form or not.
LooseInteger(v, front, long) ==
    LET body == front \o Shortest(v)
    IN  (IF long THEN <<INTEGER, High + 1, Len(body)>> ELSE <<INTEGER, Len(body)>>) \o body
LooseSignature(r, s, front, long) ==
    LET body == LooseInteger(r, front, long) \o LooseInteger(s, <<>>, FALSE)
    IN  (IF Len(body) >= High THEN <<SEQUENCE, High + 1, Len(body)>>
         ELSE <<SEQUENCE, Len(body)>>) \o body

\* A sequence with a length of as many bytes as a size_t has, the last 0xFF.
HugeLength(n) == <<SEQUENCE, High + SizeLen>> \o [i \in 1 .. SizeLen |-> IF i = 1 THEN n ELSE Base - 1]

\* Zeros in front are padding, ones make the integer too long for a scalar.
DerInit ==
    /\ edits = 0
    /\ \/ \E r, s \in DerScalars : input = LooseSignature(r, s, <<>>, FALSE)
       \/ \E r \in DerScalars, n \in {1, High - 4, High}, b \in {0, 1}, long \in BOOLEAN :
              input = LooseSignature(r, r, [i \in 1 .. n |-> b], long \/ n = High)
       \/ \E n \in {1, Base - 1}, v \in DerScalars : input = HugeLength(n) \o Digits(v, IntLen)
       \/ \E n \in {1, Base - 1}, v \in DerScalars :
              input = <<SEQUENCE, 4 + IntLen, INTEGER>> \o Tail(HugeLength(n)) \o Digits(v, IntLen)
       \/ \E k \in DerScalars \ {0}, compressed \in BOOLEAN :
              input = ec_privkey_export_der(k, compressed)

Edited(new) == edits < MaxEdits /\ edits' = edits + 1 /\ input' = new
ReplaceByte == \E i \in DOMAIN input, b \in EditBytes :
    Edited([input EXCEPT ![i] = b])
InsertByte == \E i \in 1 .. (Len(input) + 1), b \in EditBytes : Edited(InsertAt(input, i, b))
RemoveByte == \E i \in DOMAIN input : Edited(RemoveAt(input, i))
Truncate == \E n \in 0 .. Len(input) : Edited(SubSeq(input, 1, n))
DerNext == ReplaceByte \/ InsertByte \/ RemoveByte \/ Truncate

-----------------------------------------------------------------------------
(* Properties *)

\* No parser reads a byte beyond the input, whatever the tags and the lengths
\* inside it claim (the pointer comparisons of secp256k1_der_read_len,
\* der_parse_integer, parse_der_lax and privkey_import_der), and no length makes
\* an imported key be copied to in front of the 32 bytes it is for.
StaysInBounds ==
    /\ ecdsa_sig_parse(input).top <= Len(input)
    /\ ecdsa_signature_parse_der_lax(input).top <= Len(input)
    /\ ec_privkey_import_der(input).top <= Len(input)
    /\ ec_privkey_import_der(input).first \in 0 .. IntLen

\* What the serialiser writes is accepted and gives the same scalars back.
SerialisedParses == \A r, s \in DerScalars :
    LET p == ecdsa_sig_parse(ecdsa_sig_serialize(r, s, 6 + 2 * (IntLen + 1)).sig)
    IN  p.ok /\ p.r = r /\ p.s = s

\* An input has one meaning and a meaning one input: what the strict parser
\* accepts with nonzero values is what the serialiser writes for these values,
\* so changed signature bytes are refused or are another signature.  The
\* serialiser asks for exactly the bytes it writes, and what it writes is
\* accepted and gives the same scalars back, at the top bit of a byte and at
\* the order's borders too (secp256k1_ecdsa_sig_parse, sig_serialize).
StrictIsCanonical ==
    LET p == ecdsa_sig_parse(input)
        w == ecdsa_sig_serialize(p.r, p.s, Len(input))
    IN  /\ p.ok /\ p.r # 0 /\ p.s # 0 => w.ok /\ w.sig = input /\ w.size = Len(w.sig)
        /\ edits = 0 => SerialisedParses

Extends(q, p) == p.ok => q.ok /\ (p.r # 0 /\ p.s # 0 => q.r = p.r /\ q.s = p.s)
\* The lax parser extends the strict one: it accepts what the strict one
\* accepts, with the same nonzero values.
LaxExtendsStrict == Extends(ecdsa_signature_parse_der_lax(input), ecdsa_sig_parse(input))

\* Importing gives back the exported key, and from damaged bytes either a key
\* that seckey_verify accepts or nothing.
ImportedKeyIsValid ==
    LET i == ec_privkey_import_der(input)
    IN  /\ i.ok => i.key \in 1 .. (DerOrder - 1)
        /\ edits = 0 => \A k \in DerScalars \ {0}, compressed \in BOOLEAN :
               LET back == ec_privkey_import_der(ec_privkey_export_der(k, compressed))
               IN  back.ok /\ back.key = k
=============================================================================
