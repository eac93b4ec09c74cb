SPECIFICATION Spec
CONSTANTS
    Base = 32
    IntLen = 2
    SizeLen = 2
    DerOrder = 1013
    SEQUENCE = 12
    INTEGER = 2
    OCTETS = 4
    Middle <- MCMiddle
    DerScalars = {0, 1, 15, 16, 511, 512, 1012}
    EditBytes = {0, 1, 2, 3, 16, 17, 18, 31}
    MaxEdits = 1
    BlockSize = 4
    DigestSize = 2
    LengthSize = 1
    IV = 4242
    Compress <- MCCompress
    Output <- MCOutput
    HmacKeys <- MCHmacKeys
    WriteLens = {0, 1, 3, 4, 7}
    OutLens = {0, 1, 2, 5}
    NonceArgs <- MCNonceArgs
    MaxText = 15
    MaxDraws = 3
INVARIANTS
    StaysInBounds
    StrictIsCanonical
    LaxExtendsStrict
    ImportedKeyIsValid
    MacIsRfc2104
    GeneratesRfc6979
CHECK_DEADLOCK FALSE
