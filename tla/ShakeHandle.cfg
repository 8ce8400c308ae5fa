\* Buffers of 0..4 bytes: whole and partial blocks of both variants, all
\* below the 3-bit cast's modulus.
CONSTANTS
    Bytes = {0, 1}
    Block128 = 2
    Block256 = 1
    MaxData = 2
    MaxFed = 2
    MaxOut = 4
    MaxSqueeze = 4
    LenWidth = 3
SPECIFICATION Spec
INVARIANT TypeOK
PROPERTY ProtocolOutputIsXof
