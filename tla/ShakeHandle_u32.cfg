\* Blocks of 3 bytes and a 2-bit cast: a 4-byte buffer casts to 0 and passes the check.
CONSTANTS
    Bytes = {0}
    Block128 = 3
    Block256 = 3
    MaxData = 1
    MaxFed = 1
    MaxOut = 7
    MaxSqueeze = 6
    LenWidth = 2
SPECIFICATION Spec
PROPERTY SqueezeLengthChecked
