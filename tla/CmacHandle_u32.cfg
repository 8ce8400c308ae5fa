\* A 4-byte slice: the 2-bit cast hands the native library a length of 0.
CONSTANTS
    Bytes = {0}
    KeyLens = {2}
    KeySizes = {2}
    TagMinSz = 1
    TagMaxSz = 2
    MaxData = 4
    MaxFed = 4
    MaxOut = 2
    MaxCheck = 2
    LenWidth = 2
    MaxObjs = 1
SPECIFICATION Spec
PROPERTY MacOfInput
