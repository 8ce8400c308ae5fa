\* Keys of a rejected (1) and an accepted (2) length; buffers of 0..3 bytes
\* cover empty, truncated (1 byte), full-size (2) and too long tags.
CONSTANTS
    Bytes = {0, 1}
    KeyLens = {1, 2}
    KeySizes = {2}
    TagMinSz = 1
    TagMaxSz = 2
    MaxData = 2
    MaxFed = 2
    MaxOut = 3
    MaxCheck = 2
    LenWidth = 2
    MaxObjs = 2
SPECIFICATION Spec
INVARIANT TypeOK 
PROPERTY MacOfInput VerifyDecides
