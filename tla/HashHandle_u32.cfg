\* Slices of 4 and 5 bytes: at and past the modulus of the narrowed cast.
CONSTANTS
    Bytes = {0, 1}
    MaxData = 5
    MaxFed = 5
    LenWidth = 2
    AllocatingAlgs = {}
    MaxAllocs = 1
SPECIFICATION Spec
PROPERTY FinalizeDigestsInput
