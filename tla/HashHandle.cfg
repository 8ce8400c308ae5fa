\* Slices shorter than the cast's modulus; SHA-256 Init allocates, and two
\* allocations may be outstanding, so that init() over a live SHA-256 state counts.
CONSTANTS
    Bytes = {0, 1}
    MaxData = 3
    MaxFed = 4
    LenWidth = 2
    AllocatingAlgs = {"SHA256"}
    MaxAllocs = 2
SPECIFICATION Spec
INVARIANT TypeOK NativeTracksInput
PROPERTY FinalizeDigestsInput ImplementsHashSpec
