\* A build whose SHA256 Init allocates (WOLFSSL_SMALL_STACK_CACHE).
CONSTANTS
    Bytes = {0}
    MaxData = 1
    MaxFed = 1
    LenWidth = 2
    AllocatingAlgs = {"SHA256"}
    MaxAllocs = 2
SPECIFICATION Spec
INVARIANT NoLeak
