--------------------------- MODULE MC_HashHandle ---------------------------
(* The hash handles on slices of up to 3 bytes over two byte values, with *)
(* the length cast narrowed to 2 bits so that 4 bytes is its modulus.     *)
EXTENDS HashHandle
=============================================================================
