--------------------------- MODULE MC_ShakeHandle --------------------------
(* SHAKE with blocks scaled down to 1 and 2 bytes, slices of up to 2 bytes. *)
EXTENDS ShakeHandle
=============================================================================
