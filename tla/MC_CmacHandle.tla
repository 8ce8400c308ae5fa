--------------------------- MODULE MC_CmacHandle ---------------------------
(* CMAC with sizes scaled down: AES keys of 2 bytes, tags of 1 to 2 bytes  *)
(* (TagMinSz = 1, TagMaxSz = 2 in the cfg, so truncated tags are made and *)
(* verified), slices below the 2-bit cast's modulus.                      *)
EXTENDS CmacHandle
=============================================================================
