----------------------------- MODULE CmacHandle -----------------------------
(***************************************************************************)
(* The CMAC wrapper of wolfcrypt/cmac.rs: the one-shot generate() and      *)
(* verify(), and a handle built by new(key), fed by update(data) and       *)
(* consumed by finalize(dout), which calls wc_CmacFinalNoFree and then     *)
(* drops self, so that Drop's wc_CmacFree runs exactly once on every path. *)
(*                                                                         *)
(* Every length handed to the native library is `len() as u32`.  Keys,     *)
(* slices and tags are sequences; a tag byte is the abstract value         *)
(* TagByte(key, data, i), so that a CMAC truncated to n bytes is the first *)
(* n bytes of the full one.  A byte of the caller's buffer that a call     *)
(* leaves alone is Old.  The native library rejects keys whose length is   *)
(* not an AES key size and tag sizes outside [TagMinSz, TagMaxSz], and any *)
(* native call may fail with a negative status for reasons of its own.     *)
(***************************************************************************)
EXTENDS Integers, Sequences

CONSTANTS
    Bytes,        \* the byte values a key or slice may hold
    KeyLens,      \* the key lengths a caller may pass
    KeySizes,     \* the AES key sizes the native library accepts (16, 24, 32)
    TagMinSz,     \* WC_CMAC_TAG_MIN_SZ
    TagMaxSz,     \* WC_CMAC_TAG_MAX_SZ, the AES block size
    MaxData,      \* the longest slice passed as CMAC input
    MaxFed,       \* bound on the bytes fed to one handle
    MaxOut,       \* the longest output buffer
    MaxCheck,     \* the longest check buffer
    LenWidth,     \* the width of the length cast (32 in the code)
    MaxObjs       \* bound on the native Cmac objects initialised

ASSUME CmacConstantsAssumption ==
    /\ Bytes # {}
    /\ KeyLens \subseteq Nat
    /\ KeySizes \subseteq Nat
    /\ TagMinSz \in Nat \ {0}
    /\ TagMaxSz \in Nat
    /\ TagMinSz <= TagMaxSz
    /\ MaxData \in Nat
    /\ MaxFed \in Nat
    /\ MaxOut \in Nat
    /\ MaxCheck \in Nat
    /\ LenWidth \in Nat \ {0}
    /\ MaxObjs \in Nat

VARIABLES
    cmac,     \* "live" while a CMAC struct exists, else "none"
    key,      \* the key the live struct was built from
    nkey,     \* the key the native library received
    msg,      \* the native state: the bytes absorbed since wc_InitCmac
    fed,      \* the caller's view: the bytes passed to successful update()s
    objs,     \* native Cmac objects successfully initialised
    frees,    \* wc_CmacFree calls made
    last      \* the last call: its inputs, status, output buffer, validity

vars == <<cmac, key, nkey, msg, fed, objs, frees, last>>

-----------------------------------------------------------------------------
Seqs(n) == UNION {[1 .. i -> Bytes] : i \in 0 .. n}
Keys == UNION {[1 .. n -> Bytes] : n \in KeyLens}
Data == Seqs(MaxData)

(* `len() as u32` and what the native call therefore reads of a slice. *)
AsU32(n) == n % (2 ^ LenWidth)
Native(s) == SubSeq(s, 1, AsU32(Len(s)))

KeyOk(k) == AsU32(Len(k)) \in KeySizes
TagSzOk(n) == n \in TagMinSz .. TagMaxSz

TagByte(k, d, i) == <<k, d, i>>
Tag(k, d, n) == [i \in 1 .. n |-> TagByte(k, d, i)]

Old == <<"old">>
Flipped == <<"flipped">>

(* A dout of n bytes after the native call wrote its first w bytes. *)
Written(n, w, k, d) == [i \in 1 .. n |-> IF i <= w THEN TagByte(k, d, i) ELSE Old]
Untouched(n) == [i \in 1 .. n |-> Old]

(* The check buffers a caller may pass to verify(): the CMAC of the key   *)
(* and data at some length, and each of them with one byte flipped.      *)
Checks(k, d) ==
    {Tag(k, d, n) : n \in 0 .. MaxCheck}
    \cup UNION {{[Tag(k, d, n) EXCEPT ![i] = Flipped] : i \in 1 .. n} :
                 n \in 1 .. MaxCheck}

Result(op, in, rc, out, valid) ==
    [op |-> op, in |-> in, rc |-> rc, out |-> out, valid |-> valid]

MinOf(a, b) == IF a <= b THEN a ELSE b

(* wc_AesCmacVerify: a negative status for a rejected key or an empty     *)
(* check, or a failure of its own; otherwise 0 when the first             *)
(* min(checkSz, TagMaxSz) bytes of check equal the CMAC, and 1 if not.    *)
NativeVerify(k, d, c) ==
    LET m == MinOf(AsU32(Len(c)), TagMaxSz)
        cmp == IF SubSeq(c, 1, m) = Tag(Native(k), Native(d), m) THEN 0 ELSE 1
    IN  IF KeyOk(k) /\ AsU32(Len(c)) # 0 THEN {cmp, -1} ELSE {-1}

-----------------------------------------------------------------------------
Init ==
    /\ cmac = "none"
    /\ key = <<>>
    /\ nkey = <<>>
    /\ msg = <<>>
    /\ fed = <<>>
    /\ objs = 0
    /\ frees = 0
    /\ last = Result("none", <<>>, "Ok", <<>>, FALSE)

handleVars == <<cmac, key, nkey, msg, fed, objs, frees>>

(* generate(key, data, dout): wc_AesCmacGenerate with the u32 lengths. *)
Generate(k, d, n) ==
    /\ \/ /\ KeyOk(k)
          /\ TagSzOk(AsU32(n))
          /\ last' = Result("generate", <<k, d>>, "Ok",
                            Written(n, AsU32(n), Native(k), Native(d)), FALSE)
       \/ last' = Result("generate", <<k, d>>, "Err", Untouched(n), FALSE)
    /\ UNCHANGED handleVars

(* Mutant: verify() whose verdict is `rc >= 0`. *)
VerifyNonNegativeValid(k, d, c) ==
    /\ \E rc \in NativeVerify(k, d, c) :
          IF rc < 0
          THEN last' = Result("verify", <<k, d, c>>, "Err", <<>>, FALSE)
          ELSE last' = Result("verify", <<k, d, c>>, "Ok", <<>>, rc >= 0)
    /\ UNCHANGED handleVars

(* verify(key, data, check): Err on a negative status, else Ok(rc == 0). *)
Verify(k, d, c) ==
    /\ \E rc \in NativeVerify(k, d, c) :
          IF rc < 0
          THEN last' = Result("verify", <<k, d, c>>, "Err", <<>>, FALSE)
          ELSE last' = Result("verify", <<k, d, c>>, "Ok", <<>>, rc = 0)
    /\ UNCHANGED handleVars

(* Mutant: new() without the early return, so a failed wc_InitCmac     *)
(* leaves an uninitialised struct (bytes no caller supplied) in it.     *)
NewAssumeInitOnError(k) ==
    /\ cmac = "none"
    /\ objs < MaxObjs
    /\ cmac' = "live"
    /\ objs' = objs + 1
    /\ msg' = <<>>
    /\ fed' = <<>>
    /\ \/ /\ KeyOk(k)
          /\ key' = k
          /\ nkey' = Native(k)
          /\ last' = Result("new", <<k>>, "Ok", <<>>, FALSE)
       \/ /\ key' = <<-1>>
          /\ nkey' = <<-1>>
          /\ last' = Result("new", <<k>>, "Ok", <<>>, FALSE)
    /\ UNCHANGED frees

(* new(key): wc_InitCmac into a MaybeUninit; on failure no Drop runs. *)
New(k) ==
    /\ cmac = "none"
    /\ objs < MaxObjs
    /\ \/ /\ KeyOk(k)
          /\ cmac' = "live"
          /\ key' = k
          /\ nkey' = Native(k)
          /\ msg' = <<>>
          /\ fed' = <<>>
          /\ objs' = objs + 1
          /\ last' = Result("new", <<k>>, "Ok", <<>>, FALSE)
          /\ UNCHANGED frees
       \/ /\ last' = Result("new", <<k>>, "Err", <<>>, FALSE)
          /\ UNCHANGED handleVars

(* Mutant: update() that ignores the native status and reports Ok. *)
UpdateIgnoringRc(d) ==
    /\ cmac = "live"
    /\ Len(fed) + Len(d) <= MaxFed
    /\ \/ msg' = msg \o Native(d)
       \/ msg' = msg
    /\ fed' = fed \o d
    /\ last' = Result("update", <<d>>, "Ok", <<>>, FALSE)
    /\ UNCHANGED <<cmac, key, nkey, objs, frees>>

(* update(data): wc_CmacUpdate with `data.len() as u32`. *)
Update(d) ==
    /\ cmac = "live"
    /\ Len(fed) + Len(d) <= MaxFed
    /\ \/ /\ msg' = msg \o Native(d)
          /\ fed' = fed \o d
          /\ last' = Result("update", <<d>>, "Ok", <<>>, FALSE)
       \/ /\ last' = Result("update", <<d>>, "Err", <<>>, FALSE)
          /\ UNCHANGED <<msg, fed>>
    /\ UNCHANGED <<cmac, key, nkey, objs, frees>>

(* Mutant: finalize() calling wc_CmacFinal, which frees, before Drop. *)
FinalizeWithFree(n) ==
    /\ cmac = "live"
    /\ \/ /\ TagSzOk(AsU32(n))
          /\ last' = Result("finalize", <<>>, "Ok",
                            Written(n, AsU32(n), nkey, msg), FALSE)
       \/ last' = Result("finalize", <<>>, "Err", Untouched(n), FALSE)
    /\ cmac' = "none"
    /\ frees' = frees + 2
    /\ UNCHANGED <<key, nkey, msg, fed, objs>>

(* finalize(self, dout): wc_CmacFinalNoFree; self is consumed, and its    *)
(* Drop (wc_CmacFree) runs when finalize returns, Ok or Err.             *)
Finalize(n) ==
    /\ cmac = "live"
    /\ \/ /\ TagSzOk(AsU32(n))
          /\ last' = Result("finalize", <<>>, "Ok",
                            Written(n, AsU32(n), nkey, msg), FALSE)
       \/ last' = Result("finalize", <<>>, "Err", Untouched(n), FALSE)
    /\ cmac' = "none"
    /\ frees' = frees + 1
    /\ UNCHANGED <<key, nkey, msg, fed, objs>>

(* Drop of a CMAC that was never finalized. *)
Drop ==
    /\ cmac = "live"
    /\ cmac' = "none"
    /\ frees' = frees + 1
    /\ last' = Result("drop", <<>>, "Ok", <<>>, FALSE)
    /\ UNCHANGED <<key, nkey, msg, fed, objs>>

Next ==
    \/ \E k \in Keys, d \in Data, n \in 0 .. MaxOut : Generate(k, d, n)
    \/ \E k \in Keys, d \in Data : \E c \in Checks(k, d) : Verify(k, d, c)
    \/ \E k \in Keys : New(k)
    \/ \E d \in Data : Update(d)
    \/ \E n \in 0 .. MaxOut : Finalize(n)
    \/ Drop

Spec == Init /\ [][Next]_vars

-----------------------------------------------------------------------------
Ops == {"none", "generate", "verify", "new", "update", "finalize", "drop"}

TypeOK ==
    /\ cmac \in {"none", "live"}
    /\ key \in Seq(Bytes)
    /\ nkey \in Seq(Bytes)
    /\ msg \in Seq(Bytes)
    /\ fed \in Seq(Bytes)
    /\ objs \in Nat
    /\ frees \in Nat
    /\ last.op \in Ops
    /\ last.rc \in {"Ok", "Err"}
    /\ last.valid \in BOOLEAN

(* A generate() or finalize() that returns Ok fills the whole dout with  *)
(* the CMAC, under the caller's key, of the caller's input: generate's    *)
(* data, or everything passed to the handle's successful update()s; so   *)
(* new + update* + finalize agrees with the one-shot generate, and the   *)
(* tag has a size the native library allows.                             *)
MacOfInput ==
    [][ last'.rc = "Ok" =>
          /\ last'.op = "generate" =>
                last'.out = Tag(last'.in[1], last'.in[2], Len(last'.out))
          /\ last'.op = "finalize" =>
                /\ last'.out = Tag(key, fed, Len(last'.out))
                /\ TagSzOk(Len(last'.out)) ]_vars

(* verify() never turns a hard error into a verdict nor a verdict into   *)
(* an error: when it returns Ok, the verdict is true exactly when the    *)
(* check is the CMAC of the key and data, at the check's length.         *)
VerifyDecides ==
    [][ last'.op = "verify" /\ last'.rc = "Ok" =>
          (last'.valid <=> last'.in[3] = Tag(last'.in[1], last'.in[2],
                                             Len(last'.in[3]))) ]_vars

(* wc_CmacFree runs exactly once for every native object initialised:    *)
(* never twice (finalize uses the NoFree variant and leaves the freeing  *)
(* to Drop) and never omitted once the handle is gone.                   *)
FreedOnce ==
    /\ frees <= objs
    /\ cmac = "none" => frees = objs
=============================================================================
