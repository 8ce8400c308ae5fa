--------------------------- MODULE CmacHandleProofs ---------------------------
(***************************************************************************)
(* Proofs about the CMAC wrapper of CmacHandle, for every value of the     *)
(* constants: type correctness and that every native Cmac object is freed  *)
(* exactly once, whatever the order of new/update/finalize/drop calls and  *)
(* of native failures; and, for lengths below the modulus of the          *)
(* `len() as u32` casts, that generate(), finalize() and verify() compute  *)
(* the CMAC of the caller's key and input.                                 *)
(***************************************************************************)
EXTENDS CmacHandle, Pow2Lemmas, SequenceTheorems, TLAPS

(* Every length the caller passes is below the cast's modulus (4 GiB in  *)
(* the code): keys, data slices, the bytes fed to one handle, output and  *)
(* check buffers.                                                         *)
NoTruncation ==
    \A n \in KeyLens \cup {MaxData, MaxFed, MaxOut, MaxCheck} : n < 2 ^ LenWidth

-----------------------------------------------------------------------------
(* Lemmas on the cast and on what the native calls read of a slice. *)

LEMMA AsU32Bound ==
    ASSUME NEW n \in Nat
    PROVE  AsU32(n) \in 0 .. n
<1>1. 2 ^ LenWidth \in Nat \ {0}
    BY Pow2Positive, CmacConstantsAssumption
<1>2. QED
    BY <1>1 DEF AsU32

LEMMA AsU32Identity ==
    ASSUME NEW n \in Nat, n < 2 ^ LenWidth
    PROVE  AsU32(n) = n
<1>1. 2 ^ LenWidth \in Nat \ {0}
    BY Pow2Positive, CmacConstantsAssumption
<1>2. QED
    BY <1>1 DEF AsU32

LEMMA SeqsAreSeqs ==
    ASSUME NEW m \in Nat, NEW s \in Seqs(m)
    PROVE  s \in Seq(Bytes) /\ Len(s) \in 0 .. m
<1>1. PICK i \in 0 .. m : s \in [1 .. i -> Bytes]
    BY DEF Seqs
<1>2. s \in Seq(Bytes)
    BY <1>1, SeqDef
<1>3. Len(s) = i
    BY <1>1, <1>2, LenProperties
<1>4. QED
    BY <1>2, <1>3

LEMMA KeysAreSeqs ==
    ASSUME NEW k \in Keys
    PROVE  k \in Seq(Bytes) /\ Len(k) \in KeyLens
<1>1. PICK n \in KeyLens : k \in [1 .. n -> Bytes]
    BY DEF Keys
<1>2. n \in Nat
    BY CmacConstantsAssumption
<1>3. k \in Seq(Bytes)
    BY <1>1, <1>2, SeqDef
<1>4. QED
    BY <1>1, <1>2, <1>3, LenProperties

LEMMA NativeType ==
    ASSUME NEW s \in Seq(Bytes)
    PROVE  Native(s) \in Seq(Bytes)
<1>1. AsU32(Len(s)) \in 0 .. Len(s)
    BY AsU32Bound, LenProperties
<1>2. QED
    BY <1>1, SubSeqProperties, ElementOfSeq DEF Native

LEMMA NativeExact ==
    ASSUME NEW S, NEW s \in Seq(S), Len(s) < 2 ^ LenWidth
    PROVE  Native(s) = s
<1>1. AsU32(Len(s)) = Len(s)
    BY AsU32Identity, LenProperties
<1>2. QED
    BY <1>1, SubSeqFull DEF Native

(* A buffer the native call filled completely holds the tag. *)
LEMMA WrittenIsTag ==
    ASSUME NEW n \in Nat, NEW k, NEW d
    PROVE  /\ Written(n, n, k, d) = Tag(k, d, n)
           /\ Len(Tag(k, d, n)) = n
<1>1. Tag(k, d, n) \in Seq({TagByte(k, d, i) : i \in 1 .. n})
    BY SeqDef DEF Tag
<1>2. QED
    BY <1>1, LenProperties DEF Written, Tag

-----------------------------------------------------------------------------
(* The inductive invariant for FreedOnce: a live struct owns exactly one  *)
(* native object that has not been freed yet.                             *)
ObjsInv ==
    /\ cmac = "none" => frees = objs
    /\ cmac = "live" => frees + 1 = objs

CInv ==
    /\ TypeOK
    /\ ObjsInv

(* The inductive invariant for MacOfInput: the live struct's native key   *)
(* and state are the caller's key and input.                              *)
NativeMatches ==
    cmac = "live" => nkey = key /\ msg = fed

MInv ==
    /\ CInv
    /\ NativeMatches
LEMMA InitCInv ==
    Init => CInv
BY DEF Init, CInv, TypeOK, ObjsInv, Result, Ops

LEMMA StepCInv ==
    CInv /\ [Next]_vars => CInv'
<1> SUFFICES ASSUME CInv, [Next]_vars PROVE CInv'
    OBVIOUS
<1> USE DEF CInv, TypeOK, ObjsInv
<1>1. ASSUME NEW k \in Keys, NEW d \in Data, NEW n \in 0 .. MaxOut,
             Generate(k, d, n)
      PROVE  CInv'
    <2>1. last'.op = "generate" /\ last'.rc \in {"Ok", "Err"} /\ last'.valid = FALSE
        BY <1>1 DEF Generate, Result
    <2>2. UNCHANGED handleVars
        BY <1>1 DEF Generate
    <2>3. QED
        BY <2>1, <2>2 DEF handleVars, Ops
<1>2. ASSUME NEW k \in Keys, NEW d \in Data, NEW c \in Checks(k, d),
             Verify(k, d, c)
      PROVE  CInv'
    <2>1. PICK st \in NativeVerify(k, d, c) :
                 IF st < 0
                 THEN last' = Result("verify", <<k, d, c>>, "Err", <<>>, FALSE)
                 ELSE last' = Result("verify", <<k, d, c>>, "Ok", <<>>, st = 0)
        BY <1>2 DEF Verify
    <2>4. last'.op = "verify" /\ last'.rc \in {"Ok", "Err"} /\ last'.valid \in BOOLEAN
        <3>1. CASE st < 0
            <4>1. last' = Result("verify", <<k, d, c>>, "Err", <<>>, FALSE)
                BY <2>1, <3>1
            <4>2. QED
                BY <4>1 DEF Result
        <3>2. CASE ~(st < 0)
            <4>1. last' = Result("verify", <<k, d, c>>, "Ok", <<>>, st = 0)
                BY <2>1, <3>2
            <4>2. QED
                BY <4>1 DEF Result
        <3>3. QED
            BY <3>1, <3>2
    <2>2. UNCHANGED handleVars
        BY <1>2 DEF Verify
    <2>3. QED
        BY <2>4, <2>2 DEF handleVars, Ops
<1>3. ASSUME NEW k \in Keys, New(k)
      PROVE  CInv'
    <2>1. k \in Seq(Bytes) /\ Native(k) \in Seq(Bytes)
        BY KeysAreSeqs, NativeType
    <2>2. CASE /\ cmac' = "live" /\ key' = k /\ nkey' = Native(k)
               /\ msg' = <<>> /\ fed' = <<>> /\ objs' = objs + 1
               /\ last' = Result("new", <<k>>, "Ok", <<>>, FALSE)
               /\ UNCHANGED frees
        <3>1. last'.op = "new" /\ last'.rc = "Ok" /\ last'.valid = FALSE
            BY <2>2 DEF Result
        <3>2. cmac = "none"
            BY <1>3 DEF New
        <3>3. <<>> \in Seq(Bytes)
            BY EmptySeq
        <3>7. cmac' \in {"none", "live"} /\ objs' \in Nat /\ frees' \in Nat
            BY <2>2
        <3>8. key' \in Seq(Bytes) /\ nkey' \in Seq(Bytes)
            BY <2>1, <2>2
        <3>9. msg' \in Seq(Bytes) /\ fed' \in Seq(Bytes)
            BY <2>2, <3>3
        <3>10. last'.op \in Ops /\ last'.rc \in {"Ok", "Err"} /\ last'.valid \in BOOLEAN
            BY <3>1 DEF Ops
        <3>4. TypeOK'
            BY <3>7, <3>8, <3>9, <3>10
        <3>5. ObjsInv'
            BY <2>2, <3>2
        <3>6. QED
            BY <3>4, <3>5
    <2>3. CASE /\ last' = Result("new", <<k>>, "Err", <<>>, FALSE)
               /\ UNCHANGED handleVars
        <3>1. last'.op = "new" /\ last'.rc = "Err" /\ last'.valid = FALSE
            BY <2>3 DEF Result
        <3>2. QED
            BY <2>3, <3>1 DEF handleVars, Ops
    <2>4. QED
        BY <1>3, <2>2, <2>3 DEF New
<1>4. ASSUME NEW d \in Data, Update(d)
      PROVE  CInv'
    <2>1. d \in Seq(Bytes)
        BY SeqsAreSeqs, CmacConstantsAssumption DEF Data
    <2>2. msg \o Native(d) \in Seq(Bytes) /\ fed \o d \in Seq(Bytes)
        BY <2>1, NativeType, ConcatProperties
    <2>3. UNCHANGED <<cmac, key, nkey, objs, frees>>
        BY <1>4 DEF Update
    <2>4. CASE /\ msg' = msg \o Native(d) /\ fed' = fed \o d
               /\ last' = Result("update", <<d>>, "Ok", <<>>, FALSE)
        <3>1. last'.op = "update" /\ last'.rc = "Ok" /\ last'.valid = FALSE
            BY <2>4 DEF Result
        <3>2. QED
            BY <2>2, <2>3, <2>4, <3>1 DEF Ops
    <2>5. CASE /\ last' = Result("update", <<d>>, "Err", <<>>, FALSE)
               /\ UNCHANGED <<msg, fed>>
        <3>1. last'.op = "update" /\ last'.rc = "Err" /\ last'.valid = FALSE
            BY <2>5 DEF Result
        <3>2. QED
            BY <2>3, <2>5, <3>1 DEF Ops
    <2>6. QED
        BY <1>4, <2>4, <2>5 DEF Update
<1>5. ASSUME NEW n \in 0 .. MaxOut, Finalize(n)
      PROVE  CInv'
    <2>1. last'.op = "finalize" /\ last'.rc \in {"Ok", "Err"} /\ last'.valid = FALSE
        <3>1. CASE last' = Result("finalize", <<>>, "Ok",
                                  Written(n, AsU32(n), nkey, msg), FALSE)
            BY <3>1 DEF Result
        <3>2. CASE last' = Result("finalize", <<>>, "Err", Untouched(n), FALSE)
            BY <3>2 DEF Result
        <3>3. QED
            BY <1>5, <3>1, <3>2 DEF Finalize
    <2>2. cmac = "live" /\ cmac' = "none" /\ frees' = frees + 1
          /\ UNCHANGED <<key, nkey, msg, fed, objs>>
        BY <1>5 DEF Finalize
    <2>3. QED
        BY <2>1, <2>2 DEF Ops
<1>6. CASE Drop
    BY <1>6 DEF Drop, Result, Ops
<1>7. CASE UNCHANGED vars
    BY <1>7 DEF vars
<1>8. QED
    BY <1>1, <1>2, <1>3, <1>4, <1>5, <1>6, <1>7 DEF Next

(* Type correctness of the CMAC wrapper for every value of the constants. *)
THEOREM CmacTypeCorrect == Spec => []TypeOK
<1>1. Spec => []CInv
    BY InitCInv, StepCInv, PTL DEF Spec
<1>2. QED
    BY <1>1, PTL DEF CInv

(* wc_CmacFree runs exactly once for every native Cmac object that        *)
(* wc_InitCmac initialised: finalize(), which consumes the struct and     *)
(* calls only wc_CmacFinalNoFree, and Drop together free it once, a       *)
(* failed new() leaves nothing to free, and no sequence of calls, however *)
(* their native calls fail, frees twice or leaks.                         *)
THEOREM FreedOnceInvariant == Spec => []FreedOnce
<1>1. CInv => FreedOnce
    BY DEF CInv, ObjsInv, FreedOnce, TypeOK
<1>2. QED
    BY <1>1, InitCInv, StepCInv, PTL DEF Spec
-----------------------------------------------------------------------------
(* MacOfInput: what a successful generate() or finalize() writes. *)

(* The hypothesis, one length at a time. *)
LEMMA NoTruncationBounds ==
    ASSUME NoTruncation
    PROVE  /\ 2 ^ LenWidth \in Nat \ {0}
           /\ \A n \in KeyLens : n < 2 ^ LenWidth
           /\ MaxData < 2 ^ LenWidth
           /\ MaxFed < 2 ^ LenWidth
           /\ MaxOut < 2 ^ LenWidth
           /\ MaxCheck < 2 ^ LenWidth
<1>1. 2 ^ LenWidth \in Nat \ {0}
    BY Pow2Positive, CmacConstantsAssumption
<1>2. QED
    BY <1>1, Zenon DEF NoTruncation

LEMMA DataExact ==
    ASSUME NoTruncation, NEW d \in Data
    PROVE  Native(d) = d
<1>1. d \in Seq(Bytes) /\ Len(d) \in 0 .. MaxData
    BY SeqsAreSeqs, CmacConstantsAssumption DEF Data
<1>2. Len(d) < 2 ^ LenWidth
    BY <1>1, NoTruncationBounds, CmacConstantsAssumption
<1>3. QED
    BY <1>1, <1>2, NativeExact

LEMMA KeyExact ==
    ASSUME NoTruncation, NEW k \in Keys
    PROVE  Native(k) = k
<1>1. k \in Seq(Bytes) /\ Len(k) \in KeyLens
    BY KeysAreSeqs
<1>2. Len(k) < 2 ^ LenWidth
    BY <1>1, NoTruncationBounds
<1>3. QED
    BY <1>1, <1>2, NativeExact

LEMMA InitMInv ==
    Init => MInv
BY InitCInv DEF Init, MInv, NativeMatches

LEMMA StepMInv ==
    ASSUME NoTruncation
    PROVE  MInv /\ [Next]_vars => MInv'
<1> SUFFICES ASSUME MInv, [Next]_vars PROVE MInv'
    OBVIOUS
<1>0. CInv'
    BY StepCInv DEF MInv
<1> USE DEF MInv, NativeMatches
<1>1. ASSUME NEW k \in Keys, NEW d \in Data, NEW n \in 0 .. MaxOut,
             Generate(k, d, n)
      PROVE  MInv'
    BY <1>0, <1>1 DEF Generate, handleVars
<1>2. ASSUME NEW k \in Keys, NEW d \in Data, NEW c \in Checks(k, d),
             Verify(k, d, c)
      PROVE  MInv'
    BY <1>0, <1>2 DEF Verify, handleVars
<1>3. ASSUME NEW k \in Keys, New(k)
      PROVE  MInv'
    <2>1. Native(k) = k
        BY KeyExact
    <2>2. QED
        BY <1>0, <1>3, <2>1 DEF New, handleVars
<1>4. ASSUME NEW d \in Data, Update(d)
      PROVE  MInv'
    <2>1. Native(d) = d
        BY DataExact
    <2>2. QED
        BY <1>0, <1>4, <2>1 DEF Update
<1>5. ASSUME NEW n \in 0 .. MaxOut, Finalize(n)
      PROVE  MInv'
    BY <1>0, <1>5 DEF Finalize
<1>6. CASE Drop
    BY <1>0, <1>6 DEF Drop
<1>7. CASE UNCHANGED vars
    BY <1>0, <1>7 DEF vars
<1>8. QED
    BY <1>1, <1>2, <1>3, <1>4, <1>5, <1>6, <1>7 DEF Next

(* A buffer length below the modulus reaches the native call unchanged. *)
LEMMA OutExact ==
    ASSUME NoTruncation, NEW n \in 0 .. MaxOut
    PROVE  AsU32(n) = n
BY AsU32Identity, NoTruncationBounds, CmacConstantsAssumption

(* While every length is below the modulus of the u32 casts, a           *)
(* generate() that returns Ok fills dout with the CMAC of its key and     *)
(* data, and a finalize() that returns Ok fills dout, at a tag size the   *)
(* native library allows, with the CMAC of the handle's key and of all    *)
(* the slices of its successful update()s: the incremental and the       *)
(* one-shot computations agree.                                           *)
THEOREM MacOfInputHolds ==
    ASSUME NoTruncation
    PROVE  Spec => MacOfInput
<1> DEFINE A == last'.rc = "Ok" =>
                  /\ last'.op = "generate" =>
                        last'.out = Tag(last'.in[1], last'.in[2], Len(last'.out))
                  /\ last'.op = "finalize" =>
                        /\ last'.out = Tag(key, fed, Len(last'.out))
                        /\ TagSzOk(Len(last'.out))
<1>1. MInv /\ Next => A
    <2> SUFFICES ASSUME MInv, Next PROVE A
        OBVIOUS
    <2>1. ASSUME NEW k \in Keys, NEW d \in Data, NEW n \in 0 .. MaxOut,
                 Generate(k, d, n)
          PROVE  A
        <3>1. Native(k) = k /\ Native(d) = d
            BY KeyExact, DataExact
        <3>2. n \in Nat /\ AsU32(n) = n
            BY OutExact, CmacConstantsAssumption
        <3>3. Written(n, n, k, d) = Tag(k, d, n) /\ Len(Tag(k, d, n)) = n
            BY <3>2, WrittenIsTag
        <3>4. CASE last' = Result("generate", <<k, d>>, "Ok",
                                  Written(n, AsU32(n), Native(k), Native(d)), FALSE)
            <4>1. last'.out = Tag(k, d, n) /\ last'.in = <<k, d>> /\ last'.op = "generate"
                BY <3>1, <3>2, <3>3, <3>4 DEF Result
            <4>2. QED
                BY <4>1, <3>3
        <3>5. CASE last' = Result("generate", <<k, d>>, "Err", Untouched(n), FALSE)
            BY <3>5 DEF Result
        <3>6. QED
            BY <2>1, <3>4, <3>5 DEF Generate
    <2>2. ASSUME NEW k \in Keys, NEW d \in Data, NEW c \in Checks(k, d),
                 Verify(k, d, c)
          PROVE  A
        <3>1. PICK st \in NativeVerify(k, d, c) :
                 IF st < 0
                 THEN last' = Result("verify", <<k, d, c>>, "Err", <<>>, FALSE)
                 ELSE last' = Result("verify", <<k, d, c>>, "Ok", <<>>, st = 0)
            BY <2>2 DEF Verify
        <3>2. last'.op = "verify"
            <4>1. CASE st < 0
                <5>1. last' = Result("verify", <<k, d, c>>, "Err", <<>>, FALSE)
                    BY <3>1, <4>1
                <5>2. QED
                    BY <5>1 DEF Result
            <4>2. CASE ~(st < 0)
                <5>1. last' = Result("verify", <<k, d, c>>, "Ok", <<>>, st = 0)
                    BY <3>1, <4>2
                <5>2. QED
                    BY <5>1 DEF Result
            <4>3. QED
                BY <4>1, <4>2
        <3>3. QED
            BY <3>2
    <2>3. ASSUME NEW k \in Keys, New(k)
          PROVE  A
        <3>1. last'.op = "new"
            BY <2>3 DEF New, Result
        <3>2. QED
            BY <3>1
    <2>4. ASSUME NEW d \in Data, Update(d)
          PROVE  A
        <3>1. last'.op = "update"
            BY <2>4 DEF Update, Result
        <3>2. QED
            BY <3>1
    <2>5. ASSUME NEW n \in 0 .. MaxOut, Finalize(n)
          PROVE  A
        <3>1. n \in Nat /\ AsU32(n) = n
            BY OutExact, CmacConstantsAssumption
        <3>2. cmac = "live"
            BY <2>5 DEF Finalize
        <3>3. nkey = key /\ msg = fed
            BY <3>2 DEF MInv, NativeMatches
        <3>4. Written(n, n, key, fed) = Tag(key, fed, n) /\ Len(Tag(key, fed, n)) = n
            BY <3>1, WrittenIsTag
        <3>5. CASE /\ TagSzOk(AsU32(n))
                   /\ last' = Result("finalize", <<>>, "Ok",
                                     Written(n, AsU32(n), nkey, msg), FALSE)
            <4>1. last'.out = Tag(key, fed, n) /\ last'.op = "finalize"
                BY <3>1, <3>3, <3>4, <3>5 DEF Result
            <4>2. QED
                BY <4>1, <3>1, <3>4, <3>5
        <3>6. CASE last' = Result("finalize", <<>>, "Err", Untouched(n), FALSE)
            BY <3>6 DEF Result
        <3>7. QED
            BY <2>5, <3>5, <3>6 DEF Finalize
    <2>6. CASE Drop
        BY <2>6 DEF Drop, Result
    <2>7. QED
        BY <2>1, <2>2, <2>3, <2>4, <2>5, <2>6 DEF Next
<1>2. MInv /\ [Next]_vars => [A]_vars
    BY <1>1 DEF vars
<1>3. MInv /\ [Next]_vars => MInv'
    BY StepMInv
<1>4. QED
    BY InitMInv, <1>2, <1>3, PTL DEF Spec, MacOfInput
-----------------------------------------------------------------------------
(* VerifyDecides: the verdict of verify(). *)

(* The values a byte of a check buffer may hold. *)
CheckVals(k, d) == {TagByte(k, d, i) : i \in Nat} \cup {Flipped}

LEMMA ChecksAreSeqs ==
    ASSUME NEW k, NEW d, NEW c \in Checks(k, d)
    PROVE  c \in Seq(CheckVals(k, d)) /\ Len(c) \in 0 .. MaxCheck
<1>1. CASE \E n \in 0 .. MaxCheck : c = Tag(k, d, n)
    <2>1. PICK n \in 0 .. MaxCheck : c = Tag(k, d, n)
        BY <1>1
    <2>2. c \in [1 .. n -> CheckVals(k, d)]
        BY <2>1, CmacConstantsAssumption DEF Tag, CheckVals
    <2>3. QED
        BY <2>1, <2>2, CmacConstantsAssumption, SeqDef, LenProperties
<1>2. CASE \E n \in 1 .. MaxCheck : \E i \in 1 .. n :
               c = [Tag(k, d, n) EXCEPT ![i] = Flipped]
    <2>0. PICK n \in 1 .. MaxCheck : \E i \in 1 .. n :
               c = [Tag(k, d, n) EXCEPT ![i] = Flipped]
        BY <1>2
    <2>1. PICK i \in 1 .. n : c = [Tag(k, d, n) EXCEPT ![i] = Flipped]
        BY <2>0
    <2>2. c \in [1 .. n -> CheckVals(k, d)]
        BY <2>1, CmacConstantsAssumption DEF Tag, CheckVals
    <2>3. n \in Nat /\ c \in Seq(CheckVals(k, d))
        BY <2>2, CmacConstantsAssumption, SeqDef
    <2>4. Len(c) = n
        BY <2>2, <2>3, LenProperties
    <2>5. QED
        BY <2>3, <2>4, CmacConstantsAssumption
<1>3. \/ \E n \in 0 .. MaxCheck : c = Tag(k, d, n)
      \/ \E n \in 1 .. MaxCheck : \E i \in 1 .. n :
               c = [Tag(k, d, n) EXCEPT ![i] = Flipped]
    BY Zenon DEF Checks
<1>4. QED
    BY <1>1, <1>2, <1>3

(* The native comparison of a check no longer than the MAC size, with    *)
(* lengths below the modulus, compares the whole check with the CMAC.    *)
LEMMA NativeVerifyDecides ==
    ASSUME NoTruncation, MaxCheck <= TagMaxSz,
           NEW k \in Keys, NEW d \in Data, NEW c \in Checks(k, d),
           NEW st \in NativeVerify(k, d, c), ~(st < 0)
    PROVE  st = 0 <=> c = Tag(k, d, Len(c))
<1>1. c \in Seq(CheckVals(k, d)) /\ Len(c) \in 0 .. MaxCheck
    BY ChecksAreSeqs
<1>2. AsU32(Len(c)) = Len(c)
    BY <1>1, AsU32Identity, NoTruncationBounds, CmacConstantsAssumption
<1>3. MinOf(AsU32(Len(c)), TagMaxSz) = Len(c)
    BY <1>1, <1>2, CmacConstantsAssumption DEF MinOf
<1>4. SubSeq(c, 1, Len(c)) = c
    BY <1>1, SubSeqFull
<1>5. Native(k) = k /\ Native(d) = d
    BY KeyExact, DataExact
<1>6. st = IF c = Tag(k, d, Len(c)) THEN 0 ELSE 1
    BY <1>3, <1>4, <1>5 DEF NativeVerify
<1>7. QED
    BY <1>6

(* verify() never turns a native error into a verdict nor a verdict into *)
(* an error: for keys, data and checks no longer than the MAC size, all  *)
(* below the modulus of the u32 casts, an Ok(valid) from verify() has    *)
(* valid true exactly when the check is the CMAC of the key and data.     *)
THEOREM VerifyDecidesHolds ==
    ASSUME NoTruncation, MaxCheck <= TagMaxSz
    PROVE  Spec => VerifyDecides
<1> DEFINE A == last'.op = "verify" /\ last'.rc = "Ok" =>
                  (last'.valid <=> last'.in[3] = Tag(last'.in[1], last'.in[2],
                                                     Len(last'.in[3])))
<1>1. Next => A
    <2> SUFFICES ASSUME Next PROVE A
        OBVIOUS
    <2>1. ASSUME NEW k \in Keys, NEW d \in Data, NEW n \in 0 .. MaxOut,
                 Generate(k, d, n)
          PROVE  A
        <3>1. last'.op = "generate"
            BY <2>1 DEF Generate, Result
        <3>2. QED
            BY <3>1
    <2>2. ASSUME NEW k \in Keys, NEW d \in Data, NEW c \in Checks(k, d),
                 Verify(k, d, c)
          PROVE  A
        <3>1. PICK st \in NativeVerify(k, d, c) :
                 IF st < 0
                 THEN last' = Result("verify", <<k, d, c>>, "Err", <<>>, FALSE)
                 ELSE last' = Result("verify", <<k, d, c>>, "Ok", <<>>, st = 0)
            BY <2>2 DEF Verify
        <3>2. CASE st < 0
            <4>1. last' = Result("verify", <<k, d, c>>, "Err", <<>>, FALSE)
                BY <3>1, <3>2
            <4>2. QED
                BY <4>1 DEF Result
        <3>3. CASE ~(st < 0)
            <4>1. last' = Result("verify", <<k, d, c>>, "Ok", <<>>, st = 0)
                BY <3>1, <3>3
            <4>2. st = 0 <=> c = Tag(k, d, Len(c))
                BY <3>3, NativeVerifyDecides
            <4>3. /\ last'.valid = (st = 0)
                  /\ last'.in[1] = k /\ last'.in[2] = d /\ last'.in[3] = c
                BY <4>1 DEF Result
            <4>4. QED
                BY <4>2, <4>3, Zenon
        <3>4. QED
            BY <3>2, <3>3
    <2>3. ASSUME NEW k \in Keys, New(k)
          PROVE  A
        <3>1. last'.op = "new"
            BY <2>3 DEF New, Result
        <3>2. QED
            BY <3>1
    <2>4. ASSUME NEW d \in Data, Update(d)
          PROVE  A
        <3>1. last'.op = "update"
            BY <2>4 DEF Update, Result
        <3>2. QED
            BY <3>1
    <2>5. ASSUME NEW n \in 0 .. MaxOut, Finalize(n)
          PROVE  A
        <3>1. last'.op = "finalize"
            BY <2>5 DEF Finalize, Result
        <3>2. QED
            BY <3>1
    <2>6. CASE Drop
        BY <2>6 DEF Drop, Result
    <2>7. QED
        BY <2>1, <2>2, <2>3, <2>4, <2>5, <2>6 DEF Next
<1>2. [Next]_vars => [A]_vars
    BY <1>1 DEF vars
<1>3. QED
    BY <1>2, PTL DEF Spec, VerifyDecides
===============================================================================
