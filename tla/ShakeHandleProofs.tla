--------------------------- MODULE ShakeHandleProofs ---------------------------
(***************************************************************************)
(* Proofs about the SHAKE handles of ShakeHandle, for every value of the   *)
(* constants: type correctness, and, for lengths below the modulus of the *)
(* `len() as u32` casts, that a caller who keeps to the spec's sequence    *)
(* Initialized -> Absorbed -> [SqueezeBlocks]* receives the XOF of what it *)
(* fed, block after block.                                                 *)
(***************************************************************************)
EXTENDS ShakeHandle, Pow2Lemmas, SequenceTheorems, TLAPS

(* Every slice and buffer the caller passes is below the cast's modulus  *)
(* (4 GiB in the code).                                                   *)
NoTruncation ==
    /\ MaxData < 2 ^ LenWidth
    /\ MaxOut < 2 ^ LenWidth

(* The inductive invariant for ProtocolOutputIsXof: the ghost protocol    *)
(* state tells the native sponge's phase.  Before the absorb the sponge   *)
(* is still absorbing exactly the bytes fed; after it, it is padded over  *)
(* them and has handed out exactly the blocks the caller took.            *)
SpongeFollowsProtocol ==
    /\ proto = "Initialized" => nphase = "absorbing" /\ nmsg = fed /\ taken = 0
    /\ proto = "Absorbed" =>
          /\ shake \in Variants
          /\ nphase = "squeezing"
          /\ nmsg = fed
          /\ taken = npos * BlockSize[shake]

XInv ==
    /\ TypeOK
    /\ SpongeFollowsProtocol
-----------------------------------------------------------------------------
(* Lemmas on the cast, the slices and the block sizes. *)

LEMMA AsU32Bound ==
    ASSUME NEW n \in Nat
    PROVE  AsU32(n) \in 0 .. n
<1>1. 2 ^ LenWidth \in Nat \ {0}
    BY Pow2Positive, ShakeConstantsAssumption
<1>2. QED
    BY <1>1 DEF AsU32

LEMMA AsU32Identity ==
    ASSUME NEW n \in Nat, n < 2 ^ LenWidth
    PROVE  AsU32(n) = n
<1>1. 2 ^ LenWidth \in Nat \ {0}
    BY Pow2Positive, ShakeConstantsAssumption
<1>2. QED
    BY <1>1 DEF AsU32

LEMMA DataIsSeq ==
    ASSUME NEW d \in Data
    PROVE  d \in Seq(Bytes) /\ Len(d) \in 0 .. MaxData
<1>1. PICK n \in 0 .. MaxData : d \in [1 .. n -> Bytes]
    BY DEF Data
<1>2. d \in Seq(Bytes)
    BY <1>1, ShakeConstantsAssumption, SeqDef
<1>3. QED
    BY <1>1, <1>2, LenProperties

LEMMA NativeType ==
    ASSUME NEW s \in Seq(Bytes)
    PROVE  Native(s) \in Seq(Bytes)
<1>1. AsU32(Len(s)) \in 0 .. Len(s)
    BY AsU32Bound, LenProperties
<1>2. QED
    BY <1>1, SubSeqProperties, ElementOfSeq DEF Native

LEMMA NativeExact ==
    ASSUME NoTruncation, NEW d \in Data
    PROVE  Native(d) = d
<1>1. d \in Seq(Bytes) /\ Len(d) \in 0 .. MaxData
    BY DataIsSeq
<1>2. 2 ^ LenWidth \in Nat \ {0}
    BY Pow2Positive, ShakeConstantsAssumption
<1>3. AsU32(Len(d)) = Len(d)
    BY <1>1, <1>2, AsU32Identity, ShakeConstantsAssumption DEF NoTruncation
<1>4. QED
    BY <1>1, <1>3, SubSeqFull DEF Native

LEMMA BlockSizePositive ==
    ASSUME NEW a \in Variants
    PROVE  BlockSize[a] \in Nat \ {0}
BY ShakeConstantsAssumption DEF Variants, BlockSize

(* Every step of Next is a step of one variant's handle. *)
LEMMA NextIsSomeHandle ==
    Next => \E a \in Variants : HandleOf(a)
BY DEF Next, SHAKE128Handle, SHAKE256Handle, Variants, BlockSize

-----------------------------------------------------------------------------
(* Type correctness. *)

Phases == {"absorbing", "squeezing", "garbled"}
Protos == {"Initialized", "Absorbed", "Misused"}
OpNames == {"none", "new", "init", "update", "absorb", "squeeze", "finalize", "drop"}
Rcs == {"Ok", "Err", "BUFFER_E"}

(* The fields of the record every call stores in last. *)
LEMMA ResultFields ==
    ASSUME NEW op, NEW rc, NEW out
    PROVE  Result(op, rc, out).op = op /\ Result(op, rc, out).rc = rc
BY DEF Result

LEMMA InitTypeOK ==
    Init => TypeOK
BY ResultFields, EmptySeq DEF Init, TypeOK

LEMMA StepTypeOK ==
    TypeOK /\ [Next]_vars => TypeOK'
<1> SUFFICES ASSUME TypeOK, [Next]_vars PROVE TypeOK'
    OBVIOUS
<1> USE DEF TypeOK
<1>0. <<>> \in Seq(Bytes)
    BY EmptySeq
<1>1. CASE UNCHANGED vars
    BY <1>1 DEF vars
<1>2. CASE Next
    <2>1. PICK a \in Variants : HandleOf(a)
        BY <1>2, NextIsSomeHandle
    <2>2. CASE New(a)
        <3>1. CASE /\ shake' = a /\ NativeReset /\ GhostReset
                   /\ last' = Result("new", "Ok", <<>>)
            BY <1>0, <3>1, ResultFields DEF NativeReset, GhostReset
        <3>2. CASE /\ last' = Result("new", "Err", <<>>)
                   /\ UNCHANGED <<shake, nmsg, nphase, npos, fed, taken, proto>>
            BY <3>2, ResultFields
        <3>3. QED
            BY <2>2, <3>1, <3>2 DEF New
    <2>3. CASE shake = a /\ Reinit
        <3>1. CASE /\ NativeReset /\ GhostReset
                   /\ last' = Result("init", "Ok", <<>>)
            BY <1>0, <2>3, <3>1, ResultFields DEF NativeReset, GhostReset, Reinit
        <3>2. CASE /\ last' = Result("init", "Err", <<>>)
                   /\ UNCHANGED <<nmsg, nphase, npos, fed, taken, proto>>
            BY <2>3, <3>2, ResultFields DEF Reinit
        <3>3. QED
            BY <2>3, <3>1, <3>2 DEF Reinit
    <2>4. ASSUME NEW d \in Data, shake = a, Update(d) \/ Absorb(d)
          PROVE  TypeOK'
        <3>1. d \in Seq(Bytes)
            BY DataIsSeq
        <3>2. nmsg \o Native(d) \in Seq(Bytes) /\ fed \o d \in Seq(Bytes)
            BY <3>1, NativeType, ConcatProperties
        <3>3. CASE Update(d)
            <4>1. CASE /\ IF nphase = "absorbing"
                          THEN nmsg' = nmsg \o Native(d) /\ UNCHANGED nphase
                          ELSE nphase' = "garbled" /\ UNCHANGED nmsg
                       /\ fed' = fed \o d
                       /\ proto' = IF proto = "Initialized" THEN "Initialized" ELSE "Misused"
                       /\ last' = Result("update", "Ok", <<>>)
                       /\ UNCHANGED <<npos, taken>>
                <5>1. nmsg' \in Seq(Bytes) /\ nphase' \in Phases
                    BY <3>2, <4>1 DEF Phases
                <5>2. QED
                    BY <3>2, <3>3, <4>1, <5>1, ResultFields DEF Update, Phases
            <4>2. CASE /\ last' = Result("update", "Err", <<>>)
                       /\ UNCHANGED <<nmsg, nphase, npos, fed, taken, proto>>
                BY <3>3, <4>2, ResultFields DEF Update
            <4>3. QED
                BY <3>3, <4>1, <4>2 DEF Update
        <3>4. CASE Absorb(d)
            <4>1. CASE /\ IF nphase = "absorbing"
                          THEN nmsg' = nmsg \o Native(d) /\ nphase' = "squeezing"
                          ELSE nphase' = "garbled" /\ UNCHANGED nmsg
                       /\ npos' = 0
                       /\ fed' = fed \o d
                       /\ proto' = IF proto = "Initialized" THEN "Absorbed" ELSE "Misused"
                       /\ last' = Result("absorb", "Ok", <<>>)
                       /\ UNCHANGED taken
                <5>1. nmsg' \in Seq(Bytes) /\ nphase' \in Phases
                    BY <3>2, <4>1 DEF Phases
                <5>2. QED
                    BY <3>2, <3>4, <4>1, <5>1, ResultFields DEF Absorb, Phases
            <4>2. CASE /\ last' = Result("absorb", "Err", <<>>)
                       /\ UNCHANGED <<nmsg, nphase, npos, fed, taken, proto>>
                BY <3>4, <4>2, ResultFields DEF Absorb
            <4>3. QED
                BY <3>4, <4>1, <4>2 DEF Absorb
        <3>5. QED
            BY <2>4, <3>3, <3>4
    <2>5. ASSUME NEW n \in 0 .. MaxOut, shake = a, SqueezeBlocks(n)
          PROVE  TypeOK'
        <3> DEFINE b == BlockSize[shake]
                   w == AsU32(n)
        <3>1. b \in Nat \ {0} /\ w \in Nat
            BY <2>5, BlockSizePositive, AsU32Bound, ShakeConstantsAssumption
        <3>2. w \div b \in Nat
            BY <3>1
        <3>3. CASE last' = Result("squeeze", "BUFFER_E", [i \in 1 .. n |-> Old])
            BY <2>5, <3>3, ResultFields DEF SqueezeBlocks
        <3>4. CASE last' = Result("squeeze", "Ok", Filled(n, w, npos * b))
            BY <2>5, <3>2, <3>4, ResultFields DEF SqueezeBlocks
        <3>5. CASE last' = Result("squeeze", "Err", [i \in 1 .. n |-> Old])
            BY <2>5, <3>5, ResultFields DEF SqueezeBlocks
        <3>6. QED
            BY <2>5, <3>3, <3>4, <3>5 DEF SqueezeBlocks
    <2>6. ASSUME NEW n \in 0 .. MaxOut, shake = a, Finalize(n)
          PROVE  TypeOK'
        <3>1. CASE last'.op = "finalize" /\ last'.rc = "Ok"
                   /\ NativeReset /\ fed' = <<>> /\ taken' = 0
                   /\ proto' = "Initialized"
            BY <1>0, <2>6, <3>1 DEF Finalize, NativeReset
        <3>2. CASE last' = Result("finalize", "Err", [i \in 1 .. n |-> Old])
                   /\ UNCHANGED <<nmsg, nphase, npos, fed, taken, proto>>
            BY <2>6, <3>2, ResultFields DEF Finalize
        <3>3. QED
            BY <2>6, <3>1, <3>2, ResultFields DEF Finalize
    <2>7. CASE shake = a /\ Drop
        BY <1>0, <2>7, ResultFields DEF Drop, NativeReset, GhostReset
    <2>8. QED
        BY <2>1, <2>2, <2>3, <2>4, <2>5, <2>6, <2>7 DEF HandleOf
<1>3. QED
    BY <1>1, <1>2

(* Type correctness of the SHAKE handles for every value of the         *)
(* constants: whatever sequence of calls and native failures, the sponge *)
(* position and the bytes squeezed stay natural numbers, the phase one    *)
(* of the three, and every result an operation and a status of the code. *)
THEOREM ShakeTypeCorrect == Spec => []TypeOK
BY InitTypeOK, StepTypeOK, PTL DEF Spec
-----------------------------------------------------------------------------
(* The sponge follows the protocol. *)

LEMMA InitXInv ==
    Init => XInv
BY InitTypeOK DEF Init, XInv, SpongeFollowsProtocol

(* An Ok squeeze of a whole number of blocks advances the sponge's block *)
(* position by exactly the bytes taken.                                   *)
LEMMA SqueezeAdvance ==
    ASSUME NEW b \in Nat \ {0}, NEW n \in Nat, NEW p \in Nat, n % b = 0
    PROVE  p * b + n = (p + n \div b) * b
BY SMT

LEMMA StepXInv ==
    ASSUME NoTruncation
    PROVE  XInv /\ [Next]_vars => XInv'
<1> SUFFICES ASSUME XInv, [Next]_vars PROVE XInv'
    OBVIOUS
<1>0. TypeOK'
    BY StepTypeOK DEF XInv
<1> USE DEF XInv, SpongeFollowsProtocol
<1>1. CASE UNCHANGED vars
    BY <1>0, <1>1 DEF vars
<1>2. CASE Next
    <2>1. PICK a \in Variants : HandleOf(a)
        BY <1>2, NextIsSomeHandle
    <2>2. CASE New(a)
        BY <1>0, <2>2 DEF New, NativeReset, GhostReset
    <2>3. CASE shake = a /\ Reinit
        BY <1>0, <2>3 DEF Reinit, NativeReset, GhostReset
    <2>4. ASSUME NEW d \in Data, shake = a, Update(d)
          PROVE  XInv'
        <3>1. Native(d) = d
            BY NativeExact
        <3>2. CASE /\ IF nphase = "absorbing"
                      THEN nmsg' = nmsg \o Native(d) /\ UNCHANGED nphase
                      ELSE nphase' = "garbled" /\ UNCHANGED nmsg
                   /\ fed' = fed \o d
                   /\ proto' = IF proto = "Initialized" THEN "Initialized" ELSE "Misused"
                   /\ UNCHANGED <<npos, taken>>
            <4>1. CASE proto = "Initialized"
                BY <1>0, <2>4, <3>1, <3>2, <4>1 DEF Update
            <4>2. CASE proto # "Initialized"
                BY <1>0, <2>4, <3>2, <4>2 DEF Update
            <4>3. QED
                BY <4>1, <4>2
        <3>3. CASE UNCHANGED <<nmsg, nphase, npos, fed, taken, proto>>
            BY <1>0, <2>4, <3>3 DEF Update
        <3>4. QED
            BY <2>4, <3>2, <3>3 DEF Update
    <2>5. ASSUME NEW d \in Data, shake = a, Absorb(d)
          PROVE  XInv'
        <3>1. Native(d) = d
            BY NativeExact
        <3>2. CASE /\ IF nphase = "absorbing"
                      THEN nmsg' = nmsg \o Native(d) /\ nphase' = "squeezing"
                      ELSE nphase' = "garbled" /\ UNCHANGED nmsg
                   /\ npos' = 0
                   /\ fed' = fed \o d
                   /\ proto' = IF proto = "Initialized" THEN "Absorbed" ELSE "Misused"
                   /\ UNCHANGED taken
            <4>1. CASE proto = "Initialized"
                <5>1. nphase' = "squeezing" /\ nmsg' = fed' /\ proto' = "Absorbed"
                    BY <3>1, <3>2, <4>1
                <5>2. taken' = npos' * BlockSize[shake'] /\ shake' \in Variants
                    BY <2>5, <3>2, <4>1, BlockSizePositive DEF Absorb
                <5>3. QED
                    BY <1>0, <5>1, <5>2
            <4>2. CASE proto # "Initialized"
                BY <1>0, <2>5, <3>2, <4>2 DEF Absorb
            <4>3. QED
                BY <4>1, <4>2
        <3>3. CASE UNCHANGED <<nmsg, nphase, npos, fed, taken, proto>>
            BY <1>0, <2>5, <3>3 DEF Absorb
        <3>4. QED
            BY <2>5, <3>2, <3>3 DEF Absorb
    <2>6. ASSUME NEW n \in 0 .. MaxOut, shake = a, SqueezeBlocks(n)
          PROVE  XInv'
        <3> DEFINE b == BlockSize[shake]
                   w == AsU32(n)
        <3>1. b \in Nat \ {0} /\ n \in Nat /\ w = n
            <4>1. 2 ^ LenWidth \in Nat \ {0}
                BY Pow2Positive, ShakeConstantsAssumption
            <4>2. QED
                BY <2>6, <4>1, BlockSizePositive, AsU32Identity,
                   ShakeConstantsAssumption DEF NoTruncation
        <3>2. CASE /\ w % b = 0
                   /\ npos' = npos + w \div b
                   /\ nphase' = IF nphase = "absorbing" /\ w > 0
                                THEN "garbled" ELSE nphase
                   /\ taken' = taken + n
                   /\ proto' = IF proto = "Absorbed" THEN "Absorbed" ELSE "Misused"
                   /\ UNCHANGED <<nmsg, fed>>
            <4>1. CASE proto = "Absorbed"
                <5>1. npos \in Nat
                    BY DEF TypeOK
                <5>2. npos * b + n = (npos + n \div b) * b
                    BY <3>1, <3>2, <5>1, SqueezeAdvance
                <5>3. taken' = npos' * BlockSize[shake']
                    BY <2>6, <3>1, <3>2, <4>1, <5>2 DEF SqueezeBlocks
                <5>4. QED
                    BY <1>0, <2>6, <3>2, <4>1, <5>3 DEF SqueezeBlocks
            <4>2. CASE proto # "Absorbed"
                BY <1>0, <2>6, <3>2, <4>2 DEF SqueezeBlocks
            <4>3. QED
                BY <4>1, <4>2
        <3>3. CASE UNCHANGED <<nmsg, nphase, npos, fed, taken, proto>>
            BY <1>0, <2>6, <3>3 DEF SqueezeBlocks
        <3>4. QED
            BY <2>6, <3>2, <3>3 DEF SqueezeBlocks
    <2>7. ASSUME NEW n \in 0 .. MaxOut, shake = a, Finalize(n)
          PROVE  XInv'
        BY <1>0, <2>7 DEF Finalize, NativeReset
    <2>8. CASE shake = a /\ Drop
        BY <1>0, <2>8 DEF Drop, NativeReset, GhostReset
    <2>9. QED
        BY <2>1, <2>2, <2>3, <2>4, <2>5, <2>6, <2>7, <2>8 DEF HandleOf
<1>3. QED
    BY <1>1, <1>2
(* A run of n consecutive XOF bytes from position q + 1 on is a sequence *)
(* of length n.                                                           *)
LEMMA XofRunLen ==
    ASSUME NEW m, NEW q \in Nat, NEW n \in Nat
    PROVE  Len([i \in 1 .. n |-> XofByte(m, q + i)]) = n
<1>1. [i \in 1 .. n |-> XofByte(m, q + i)] \in Seq({XofByte(m, j) : j \in Nat})
    BY SeqDef
<1>2. QED
    BY <1>1, LenProperties

(* A caller who keeps to the spec's sequence for SHAKE gets the XOF of   *)
(* its input, for slices and buffers below the modulus of the u32 casts: *)
(* after the one absorb(), every successful squeeze_blocks() fills its   *)
(* whole buffer with the next bytes of the XOF of everything fed, so two *)
(* squeezes of one block equal one squeeze of two; and a successful      *)
(* finalize() before any absorb() fills its buffer with the XOF of the   *)
(* update()s since the last restart.                                      *)
THEOREM ProtocolOutputIsXofHolds ==
    ASSUME NoTruncation
    PROVE  Spec => ProtocolOutputIsXof
<1> DEFINE A == last'.rc = "Ok" =>
                  /\ (last'.op = "squeeze" /\ proto = "Absorbed") =>
                        last'.out = [i \in 1 .. Len(last'.out) |-> XofByte(fed, taken + i)]
                  /\ (last'.op = "finalize" /\ proto = "Initialized") =>
                        last'.out = [i \in 1 .. Len(last'.out) |-> XofByte(fed, i)]
<1>1. XInv /\ Next => A
    <2> SUFFICES ASSUME XInv, Next PROVE A
        OBVIOUS
    <2> USE DEF XInv, SpongeFollowsProtocol
    <2>1. PICK a \in Variants : HandleOf(a)
        BY NextIsSomeHandle
    <2>2. CASE New(a)
        BY <2>2, ResultFields DEF New
    <2>3. CASE shake = a /\ Reinit
        BY <2>3, ResultFields DEF Reinit
    <2>4. ASSUME NEW d \in Data, shake = a, Update(d) \/ Absorb(d)
          PROVE  A
        <3>1. last'.op \in {"update", "absorb"}
            BY <2>4, ResultFields DEF Update, Absorb
        <3>2. QED
            BY <3>1
    <2>5. ASSUME NEW n \in 0 .. MaxOut, shake = a, SqueezeBlocks(n)
          PROVE  A
        <3> DEFINE b == BlockSize[shake]
                   w == AsU32(n)
        <3>1. b \in Nat \ {0} /\ n \in Nat /\ w = n
            <4>1. 2 ^ LenWidth \in Nat \ {0}
                BY Pow2Positive, ShakeConstantsAssumption
            <4>2. QED
                BY <2>5, <4>1, BlockSizePositive, AsU32Identity,
                   ShakeConstantsAssumption DEF NoTruncation
        <3>2. CASE /\ proto = "Absorbed"
                   /\ last' = Result("squeeze", "Ok", Filled(n, w, npos * b))
            <4>1. nphase = "squeezing" /\ nmsg = fed /\ taken = npos * b
                BY <3>2
            <4>2. Filled(n, w, npos * b) = [i \in 1 .. n |-> XofByte(fed, taken + i)]
                BY <3>1, <4>1 DEF Filled, SpongeByte
            <4>3. taken \in Nat
                BY DEF TypeOK
            <4>4. Len([i \in 1 .. n |-> XofByte(fed, taken + i)]) = n
                BY <3>1, <4>3, XofRunLen
            <4>5. QED
                BY <3>2, <4>2, <4>4 DEF Result
        <3>3. CASE proto # "Absorbed" \/ last'.rc # "Ok"
            <4>1. last'.op = "squeeze"
                BY <2>5, ResultFields DEF SqueezeBlocks
            <4>2. QED
                BY <3>3, <4>1
        <3>4. QED
            BY <2>5, <3>2, <3>3, ResultFields DEF SqueezeBlocks
    <2>6. ASSUME NEW n \in 0 .. MaxOut, shake = a, Finalize(n)
          PROVE  A
        <3>1. n \in Nat /\ AsU32(n) = n
            <4>1. 2 ^ LenWidth \in Nat \ {0}
                BY Pow2Positive, ShakeConstantsAssumption
            <4>2. QED
                BY <4>1, AsU32Identity, ShakeConstantsAssumption DEF NoTruncation
        <3>2. CASE /\ proto = "Initialized"
                   /\ last' = Result("finalize", "Ok",
                                     [i \in 1 .. n |-> IF i > AsU32(n) THEN Old
                                                       ELSE IF nphase = "absorbing"
                                                            THEN XofByte(nmsg, i)
                                                            ELSE Garbage])
            <4>1. nphase = "absorbing" /\ nmsg = fed
                BY <3>2
            <4>2. last'.out = [i \in 1 .. n |-> XofByte(fed, 0 + i)]
                BY <3>1, <3>2, <4>1 DEF Result
            <4>3. Len([i \in 1 .. n |-> XofByte(fed, 0 + i)]) = n
                BY <3>1, XofRunLen
            <4>4. QED
                BY <3>2, <4>2, <4>3 DEF Result
        <3>3. CASE proto # "Initialized" \/ last'.rc # "Ok"
            <4>1. last'.op = "finalize"
                BY <2>6, ResultFields DEF Finalize
            <4>2. QED
                BY <3>3, <4>1
        <3>4. QED
            BY <2>6, <3>2, <3>3, ResultFields DEF Finalize
    <2>7. CASE shake = a /\ Drop
        BY <2>7, ResultFields DEF Drop
    <2>8. QED
        BY <2>1, <2>2, <2>3, <2>4, <2>5, <2>6, <2>7 DEF HandleOf
<1>2. XInv /\ [Next]_vars => [A]_vars
    BY <1>1 DEF vars
<1>3. XInv /\ [Next]_vars => XInv'
    BY StepXInv
<1>4. QED
    BY InitXInv, <1>2, <1>3, PTL DEF Spec, ProtocolOutputIsXof
===============================================================================
