-------------------------- MODULE HashHandleProofs --------------------------
(***************************************************************************)
(* Proofs about the fixed-digest hash handles of HashHandle, for every     *)
(* value of the constants: type correctness, and, for slices shorter than  *)
(* the modulus of the `len() as u32` cast, that the native state holds     *)
(* exactly the bytes the caller fed and that every successful finalize()   *)
(* writes the digest of that input.                                        *)
(***************************************************************************)
EXTENDS HashHandle, Pow2Lemmas, SequenceTheorems, TLAPS

(* The slices handed to update() are shorter than 2^LenWidth: 4 GiB in    *)
(* the code.  Under it the cast is the identity.                          *)
NoTruncation == MaxData < 2 ^ LenWidth

-----------------------------------------------------------------------------
(* Lemmas on the arithmetic of the cast. *)

LEMMA AsU32Bound ==
    ASSUME NEW n \in Nat
    PROVE  AsU32(n) \in 0 .. n
<1>1. 2 ^ LenWidth \in Nat \ {0}
    BY Pow2Positive, ConstantsAssumption
<1>2. QED
    BY <1>1 DEF AsU32

LEMMA AsU32Identity ==
    ASSUME NEW n \in Nat, n < 2 ^ LenWidth
    PROVE  AsU32(n) = n
<1>1. 2 ^ LenWidth \in Nat \ {0}
    BY Pow2Positive, ConstantsAssumption
<1>2. QED
    BY <1>1 DEF AsU32

-----------------------------------------------------------------------------
(* Lemmas on the slices and on what the native Update absorbs. *)

LEMMA DataIsSeq ==
    ASSUME NEW d \in Data
    PROVE  d \in Seq(Bytes) /\ Len(d) \in 0 .. MaxData
<1>1. PICK n \in 0 .. MaxData : d \in [1 .. n -> Bytes]
    BY DEF Data
<1>2. d \in Seq(Bytes)
    BY <1>1, ConstantsAssumption, SeqDef
<1>3. Len(d) = n
    BY <1>1, <1>2, LenProperties
<1>4. QED
    BY <1>2, <1>3

LEMMA NativeUpdateType ==
    ASSUME NEW m \in Seq(Bytes), NEW d \in Seq(Bytes)
    PROVE  NativeUpdate(m, d) \in Seq(Bytes)
<1>1. AsU32(Len(d)) \in 0 .. Len(d)
    BY AsU32Bound, LenProperties
<1>2. SubSeq(d, 1, AsU32(Len(d))) \in Seq(Bytes)
    BY <1>1, SubSeqProperties, ElementOfSeq
<1>3. QED
    BY <1>2, ConcatProperties DEF NativeUpdate

LEMMA NativeUpdateExact ==
    ASSUME NoTruncation, NEW m \in Seq(Bytes), NEW d \in Data
    PROVE  NativeUpdate(m, d) = m \o d
<1>1. d \in Seq(Bytes) /\ Len(d) \in 0 .. MaxData
    BY DataIsSeq
<1>2. AsU32(Len(d)) = Len(d)
    BY <1>1, AsU32Identity, ConstantsAssumption, Pow2Positive DEF NoTruncation
<1>3. SubSeq(d, 1, Len(d)) = d
    BY <1>1, SubSeqFull
<1>4. QED
    BY <1>2, <1>3 DEF NativeUpdate
-----------------------------------------------------------------------------
(* Every step of Next is a step of one variant's handle. *)
LEMMA NextIsSomeHandle ==
    Next => \E a \in Algs : HandleOf(a)
BY DEF Next, SHAHandle, SHA224Handle, SHA256Handle, SHA384Handle,
       SHA512Handle, SHA3_224Handle, SHA3_256Handle, SHA3_384Handle,
       SHA3_512Handle, Algs, DigestSize

LEMMA NoneNotAllocating ==
    InitAlloc("none") = 0 /\ \A a \in Algs : InitAlloc(a) \in {0, 1}
BY ConstantsAssumption DEF InitAlloc, Algs, DigestSize

(* The type invariant with what Drop needs: a live handle's allocation   *)
(* is among those counted.                                               *)
TypeInv ==
    /\ TypeOK
    /\ allocs >= InitAlloc(handle)

(* The record every call stores in last is well typed. *)
LEMMA ResultType ==
    ASSUME NEW op \in Ops, NEW rc \in Status, NEW out \in Outputs
    PROVE  Result(op, rc, out) \in [op : Ops, rc : Status, out : Outputs]
BY DEF Result

LEMMA UnwrittenType == Unwritten \in Outputs
BY DEF Unwritten, Outputs

LEMMA DigestOutType ==
    ASSUME NEW a \in Algs, NEW m \in Seq(Bytes)
    PROVE  [len |-> DigestSize[a], val |-> Digest(a, m)] \in Outputs
BY DEF Outputs, Digest, Algs, DigestSize

LEMMA InitTypeInv ==
    Init => TypeInv
<1> SUFFICES ASSUME Init PROVE TypeInv
    OBVIOUS
<1>1. last \in [op : Ops, rc : Status, out : Outputs]
    BY UnwrittenType, ResultType DEF Init, Ops, Status, NativeRc
<1>2. QED
    BY <1>1, NoneNotAllocating DEF Init, TypeInv, TypeOK

LEMMA StepTypeInv ==
    TypeInv /\ [Next]_vars => TypeInv'
<1> SUFFICES ASSUME TypeInv, [Next]_vars PROVE TypeInv'
    OBVIOUS
<1> USE DEF TypeInv, TypeOK
<1> DEFINE Typed(op, rc) ==
        Result(op, rc, Unwritten) \in [op : Ops, rc : Status, out : Outputs]
<1>0. \A op \in Ops, rc \in Status : Typed(op, rc)
    BY UnwrittenType, ResultType
<1>1. CASE UNCHANGED vars
    BY <1>1 DEF vars
<1>2. CASE Next
    <2>1. PICK a \in Algs : HandleOf(a)
        BY <1>2, NextIsSomeHandle
    <2>2. CASE New(a)
        <3>1. InitAlloc(a) \in {0, 1}
            BY NoneNotAllocating
        <3>2. CASE /\ handle' = a /\ msg' = <<>> /\ fed' = <<>>
                   /\ allocs' = allocs + InitAlloc(a)
                   /\ last' = Result("new", "Ok", Unwritten)
            BY <3>1, <3>2, <1>0 DEF Ops, Status, NativeRc
        <3>3. CASE /\ last' = Result("new", "NATIVE_E", Unwritten)
                   /\ UNCHANGED <<handle, msg, fed, allocs>>
            BY <3>3, <1>0 DEF Ops, Status, NativeRc
        <3>4. QED
            BY <2>2, <3>2, <3>3 DEF New
    <2>3. CASE handle = a /\ Reinit
        <3>1. InitAlloc(a) \in {0, 1}
            BY NoneNotAllocating
        <3>2. CASE /\ msg' = <<>> /\ fed' = <<>>
                   /\ allocs' = allocs + InitAlloc(handle)
                   /\ last' = Result("init", "Ok", Unwritten)
                   /\ handle' = handle
            BY <2>3, <3>1, <3>2, <1>0 DEF Ops, Status, NativeRc
        <3>3. CASE /\ last' = Result("init", "NATIVE_E", Unwritten)
                   /\ UNCHANGED <<handle, msg, fed, allocs>>
            BY <3>3, <1>0 DEF Ops, Status, NativeRc
        <3>4. QED
            BY <2>3, <3>2, <3>3 DEF Reinit
    <2>4. CASE handle = a /\ \E d \in Data : Update(d)
        <3>1. PICK d \in Data : Update(d)
            BY <2>4
        <3>2. d \in Seq(Bytes)
            BY DataIsSeq
        <3>3. NativeUpdate(msg, d) \in Seq(Bytes) /\ fed \o d \in Seq(Bytes)
            BY <3>2, NativeUpdateType, ConcatProperties
        <3>4. CASE /\ msg' = NativeUpdate(msg, d) /\ fed' = fed \o d
                   /\ last' = Result("update", "Ok", Unwritten)
            BY <3>1, <3>3, <3>4, <1>0 DEF Update, Ops, Status, NativeRc
        <3>5. CASE /\ last' = Result("update", "NATIVE_E", Unwritten)
                   /\ UNCHANGED <<msg, fed>>
            BY <3>1, <3>5, <1>0 DEF Update, Ops, Status, NativeRc
        <3>6. QED
            BY <3>1, <3>4, <3>5 DEF Update
    <2>5. CASE handle = a /\ \E n \in BufLens(a) : Finalize(n)
        <3>1. PICK n \in BufLens(a) : Finalize(n)
            BY <2>5
        <3>2. CASE /\ n = DigestSize[handle] /\ msg' = <<>> /\ fed' = <<>>
                   /\ last' = Result("finalize", "Ok",
                                     [len |-> n, val |-> Digest(handle, msg)])
            <4>1. [len |-> n, val |-> Digest(handle, msg)] \in Outputs
                BY <2>5, <3>2, DigestOutType
            <4>2. QED
                BY <3>1, <3>2, <4>1, ResultType DEF Finalize, Ops, Status, NativeRc
        <3>3. CASE /\ last' \in {Result("finalize", "BUFFER_E", Unwritten),
                                 Result("finalize", "NATIVE_E", Unwritten)}
                   /\ UNCHANGED <<msg, fed>>
            BY <3>1, <3>3, <1>0 DEF Finalize, Ops, Status, NativeRc
        <3>4. QED
            BY <3>1, <3>2, <3>3 DEF Finalize
    <2>6. CASE handle = a /\ Drop
        BY <2>6, NoneNotAllocating, <1>0 DEF Drop, Ops, Status, NativeRc
    <2>7. QED
        BY <2>1, <2>2, <2>3, <2>4, <2>5, <2>6 DEF HandleOf
<1>3. QED
    BY <1>1, <1>2

(* Type correctness of the hash handles, whatever the constants: the     *)
(* state every new/init/update/finalize/drop sequence reaches is typed,  *)
(* and in particular Drop never releases more than Init allocated.       *)
THEOREM TypeCorrect == Spec => []TypeOK
<1>1. Spec => []TypeInv
    BY InitTypeInv, StepTypeInv, PTL DEF Spec
<1>2. QED
    BY <1>1, PTL DEF TypeInv
-----------------------------------------------------------------------------
(* The inductive invariant for the digest property: the typed state in    *)
(* which the native state holds exactly the bytes fed.                    *)
IInv ==
    /\ TypeInv
    /\ NativeTracksInput

LEMMA InitIInv ==
    Init => IInv
BY InitTypeInv DEF Init, IInv, NativeTracksInput

LEMMA StepIInv ==
    ASSUME NoTruncation
    PROVE  IInv /\ [Next]_vars => IInv'
<1> SUFFICES ASSUME IInv, [Next]_vars PROVE IInv'
    OBVIOUS
<1>0. TypeInv'
    BY StepTypeInv DEF IInv
<1> USE DEF IInv, NativeTracksInput
<1>1. CASE UNCHANGED vars
    BY <1>0, <1>1 DEF vars
<1>2. CASE Next
    <2>1. PICK a \in Algs : HandleOf(a)
        BY <1>2, NextIsSomeHandle
    <2>2. CASE New(a)
        BY <1>0, <2>2 DEF New
    <2>3. CASE handle = a /\ Reinit
        BY <1>0, <2>3 DEF Reinit
    <2>4. CASE handle = a /\ \E d \in Data : Update(d)
        <3>1. PICK d \in Data : Update(d)
            BY <2>4
        <3>2. NativeUpdate(msg, d) = msg \o d
            BY NativeUpdateExact DEF TypeInv, TypeOK
        <3>3. QED
            BY <1>0, <2>4, <3>1, <3>2 DEF Update
    <2>5. CASE handle = a /\ \E n \in BufLens(a) : Finalize(n)
        BY <1>0, <2>5 DEF Finalize
    <2>6. CASE handle = a /\ Drop
        BY <1>0, <2>6 DEF Drop
    <2>7. QED
        BY <2>1, <2>2, <2>3, <2>4, <2>5, <2>6 DEF HandleOf
<1>3. QED
    BY <1>0, <1>1, <1>2

(* While every slice passed to update() is shorter than the cast's       *)
(* modulus, the native hash state of a live handle holds exactly the      *)
(* concatenation of the slices of the successful update()s since its last *)
(* new(), init() or Ok finalize(), whatever interleaving of failing and   *)
(* succeeding calls led there.                                            *)
THEOREM NativeTracksInputInvariant ==
    ASSUME NoTruncation
    PROVE  Spec => []NativeTracksInput
<1>1. IInv /\ [Next]_vars => IInv'
    BY StepIInv
<1>2. QED
    BY InitIInv, <1>1, PTL DEF Spec, IInv

(* The finalize() step itself: under the same hypothesis, an Ok finalize() *)
(* writes DIGEST_SIZE bytes holding the digest of everything fed, and a   *)
(* failing one (wrong buffer length, native error) writes nothing and     *)
(* leaves the native state and the input so far intact.                   *)
THEOREM FinalizeDigestsInputHolds ==
    ASSUME NoTruncation
    PROVE  Spec => FinalizeDigestsInput
<1> DEFINE A == last'.op = "finalize" =>
                  IF last'.rc = "Ok"
                  THEN last'.out = [len |-> DigestSize[handle],
                                    val |-> Digest(handle, fed)]
                  ELSE /\ last'.out = Unwritten
                       /\ msg' = msg
                       /\ fed' = fed
<1>1. IInv /\ Next => A
    <2> SUFFICES ASSUME IInv, Next PROVE A
        OBVIOUS
    <2>1. PICK a \in Algs : HandleOf(a)
        BY NextIsSomeHandle
    <2>2. CASE New(a)
        BY <2>2 DEF New, Result
    <2>3. CASE handle = a /\ Reinit
        BY <2>3 DEF Reinit, Result
    <2>4. CASE handle = a /\ \E d \in Data : Update(d)
        BY <2>4 DEF Update, Result
    <2>5. CASE handle = a /\ \E n \in BufLens(a) : Finalize(n)
        <3>1. msg = fed
            BY <2>5 DEF IInv, NativeTracksInput, Finalize
        <3>2. Unwritten.len = 0
            BY DEF Unwritten
        <3>3. QED
            BY <2>5, <3>1 DEF Finalize, Result
    <2>6. CASE handle = a /\ Drop
        BY <2>6 DEF Drop, Result
    <2>7. QED
        BY <2>1, <2>2, <2>3, <2>4, <2>5, <2>6 DEF HandleOf
<1>2. IInv /\ [Next]_vars => IInv'
    BY StepIInv
<1>3. IInv /\ [Next]_vars => [A]_vars
    BY <1>1 DEF vars
<1>4. QED
    BY InitIInv, <1>2, <1>3, PTL DEF Spec, FinalizeDigestsInput
-----------------------------------------------------------------------------
(* Refinement of the abstract hash handle HashSpec under the mapping     *)
(* alg <- handle, input <- fed: the native state msg and the allocations  *)
(* are hidden.  The abstract constants are the concrete ones.             *)

LEMMA AbstractConstants ==
    /\ Abstract!DigestLen = DigestSize
    /\ Abstract!Algorithms = Algs
    /\ Abstract!Slices = Data
    /\ \A a \in Algs : Abstract!Buffers(a) = BufLens(a)
    /\ Abstract!NoOutput = Unwritten
    /\ \A op, rc, out : Abstract!Outcome(op, rc, out) = Result(op, rc, out)
    /\ \A a, m : Abstract!DigestOf(a, m) = Digest(a, m)
BY DEF Abstract!DigestLen, DigestSize, Abstract!Algorithms, Algs,
       Abstract!Slices, Data, Abstract!Buffers, BufLens, Abstract!NoOutput,
       Unwritten, Abstract!Outcome, Result, Abstract!DigestOf, Digest

LEMMA InitRefines ==
    Init => Abstract!AbsInit
BY AbstractConstants DEF Init, Abstract!AbsInit

LEMMA StepRefines ==
    ASSUME NoTruncation
    PROVE  IInv /\ [Next]_vars => [Abstract!AbsNext]_Abstract!absVars
<1> SUFFICES ASSUME IInv, [Next]_vars
             PROVE  [Abstract!AbsNext]_Abstract!absVars
    OBVIOUS
<1>0. AbstractConstants
    BY AbstractConstants
<1>1. CASE UNCHANGED vars
    BY <1>1 DEF vars, Abstract!absVars
<1>2. CASE Next
    <2>1. PICK a \in Algs : HandleOf(a)
        BY <1>2, NextIsSomeHandle
    <2>2. CASE New(a)
        <3>1. CASE /\ handle' = a /\ msg' = <<>> /\ fed' = <<>>
                   /\ allocs' = allocs + InitAlloc(a)
                   /\ last' = Result("new", "Ok", Unwritten)
            <4>1. Abstract!Build(a)
                BY <2>2, <3>1, <1>0 DEF New, Abstract!Build
            <4>2. QED
                BY <4>1, <1>0 DEF Abstract!AbsNext
        <3>2. CASE /\ last' = Result("new", "NATIVE_E", Unwritten)
                   /\ UNCHANGED <<handle, msg, fed, allocs>>
            <4>1. Abstract!Build(a)
                BY <2>2, <3>2, <1>0 DEF New, Abstract!Build, Abstract!Fails
            <4>2. QED
                BY <4>1, <1>0 DEF Abstract!AbsNext
        <3>3. QED
            BY <2>2, <3>1, <3>2 DEF New
    <2>3. CASE handle = a /\ Reinit
        <3>1. CASE /\ msg' = <<>> /\ fed' = <<>>
                   /\ allocs' = allocs + InitAlloc(handle)
                   /\ last' = Result("init", "Ok", Unwritten)
                   /\ handle' = handle
            <4>1. Abstract!Restart
                BY <2>3, <3>1, <1>0 DEF Reinit, Abstract!Restart
            <4>2. QED
                BY <2>3, <4>1, <1>0 DEF Abstract!AbsNext
        <3>2. CASE /\ last' = Result("init", "NATIVE_E", Unwritten)
                   /\ UNCHANGED <<handle, msg, fed, allocs>>
            <4>1. Abstract!Restart
                BY <2>3, <3>2, <1>0 DEF Reinit, Abstract!Restart, Abstract!Fails
            <4>2. QED
                BY <2>3, <4>1, <1>0 DEF Abstract!AbsNext
        <3>3. QED
            BY <2>3, <3>1, <3>2 DEF Reinit
    <2>4. CASE handle = a /\ \E d \in Data : Update(d)
        <3>1. PICK d \in Data : Update(d)
            BY <2>4
        <3>2. Abstract!Feed(d)
            <4>1. CASE /\ msg' = NativeUpdate(msg, d) /\ fed' = fed \o d
                       /\ last' = Result("update", "Ok", Unwritten)
                BY <3>1, <4>1, <1>0 DEF Update, Abstract!Feed
            <4>2. CASE /\ last' = Result("update", "NATIVE_E", Unwritten)
                       /\ UNCHANGED <<msg, fed>>
                BY <3>1, <4>2, <1>0 DEF Update, Abstract!Feed, Abstract!Fails
            <4>3. QED
                BY <3>1, <4>1, <4>2 DEF Update
        <3>3. QED
            BY <2>4, <3>2, <1>0 DEF Abstract!AbsNext
    <2>5. CASE handle = a /\ \E n \in BufLens(a) : Finalize(n)
        <3>1. PICK n \in BufLens(a) : Finalize(n)
            BY <2>5
        <3>2. msg = fed
            BY <3>1 DEF IInv, NativeTracksInput, Finalize
        <3>3. Abstract!Emit(n)
            <4>1. CASE /\ n # DigestSize[handle]
                       /\ last' = Result("finalize", "BUFFER_E", Unwritten)
                       /\ UNCHANGED <<msg, fed>>
                BY <3>1, <4>1, <1>0 DEF Finalize, Abstract!Emit, Abstract!Fails
            <4>2. CASE /\ n = DigestSize[handle] /\ msg' = <<>> /\ fed' = <<>>
                       /\ last' = Result("finalize", "Ok",
                                         [len |-> n, val |-> Digest(handle, msg)])
                BY <3>1, <3>2, <4>2, <1>0 DEF Finalize, Abstract!Emit
            <4>3. CASE /\ n = DigestSize[handle]
                       /\ last' = Result("finalize", "NATIVE_E", Unwritten)
                       /\ UNCHANGED <<msg, fed>>
                BY <3>1, <4>3, <1>0 DEF Finalize, Abstract!Emit, Abstract!Fails
            <4>4. QED
                BY <3>1, <4>1, <4>2, <4>3 DEF Finalize
        <3>4. QED
            BY <2>5, <3>3, <1>0 DEF Abstract!AbsNext
    <2>6. CASE handle = a /\ Drop
        <3>1. Abstract!Close
            BY <2>6, <1>0 DEF Drop, Abstract!Close
        <3>2. QED
            BY <2>6, <3>1, <1>0 DEF Abstract!AbsNext
    <2>7. QED
        BY <2>1, <2>2, <2>3, <2>4, <2>5, <2>6 DEF HandleOf
<1>3. QED
    BY <1>1, <1>2

(* The wrapper implements the abstract hash handle: while every slice is *)
(* shorter than the cast's modulus, every behaviour of new, init, update, *)
(* finalize and Drop, seen through the caller's input, is one of HashSpec, *)
(* whose Ok finalize digests exactly that input and whose failures change *)
(* nothing.                                                              *)
THEOREM HashHandleImplementsSpec ==
    ASSUME NoTruncation
    PROVE  Spec => ImplementsHashSpec
<1>1. IInv /\ [Next]_vars => IInv'
    BY StepIInv
<1>2. IInv /\ [Next]_vars => [Abstract!AbsNext]_Abstract!absVars
    BY StepRefines
<1>3. QED
    BY InitIInv, InitRefines, <1>1, <1>2, PTL
       DEF Spec, ImplementsHashSpec, Abstract!AbsSpec
=============================================================================
