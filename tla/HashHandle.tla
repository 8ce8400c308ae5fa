----------------------------- MODULE HashHandle -----------------------------
(***************************************************************************)
(* The fixed-digest hash handles of wolfcrypt/sha.rs: SHA, SHA224, SHA256, *)
(* SHA384, SHA512, SHA3_224, SHA3_256, SHA3_384 and SHA3_512.  Every one   *)
(* of them is the same wrapper around a native state blob: new() and       *)
(* init() call the native Init, update() the native Update with the slice  *)
(* length cast to u32, finalize() checks the buffer length against         *)
(* DIGEST_SIZE and calls the native Final, and Drop calls the native Free. *)
(*                                                                         *)
(* The program holds one handle at a time (handle = "none" when there is   *)
(* none); dropping it lets the next one be built, of any variant.  The     *)
(* native library is opaque: its state is abstracted to the bytes it has   *)
(* absorbed (msg), its digest to an injective tag Digest(alg, msg), and    *)
(* every native call may report a nonzero status, leaving its state as it  *)
(* was.  Final resets the native state to the empty message, as the        *)
(* wolfCrypt Final functions do.  Builds in which the native Init allocates *)
(* (AllocatingAlgs, e.g. a cached W buffer) are tracked by allocs.         *)
(***************************************************************************)
EXTENDS Naturals, Sequences

CONSTANTS
    Bytes,           \* the byte values a slice may hold
    MaxData,         \* the longest slice passed to update()
    MaxFed,          \* bound on the bytes fed to one computation
    LenWidth,        \* the width of the length cast (32 in the code)
    AllocatingAlgs,  \* the variants whose native Init allocates
    MaxAllocs        \* bound on outstanding native allocations

VARIABLES
    handle,   \* the variant of the live handle, or "none"
    msg,      \* the native state: the bytes absorbed since the last Init/Final
    fed,      \* the caller's view: the bytes passed to successful update()s
    allocs,   \* native allocations made by Init and not yet freed
    last      \* the result of the last call, and what it wrote to the buffer

vars == <<handle, msg, fed, allocs, last>>

-----------------------------------------------------------------------------
(* DIGEST_SIZE of each variant, from the native WC_*_DIGEST_SIZE constants. *)
DigestSize == [SHA |-> 20, SHA224 |-> 28, SHA256 |-> 32, SHA384 |-> 48,
               SHA512 |-> 64, SHA3_224 |-> 28, SHA3_256 |-> 32,
               SHA3_384 |-> 48, SHA3_512 |-> 64]

Algs == DOMAIN DigestSize

ASSUME ConstantsAssumption ==
    /\ Bytes # {}
    /\ MaxData \in Nat
    /\ MaxFed \in Nat
    /\ LenWidth \in Nat \ {0}
    /\ AllocatingAlgs \subseteq Algs
    /\ MaxAllocs \in Nat

(* The slices a caller may pass, and the buffer lengths it may offer:    *)
(* the digest size and its neighbours on either side.                    *)
Data == UNION {[1 .. n -> Bytes] : n \in 0 .. MaxData}
BufLens(a) == {DigestSize[a] - 1, DigestSize[a], DigestSize[a] + 1}

(* Native status codes: 0, or some nonzero error; BUFFER_E is the        *)
(* wrapper's own length-mismatch error.                                  *)
NativeRc == {"Ok", "NATIVE_E"}
Status == NativeRc \cup {"BUFFER_E"}

(* An output buffer the call left as it was. *)
Unwritten == [len |-> 0, val |-> <<>>]
Digest(a, m) == <<a, m>>

Result(op, rc, out) == [op |-> op, rc |-> rc, out |-> out]

(* `len() as u32`: the length the native call receives. *)
AsU32(n) == n % (2 ^ LenWidth)

(* The native Update absorbs the first AsU32(Len(d)) bytes of the slice. *)
NativeUpdate(m, d) == m \o SubSeq(d, 1, AsU32(Len(d)))

(* Allocations one native Init makes in this build. *)
InitAlloc(a) == IF a \in AllocatingAlgs THEN 1 ELSE 0

-----------------------------------------------------------------------------
Init ==
    /\ handle = "none"
    /\ msg = <<>>
    /\ fed = <<>>
    /\ allocs = 0
    /\ last = Result("none", "Ok", Unwritten)

(* new(): native Init into a MaybeUninit; on a nonzero status the value is *)
(* returned as Err and the uninitialised struct is never dropped.          *)
New(a) ==
    /\ handle = "none"
    /\ allocs + InitAlloc(a) <= MaxAllocs
    /\ \/ /\ handle' = a
          /\ msg' = <<>>
          /\ fed' = <<>>
          /\ allocs' = allocs + InitAlloc(a)
          /\ last' = Result("new", "Ok", Unwritten)
       \/ /\ last' = Result("new", "NATIVE_E", Unwritten)
          /\ UNCHANGED <<handle, msg, fed, allocs>>

(* Mutant: init() that calls the native Free before the native Init, so  *)
(* that a failing Init leaves a freed state which Drop frees again.       *)
ReinitFreeingFirst ==
    /\ handle # "none"
    /\ allocs + InitAlloc(handle) <= MaxAllocs
    /\ \/ /\ msg' = <<>>
          /\ fed' = <<>>
          /\ last' = Result("init", "Ok", Unwritten)
          /\ UNCHANGED allocs
       \/ /\ allocs' = allocs - InitAlloc(handle)
          /\ last' = Result("init", "NATIVE_E", Unwritten)
          /\ UNCHANGED <<msg, fed>>
    /\ UNCHANGED handle

(* init(): native Init over the live struct, without freeing it first. *)
Reinit ==
    /\ handle # "none"
    /\ allocs + InitAlloc(handle) <= MaxAllocs
    /\ \/ /\ msg' = <<>>
          /\ fed' = <<>>
          /\ allocs' = allocs + InitAlloc(handle)
          /\ last' = Result("init", "Ok", Unwritten)
       \/ /\ last' = Result("init", "NATIVE_E", Unwritten)
          /\ UNCHANGED <<msg, fed, allocs>>
    /\ UNCHANGED handle

(* Mutant: update() that ignores the native status and reports Ok. *)
UpdateIgnoringRc(d) ==
    /\ handle # "none"
    /\ Len(fed) + Len(d) <= MaxFed
    /\ \/ msg' = NativeUpdate(msg, d)
       \/ msg' = msg
    /\ fed' = fed \o d
    /\ last' = Result("update", "Ok", Unwritten)
    /\ UNCHANGED <<handle, allocs>>

(* update(data): native Update with `data.len() as u32`. *)
Update(d) ==
    /\ handle # "none"
    /\ Len(fed) + Len(d) <= MaxFed
    /\ \/ /\ msg' = NativeUpdate(msg, d)
          /\ fed' = fed \o d
          /\ last' = Result("update", "Ok", Unwritten)
       \/ /\ last' = Result("update", "NATIVE_E", Unwritten)
          /\ UNCHANGED <<msg, fed>>
    /\ UNCHANGED <<handle, allocs>>

(* Mutant: finalize() that calls native Final before the length check. *)
FinalizeBeforeCheck(n) ==
    /\ handle # "none"
    /\ msg' = <<>>
    /\ fed' = <<>>
    /\ last' = IF n = DigestSize[handle]
                THEN Result("finalize", "Ok", [len |-> n, val |-> Digest(handle, msg)])
                ELSE Result("finalize", "BUFFER_E", [len |-> n, val |-> Digest(handle, msg)])
    /\ UNCHANGED <<handle, allocs>>

(* finalize(hash): BUFFER_E unless hash.len() = DIGEST_SIZE; then native  *)
(* Final writes the digest and resets the native state.                   *)
Finalize(n) ==
    /\ handle # "none"
    /\ \/ /\ n # DigestSize[handle]
          /\ last' = Result("finalize", "BUFFER_E", Unwritten)
          /\ UNCHANGED <<msg, fed>>
       \/ /\ n = DigestSize[handle]
          /\ \/ /\ msg' = <<>>
                /\ fed' = <<>>
                /\ last' = Result("finalize", "Ok",
                                  [len |-> n, val |-> Digest(handle, msg)])
             \/ /\ last' = Result("finalize", "NATIVE_E", Unwritten)
                /\ UNCHANGED <<msg, fed>>
    /\ UNCHANGED <<handle, allocs>>

(* Drop: native Free of the struct, on every path out of the owner's scope. *)
Drop ==
    /\ handle # "none"
    /\ handle' = "none"
    /\ msg' = <<>>
    /\ fed' = <<>>
    /\ allocs' = allocs - InitAlloc(handle)
    /\ last' = Result("drop", "Ok", Unwritten)

(* The four-operation shape every variant's impl block repeats. *)
HandleOf(a) ==
    \/ New(a)
    \/ /\ handle = a
       /\ \/ Reinit
          \/ \E d \in Data : Update(d)
          \/ \E n \in BufLens(a) : Finalize(n)
          \/ Drop

SHAHandle     == HandleOf("SHA")
SHA224Handle  == HandleOf("SHA224")
SHA256Handle  == HandleOf("SHA256")
SHA384Handle  == HandleOf("SHA384")
SHA512Handle  == HandleOf("SHA512")
SHA3_224Handle == HandleOf("SHA3_224")
SHA3_256Handle == HandleOf("SHA3_256")
SHA3_384Handle == HandleOf("SHA3_384")
SHA3_512Handle == HandleOf("SHA3_512")

Next ==
    \/ SHAHandle \/ SHA224Handle \/ SHA256Handle \/ SHA384Handle
    \/ SHA512Handle \/ SHA3_224Handle \/ SHA3_256Handle
    \/ SHA3_384Handle \/ SHA3_512Handle

Spec == Init /\ [][Next]_vars

-----------------------------------------------------------------------------
Ops == {"none", "new", "init", "update", "finalize", "drop"}
Outputs == [len : Nat, val : {<<>>} \cup (Algs \X Seq(Bytes))]

TypeOK ==
    /\ handle \in Algs \cup {"none"}
    /\ msg \in Seq(Bytes)
    /\ fed \in Seq(Bytes)
    /\ allocs \in Nat
    /\ last \in [op : Ops, rc : Status, out : Outputs]

(* The spec's incremental-vs-one-shot property, stated of the wrapper:    *)
(* a finalize() that returns Ok writes, into a buffer of exactly          *)
(* DIGEST_SIZE bytes, the digest of the concatenation of every slice      *)
(* passed to a successful update() since the last new(), init() or Ok    *)
(* finalize(); and one that fails writes nothing and leaves the native    *)
(* state and the input so far intact, so a retry with the right buffer    *)
(* still digests the whole input.                                         *)
FinalizeDigestsInput ==
    [][ last'.op = "finalize" =>
          IF last'.rc = "Ok"
          THEN last'.out = [len |-> DigestSize[handle],
                            val |-> Digest(handle, fed)]
          ELSE /\ last'.out = Unwritten
               /\ msg' = msg
               /\ fed' = fed ]_vars

(* Native Init allocations are released by Drop: a live handle owns at    *)
(* most the allocation of its last Init, and none is outstanding once it  *)
(* is dropped (init() re-initialises without calling Free first).         *)
NoLeak == allocs <= InitAlloc(handle)

(* The native state holds exactly the bytes the caller fed: the           *)
(* strengthening that makes FinalizeDigestsInput hold.                    *)
NativeTracksInput == handle # "none" => msg = fed

(* The wrapper keeps the promise of the abstract hash handle (HashSpec): *)
(* seen through the caller's input (fed), with the native state and the   *)
(* allocations hidden, every new, init, update, finalize and Drop of the  *)
(* code is a step of HashSpec or leaves its state alone; in particular an *)
(* Ok finalize writes the digest of the abstract input, although the code *)
(* digests the native state msg.                                          *)
Abstract == INSTANCE HashSpec WITH alg <- handle, input <- fed

ImplementsHashSpec == Abstract!AbsSpec
=============================================================================
