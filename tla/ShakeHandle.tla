---------------------------- MODULE ShakeHandle -----------------------------
(***************************************************************************)
(* The extendable-output handles of wolfcrypt/sha.rs: SHAKE128 and         *)
(* SHAKE256.  Besides new(), init(), update() and finalize() they have     *)
(* absorb(data), which absorbs and pads, and squeeze_blocks(dout), which   *)
(* checks that `dout.len() as u32` is a multiple of SQUEEZE_BLOCK_SIZE and *)
(* asks the native library for that many blocks.  finalize() takes any     *)
(* output length.  The wrapper keeps no phase of its own: every call is    *)
(* forwarded whatever came before.                                         *)
(*                                                                         *)
(* The native sponge (wolfCrypt sha3.c) is abstracted to the bytes it has  *)
(* absorbed (nmsg), its phase and the blocks squeezed so far.  Absorb is   *)
(* Update followed by the padding; SqueezeBlocks permutes and copies       *)
(* whole blocks; Final pads, copies the requested bytes and re-initialises *)
(* the state.  A call made in the wrong phase (absorbing into a padded     *)
(* state, squeezing an unpadded one) leaves a state whose output is no     *)
(* XOF of anything: "garbled", and its output bytes are Garbage.  Byte i   *)
(* of the XOF of m is the abstract value XofByte(m, i).                    *)
(*                                                                         *)
(* The ghost variables fed, taken and proto follow the caller against the  *)
(* spec's state machine Initialized -> Absorbed -> [SqueezeBlocks]*.       *)
(***************************************************************************)
EXTENDS Naturals, Sequences

CONSTANTS
    Bytes,         \* the byte values a slice may hold
    Block128,      \* SHAKE128::SQUEEZE_BLOCK_SIZE (168 in the code)
    Block256,      \* SHAKE256::SQUEEZE_BLOCK_SIZE (136 in the code)
    MaxData,       \* the longest slice passed to update() or absorb()
    MaxFed,        \* bound on the bytes fed to one computation
    MaxOut,        \* the longest output buffer
    MaxSqueeze,    \* bound on the bytes squeezed after one absorb
    LenWidth       \* the width of the length cast (32 in the code)

ASSUME ShakeConstantsAssumption ==
    /\ Bytes # {}
    /\ Block128 \in Nat \ {0}
    /\ Block256 \in Nat \ {0}
    /\ MaxData \in Nat
    /\ MaxFed \in Nat
    /\ MaxOut \in Nat
    /\ MaxSqueeze \in Nat
    /\ LenWidth \in Nat \ {0}

VARIABLES
    shake,    \* the variant of the live handle, or "none"
    nmsg,     \* native: the bytes absorbed since the last Init/Final
    nphase,   \* native: "absorbing", "squeezing" (padded) or "garbled"
    npos,     \* native: blocks squeezed since the padding
    fed,      \* ghost: the bytes passed to successful update()/absorb()
    taken,    \* ghost: the bytes returned by successful squeeze_blocks()
    proto,    \* ghost: the spec's state: "Initialized", "Absorbed", "Misused"
    last      \* the last call: its status and output buffer

vars == <<shake, nmsg, nphase, npos, fed, taken, proto, last>>

-----------------------------------------------------------------------------
BlockSize == [SHAKE128 |-> Block128, SHAKE256 |-> Block256]
Variants == DOMAIN BlockSize

Data == UNION {[1 .. n -> Bytes] : n \in 0 .. MaxData}

AsU32(n) == n % (2 ^ LenWidth)
Native(s) == SubSeq(s, 1, AsU32(Len(s)))

XofByte(m, i) == <<m, i>>
Garbage == <<"garbage">>
Old == <<"old">>

(* The bytes the sponge yields from stream position p on: the XOF of the *)
(* absorbed message when it is padded and intact, Garbage otherwise.      *)
SpongeByte(p) == IF nphase = "squeezing" THEN XofByte(nmsg, p) ELSE Garbage

(* A buffer of n bytes whose first w bytes received stream bytes from    *)
(* position p + 1 on.                                                    *)
Filled(n, w, p) == [i \in 1 .. n |-> IF i <= w THEN SpongeByte(p + i) ELSE Old]

Result(op, rc, out) == [op |-> op, rc |-> rc, out |-> out]

NativeReset ==
    /\ nmsg' = <<>>
    /\ nphase' = "absorbing"
    /\ npos' = 0

GhostReset ==
    /\ fed' = <<>>
    /\ taken' = 0
    /\ proto' = "Initialized"

-----------------------------------------------------------------------------
Init ==
    /\ shake = "none"
    /\ nmsg = <<>>
    /\ nphase = "absorbing"
    /\ npos = 0
    /\ fed = <<>>
    /\ taken = 0
    /\ proto = "Initialized"
    /\ last = Result("none", "Ok", <<>>)

(* new(): wc_InitShake* into a MaybeUninit. *)
New(a) ==
    /\ shake = "none"
    /\ \/ /\ shake' = a
          /\ NativeReset
          /\ GhostReset
          /\ last' = Result("new", "Ok", <<>>)
       \/ /\ last' = Result("new", "Err", <<>>)
          /\ UNCHANGED <<shake, nmsg, nphase, npos, fed, taken, proto>>

(* init(): wc_InitShake* over the live struct, in whatever phase. *)
Reinit ==
    /\ shake # "none"
    /\ \/ /\ NativeReset
          /\ GhostReset
          /\ last' = Result("init", "Ok", <<>>)
       \/ /\ last' = Result("init", "Err", <<>>)
          /\ UNCHANGED <<nmsg, nphase, npos, fed, taken, proto>>
    /\ UNCHANGED shake

(* update(data): wc_Shake*_Update; into a padded state it garbles it. *)
Update(d) ==
    /\ shake # "none"
    /\ Len(fed) + Len(d) <= MaxFed
    /\ \/ /\ IF nphase = "absorbing"
             THEN nmsg' = nmsg \o Native(d) /\ UNCHANGED nphase
             ELSE nphase' = "garbled" /\ UNCHANGED nmsg
          /\ fed' = fed \o d
          /\ proto' = IF proto = "Initialized" THEN "Initialized" ELSE "Misused"
          /\ last' = Result("update", "Ok", <<>>)
          /\ UNCHANGED <<npos, taken>>
       \/ /\ last' = Result("update", "Err", <<>>)
          /\ UNCHANGED <<nmsg, nphase, npos, fed, taken, proto>>
    /\ UNCHANGED shake

(* absorb(data): wc_Shake*_Absorb, i.e. Update and then the padding. *)
Absorb(d) ==
    /\ shake # "none"
    /\ Len(fed) + Len(d) <= MaxFed
    /\ \/ /\ IF nphase = "absorbing"
             THEN nmsg' = nmsg \o Native(d) /\ nphase' = "squeezing"
             ELSE nphase' = "garbled" /\ UNCHANGED nmsg
          /\ npos' = 0
          /\ fed' = fed \o d
          /\ proto' = IF proto = "Initialized" THEN "Absorbed" ELSE "Misused"
          /\ last' = Result("absorb", "Ok", <<>>)
          /\ UNCHANGED taken
       \/ /\ last' = Result("absorb", "Err", <<>>)
          /\ UNCHANGED <<nmsg, nphase, npos, fed, taken, proto>>
    /\ UNCHANGED shake

(* Mutants: squeeze_blocks() that passes the byte count as the block     *)
(* count, and one that asks for one block fewer than the buffer holds.    *)
SqueezeBytesAsBlocks(n) ==
    /\ shake # "none"
    /\ LET b == BlockSize[shake]
           w == AsU32(n)
       IN  \/ /\ w % b # 0
              /\ last' = Result("squeeze", "BUFFER_E", [i \in 1 .. n |-> Old])
              /\ UNCHANGED <<nmsg, nphase, npos, fed, taken, proto>>
           \/ /\ w % b = 0
              /\ taken + n <= MaxSqueeze
              /\ last' = Result("squeeze", "Ok", Filled(n, w, npos * b))
              /\ npos' = npos + w
              /\ nphase' = IF nphase = "absorbing" /\ w > 0 THEN "garbled" ELSE nphase
              /\ taken' = taken + n
              /\ proto' = IF proto = "Absorbed" THEN "Absorbed" ELSE "Misused"
              /\ UNCHANGED <<nmsg, fed>>
    /\ UNCHANGED shake

SqueezeOneBlockShort(n) ==
    /\ shake # "none"
    /\ LET b == BlockSize[shake]
           w == AsU32(n)
       IN  \/ /\ w % b # 0
              /\ last' = Result("squeeze", "BUFFER_E", [i \in 1 .. n |-> Old])
              /\ UNCHANGED <<nmsg, nphase, npos, fed, taken, proto>>
           \/ /\ w % b = 0
              /\ taken + n <= MaxSqueeze
              /\ last' = Result("squeeze", "Ok", Filled(n, w - b, npos * b))
              /\ npos' = npos + w \div b - 1
              /\ nphase' = IF nphase = "absorbing" /\ w > 0 THEN "garbled" ELSE nphase
              /\ taken' = taken + n
              /\ proto' = IF proto = "Absorbed" THEN "Absorbed" ELSE "Misused"
              /\ UNCHANGED <<nmsg, fed>>
    /\ UNCHANGED shake

(* squeeze_blocks(dout): BUFFER_E unless `dout.len() as u32` is a multiple *)
(* of the block size; then that many blocks from the native sponge.        *)
SqueezeBlocks(n) ==
    /\ shake # "none"
    /\ LET b == BlockSize[shake]
           w == AsU32(n)
       IN  \/ /\ w % b # 0
              /\ last' = Result("squeeze", "BUFFER_E", [i \in 1 .. n |-> Old])
              /\ UNCHANGED <<nmsg, nphase, npos, fed, taken, proto>>
           \/ /\ w % b = 0
              /\ taken + n <= MaxSqueeze
              /\ \/ /\ last' = Result("squeeze", "Ok", Filled(n, w, npos * b))
                    /\ npos' = npos + w \div b
                    /\ nphase' = IF nphase = "absorbing" /\ w > 0
                                 THEN "garbled" ELSE nphase
                    /\ taken' = taken + n
                    /\ proto' = IF proto = "Absorbed" THEN "Absorbed" ELSE "Misused"
                    /\ UNCHANGED <<nmsg, fed>>
                 \/ /\ last' = Result("squeeze", "Err", [i \in 1 .. n |-> Old])
                    /\ UNCHANGED <<nmsg, nphase, npos, fed, taken, proto>>
    /\ UNCHANGED shake

(* finalize(hash): wc_Shake*_Final of `hash.len() as u32` bytes, which   *)
(* pads, squeezes and re-initialises the native state.                   *)
Finalize(n) ==
    /\ shake # "none"
    /\ \/ /\ last' = Result("finalize", "Ok",
                            [i \in 1 .. n |-> IF i > AsU32(n) THEN Old
                                              ELSE IF nphase = "absorbing"
                                                   THEN XofByte(nmsg, i)
                                                   ELSE Garbage])
          /\ NativeReset
          /\ fed' = <<>>
          /\ taken' = 0
          /\ proto' = "Initialized"
       \/ /\ last' = Result("finalize", "Err", [i \in 1 .. n |-> Old])
          /\ UNCHANGED <<nmsg, nphase, npos, fed, taken, proto>>
    /\ UNCHANGED shake

(* Drop: wc_Shake*_Free. *)
Drop ==
    /\ shake # "none"
    /\ shake' = "none"
    /\ NativeReset
    /\ GhostReset
    /\ last' = Result("drop", "Ok", <<>>)

HandleOf(a) ==
    \/ New(a)
    \/ /\ shake = a
       /\ \/ Reinit
          \/ \E d \in Data : Update(d) \/ Absorb(d)
          \/ \E n \in 0 .. MaxOut : SqueezeBlocks(n) \/ Finalize(n)
          \/ Drop

SHAKE128Handle == HandleOf("SHAKE128")
SHAKE256Handle == HandleOf("SHAKE256")

Next == SHAKE128Handle \/ SHAKE256Handle

Spec == Init /\ [][Next]_vars

-----------------------------------------------------------------------------
TypeOK ==
    /\ shake \in Variants \cup {"none"}
    /\ nmsg \in Seq(Bytes)
    /\ nphase \in {"absorbing", "squeezing", "garbled"}
    /\ npos \in Nat
    /\ fed \in Seq(Bytes)
    /\ taken \in Nat
    /\ proto \in {"Initialized", "Absorbed", "Misused"}
    /\ last.op \in {"none", "new", "init", "update", "absorb", "squeeze",
                    "finalize", "drop"}
    /\ last.rc \in {"Ok", "Err", "BUFFER_E"}

(* A caller who keeps to the spec's sequence gets the XOF of its input:   *)
(* a successful squeeze_blocks() after the one absorb() fills the whole   *)
(* buffer with the next bytes of the XOF of everything fed, so that       *)
(* squeezing twice yields what one squeeze of the joint length would; and *)
(* a successful finalize() before any absorb() fills the whole buffer     *)
(* with the XOF of everything fed since the last restart.                 *)
ProtocolOutputIsXof ==
    [][ last'.rc = "Ok" =>
          /\ (last'.op = "squeeze" /\ proto = "Absorbed") =>
                last'.out = [i \in 1 .. Len(last'.out) |-> XofByte(fed, taken + i)]
          /\ (last'.op = "finalize" /\ proto = "Initialized") =>
                last'.out = [i \in 1 .. Len(last'.out) |-> XofByte(fed, i)] ]_vars

(* squeeze_blocks() succeeds only on a buffer whose length is a multiple *)
(* of the block size, as the spec requires.                              *)
SqueezeLengthChecked ==
    [][ last'.op = "squeeze" /\ last'.rc = "Ok" =>
          Len(last'.out) % BlockSize[shake] = 0 ]_vars
=============================================================================
