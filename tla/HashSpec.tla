------------------------------ MODULE HashSpec ------------------------------
(***************************************************************************)
(* What a fixed-digest hash handle promises its caller, in the spec's      *)
(* words and without the native state: a handle of one algorithm collects *)
(* the bytes of its successful update()s; finalize() into a buffer of     *)
(* exactly DIGEST_SIZE bytes writes the digest of the concatenation of     *)
(* those bytes and starts over; every failing call (wrong buffer length,  *)
(* native error) writes nothing and changes nothing; init() starts over;  *)
(* dropping the handle ends it.                                            *)
(***************************************************************************)
EXTENDS Naturals, Sequences

CONSTANTS Bytes, MaxData, MaxFed

VARIABLES
    alg,     \* the algorithm of the live handle, or "none"
    input,   \* the bytes fed since the handle was built, reset or finalized
    last     \* the result of the last call and what it wrote to the buffer

absVars == <<alg, input, last>>

DigestLen == [SHA |-> 20, SHA224 |-> 28, SHA256 |-> 32, SHA384 |-> 48,
              SHA512 |-> 64, SHA3_224 |-> 28, SHA3_256 |-> 32,
              SHA3_384 |-> 48, SHA3_512 |-> 64]

Algorithms == DOMAIN DigestLen

Slices == UNION {[1 .. n -> Bytes] : n \in 0 .. MaxData}
Buffers(a) == {DigestLen[a] - 1, DigestLen[a], DigestLen[a] + 1}

NoOutput == [len |-> 0, val |-> <<>>]
DigestOf(a, m) == <<a, m>>
Outcome(op, rc, out) == [op |-> op, rc |-> rc, out |-> out]

(* A call that fails leaves the handle as it was and writes nothing. *)
Fails(op, rcs) ==
    /\ \E rc \in rcs : last' = Outcome(op, rc, NoOutput)
    /\ UNCHANGED <<alg, input>>

AbsInit ==
    /\ alg = "none"
    /\ input = <<>>
    /\ last = Outcome("none", "Ok", NoOutput)

Build(a) ==
    /\ alg = "none"
    /\ \/ /\ alg' = a
          /\ input' = <<>>
          /\ last' = Outcome("new", "Ok", NoOutput)
       \/ Fails("new", {"NATIVE_E"})

Restart ==
    /\ alg # "none"
    /\ \/ /\ input' = <<>>
          /\ last' = Outcome("init", "Ok", NoOutput)
          /\ UNCHANGED alg
       \/ Fails("init", {"NATIVE_E"})

Feed(d) ==
    /\ alg # "none"
    /\ Len(input) + Len(d) <= MaxFed
    /\ \/ /\ input' = input \o d
          /\ last' = Outcome("update", "Ok", NoOutput)
          /\ UNCHANGED alg
       \/ Fails("update", {"NATIVE_E"})

Emit(n) ==
    /\ alg # "none"
    /\ \/ /\ n = DigestLen[alg]
          /\ input' = <<>>
          /\ last' = Outcome("finalize", "Ok", [len |-> n, val |-> DigestOf(alg, input)])
          /\ UNCHANGED alg
       \/ /\ n # DigestLen[alg]
          /\ Fails("finalize", {"BUFFER_E"})
       \/ /\ n = DigestLen[alg]
          /\ Fails("finalize", {"NATIVE_E"})

Close ==
    /\ alg # "none"
    /\ alg' = "none"
    /\ input' = <<>>
    /\ last' = Outcome("drop", "Ok", NoOutput)

AbsNext ==
    \E a \in Algorithms :
        \/ Build(a)
        \/ /\ alg = a
           /\ \/ Restart
              \/ \E d \in Slices : Feed(d)
              \/ \E n \in Buffers(a) : Emit(n)
              \/ Close

AbsSpec == AbsInit /\ [][AbsNext]_absVars
=============================================================================
