------------------------------ MODULE Pow2Lemmas ------------------------------
(***************************************************************************)
(* The one arithmetic fact every `len() as u32` cast of the wrapper rests  *)
(* on: the modulus 2^w of a w-bit cast is a positive natural.  Z3 does not *)
(* reason about ^ with a variable exponent, so the fact is obtained from   *)
(* the cardinality of the subsets of 1..w.                                 *)
(***************************************************************************)
EXTENDS Naturals, FiniteSetTheorems, TLAPS

(* The modulus of a w-bit length cast is a positive natural number. *)
LEMMA Pow2Positive ==
    ASSUME NEW w \in Nat
    PROVE  2 ^ w \in Nat \ {0}
<1>1. IsFiniteSet(1 .. w) /\ Cardinality(1 .. w) = w
    BY FS_Interval
<1>2. IsFiniteSet(SUBSET (1 .. w)) /\ Cardinality(SUBSET (1 .. w)) = 2 ^ w
    BY <1>1, FS_SUBSET
<1>3. Cardinality(SUBSET (1 .. w)) \in Nat
    BY <1>2, FS_CardinalityType
<1>4. Cardinality(SUBSET (1 .. w)) # 0
    BY <1>2, FS_EmptySet
<1>5. QED
    BY <1>2, <1>3, <1>4
===============================================================================
