------------------------------ MODULE Uniform -------------------------------
(* arc4random_uniform: which of the 2^32 values are rejected, and what the *)
(* others stand for. UWord is 2^32, scaled.                                *)
EXTENDS Naturals, FiniteSets

CONSTANT UWord

\* Mutant: nothing is rejected.
LowestTakenNone(upper) == 0

(* min = -upper_bound % upper_bound                                        *)
LowestTaken(upper) == (UWord - upper) % upper

RandomUniform(upper) ==
  IF upper < 2 THEN [r \in 0 .. UWord - 1 |-> 0]
  ELSE [r \in LowestTaken(upper) .. UWord - 1 |-> r % upper]

(* Below the bound, every number equally often, and not half of the values *)
(* rejected.                                                               *)
Unbiased(upper, of) ==
  LET times(x) == Cardinality({r \in DOMAIN of : of[r] = x})
      numbers == 0 .. (IF upper = 0 THEN 0 ELSE upper - 1)
  IN /\ \A x, y \in numbers : times(x) = times(y)
     /\ \A r \in DOMAIN of : of[r] \in numbers
     /\ 2 * Cardinality(DOMAIN of) > UWord
=============================================================================
