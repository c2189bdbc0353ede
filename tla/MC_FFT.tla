-------------------------------- MODULE MC_FFT --------------------------------
EXTENDS FFT

(***************************************************************************)
(* Inputs of length 1, 2, 4 and 8: the unit vectors, which pin down the    *)
(* linear map the code computes, and the ramp 1, 2, ..., n.                *)
(***************************************************************************)
Unit(n, k) == [i \in 0 .. n - 1 |-> IF i = k THEN 1 ELSE 0]
Ramp(n)    == [i \in 0 .. n - 1 |-> i + 1]

VectorsOfSizes(sizes) ==
  UNION {{Unit(n, k) : k \in 0 .. n - 1} \cup {Ramp(n)} : n \in sizes}

MCVectors     == VectorsOfSizes({1, 2, 4, 8})

\* A length that is not a power of two.
MCNonPowerOfTwoVectors == {Ramp(3)}

\* The empty vector, n = 0.
MCEmptyVectors == {Ramp(0)}
=============================================================================
