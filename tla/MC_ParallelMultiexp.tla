------------------------ MODULE MC_ParallelMultiexp ------------------------
EXTENDS ParallelMultiexp

(***************************************************************************)
(* Calls of the plain variant (nx = 0) and of the masked variant.  Points  *)
(* are elements of Z_Q (0 is the identity).  Scalars are sets of 1 bits   *)
(* of an 8-byte scalar: bit 63 lies in the last window, whose byteStart    *)
(* getChunk clamps; {62, 63} is all ones across that window.  Several      *)
(* points share a bucket in chunk 0 (bucket 2 of the fourth call), so      *)
(* that two threads can fill the same bucket index of their stripes.       *)
(***************************************************************************)
MCInputs ==
  { [bases |-> <<>>, scalars |-> <<>>, nx |-> 0, sizes |-> <<>>],
    [bases |-> <<5>>, scalars |-> <<{0, 2, 63}>>, nx |-> 0, sizes |-> <<>>],
    [bases |-> <<7, 0>>, scalars |-> <<{0, 1, 63}, {3}>>, nx |-> 0, sizes |-> <<>>],
    [bases |-> <<1, 11, 2>>, scalars |-> <<{1}, {1, 2, 40}, {1, 62, 63}>>,
     nx |-> 0, sizes |-> <<>>],
    [bases |-> <<3, 4, 9>>, scalars |-> <<{0, 5}, {1}, {2, 3}>>,
     nx |-> 2, sizes |-> <<1, 2>>] }

(***************************************************************************)
(* Calls for 32-byte scalars (sizeof(FrElement), the size the GPU path     *)
(* accepts): bit 255 is in the last window.                                *)
(***************************************************************************)
MCFrInputs ==
  { [bases |-> <<>>, scalars |-> <<>>, nx |-> 0, sizes |-> <<>>],
    [bases |-> <<5>>, scalars |-> <<{0, 255}>>, nx |-> 0, sizes |-> <<>>],
    [bases |-> <<7, 3>>, scalars |-> <<{1, 254, 255}, {1, 100}>>, nx |-> 0, sizes |-> <<>>] }

\* A masked call whose index 2 lies past its lane (sizes[0] = 1), 32-byte scalars.
MCMaskedFrInputs ==
  { [bases |-> <<3, 4, 9>>, scalars |-> <<{0, 5}, {1}, {2, 3}>>,
     nx |-> 2, sizes |-> <<1, 2>>] }

\* A masked call whose lane 0 has size 0: the spec's rule includes none of it.
MCEmptyLaneInputs ==
  { [bases |-> <<3, 4, 9>>, scalars |-> <<{0, 5}, {1}, {2, 3}>>,
     nx |-> 2, sizes |-> <<0, 2>>] }
=============================================================================
