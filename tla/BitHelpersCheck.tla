-------------------------- MODULE BitHelpersCheck --------------------------
(***************************************************************************)
(* The two bit-level helpers of the engines checked against their          *)
(* reference definitions over bounded inputs:                              *)
(*   - getChunk (GetChunk) against the window of the spec, for every       *)
(*     scalarSize of ScalarSizes, every bitsPerChunk multiexp can choose   *)
(*     and every chunk index;                                              *)
(*   - BRCode (BitReverse) against the reversal of the low                 *)
(*     domainPow bits, for every domainPow up to MaxPow and every index    *)
(*     reversePermutation passes it.                                       *)
(* The variables only enumerate the inputs.  A step chooses the inputs of  *)
(* one helper and puts those of the other back to a fixed rest value, so   *)
(* the two input sets are enumerated side by side, not as a product.       *)
(***************************************************************************)
EXTENDS GetChunk, BitReverse

CONSTANTS
  ScalarSizes,   \* the scalarSize arguments checked (bytes per scalar)
  MaxPow         \* the largest domainPow checked

VARIABLES scalarSize, bitsPerChunk, chunkIdx, domainPow, x
chunkVars == <<scalarSize, bitsPerChunk, chunkIdx>>
brVars    == <<domainPow, x>>
vars      == <<chunkVars, brVars>>

\* Rest values: the first window of the smallest scalar size, index 0 of the empty domain.
ChunkRest == /\ scalarSize = Min(ScalarSizes)
             /\ bitsPerChunk = MinChunkBits
             /\ chunkIdx = 0
BRRest    == domainPow = 0 /\ x = 0

Init == ChunkRest /\ BRRest

\* A call getChunk(1, chunkIdx) of a ParallelMultiexp built for scalarSize, bitsPerChunk.
ChooseChunk ==
  /\ scalarSize' \in ScalarSizes
  /\ bitsPerChunk' \in MinChunkBits .. MaxChunkBits
  /\ chunkIdx' \in 0 .. NChunks(scalarSize', bitsPerChunk') - 1
  /\ domainPow' = 0 /\ x' = 0

\* A call BR(x, domainPow) of reversePermutation.
ChooseIndex ==
  /\ domainPow' \in 0 .. MaxPow
  /\ x' \in 0 .. 2^domainPow' - 1
  /\ scalarSize' = Min(ScalarSizes)
  /\ bitsPerChunk' = MinChunkBits
  /\ chunkIdx' = 0

Next == ChooseChunk \/ ChooseIndex

Spec == Init /\ [][Next]_vars

(***************************************************************************)
(* getChunk returns exactly window chunkIdx of scalar 1 of a three-scalar  *)
(* buffer, whatever single bit of the buffer is set: no bit of scalar 1 is *)
(* lost or moved, in particular in the last window where byteStart is      *)
(* clamped, and no bit of the neighbouring scalars 0 and 2 leaks in.       *)
(* Single bits suffice: both sides are sums of distinct powers of two over *)
(* the set bits.                                                           *)
(***************************************************************************)
GetChunkMatchesWindow ==
  LET w == 8 * scalarSize
  IN  \A p \in (w - 64) .. (2 * w + 63) :
        GetChunkOf({p}, 1, chunkIdx, scalarSize, bitsPerChunk)
          = IF p \div w = 1
              THEN WindowDigit({p % w}, chunkIdx, bitsPerChunk)
              ELSE 0

(***************************************************************************)
(* The 8-byte load of getChunk stays inside the scalar being read, for     *)
(* every window, as the spec's clamp of byteStart promises for any scalar  *)
(* width W.  Below 8 bytes scalarSize - 8 wraps in uint64_t, the clamp is  *)
(* skipped and the load reads past the scalar (past the buffer, for the    *)
(* last scalar): the narrow configuration checks this property alone.      *)
(***************************************************************************)
LoadWithinScalar ==
  LET r == LoadedBytes(1, chunkIdx, scalarSize, bitsPerChunk)
  IN  /\ r.first >= scalarSize
      /\ r.last <= 2 * scalarSize - 1

\* The reference: the low k bits of i, reversed.
RECURSIVE RevBits(_, _)
RevBits(i, k) == IF k = 0 THEN 0 ELSE (i % 2) * 2^(k - 1) + RevBits(i \div 2, k - 1)

(***************************************************************************)
(* The code's BR reverses the low domainPow bits of every index in         *)
(* [0, 2^domainPow), so it is an involution of that range and              *)
(* reversePermutation's pairs {i, BR(i)} partition it; for domainPow = 0   *)
(* the shift by 32 leaves 0.                                               *)
(***************************************************************************)
CodeBRIsReversal == BRCode(x, domainPow) = RevBits(x, domainPow)
=============================================================================
