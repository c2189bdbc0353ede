------------------------------ MODULE GetChunk ------------------------------
(***************************************************************************)
(* Window extraction of the Pippenger multiexp: ParallelMultiexp::getChunk *)
(* (rust-rapidsnark/rapidsnark/src/multiexp.cpp).                          *)
(*                                                                         *)
(* The scalars argument of multiexp is one contiguous little-endian byte   *)
(* buffer, scalarSize bytes per scalar.  A buffer is represented by the    *)
(* set of the positions of its bits that are 1: bit p of the buffer is bit *)
(* p % 8 of byte p \div 8.  A scalar alone is the set of its 1 bits,       *)
(* numbered from 0 within the scalar.                                      *)
(*                                                                         *)
(* getChunk loads 8 bytes as a little-endian uint64, shifts it right and   *)
(* masks it.  The load is modelled by what it does: bit j of the loaded    *)
(* word is buffer bit 8 * (first byte) + j, for j < 64.                    *)
(***************************************************************************)
EXTENDS Naturals, FiniteSetsExt

CONSTANTS
  MinChunkBits,   \* PME2_MIN_CHUNK_SIZE_BITS
  MaxChunkBits    \* PME2_MAX_CHUNK_SIZE_BITS

\* Number of windows of a scalar: nChunks in multiexp().
NChunks(scalarSize, bitsPerChunk) == ((scalarSize * 8 - 1) \div bitsPerChunk) + 1

\* The value of a set of bit positions read as a binary number.
BitsValue(J) == MapThenSumSet(LAMBDA j : 2^j, J)

(***************************************************************************)
(* The first byte getChunk loads.  scalarSize - 8 is unsigned in the code: *)
(* when scalarSize < 8 it wraps to a huge value and the clamp never        *)
(* applies.                                                                *)
(***************************************************************************)
ByteStart(bitStart, scalarSize) ==
  IF scalarSize >= 8 /\ bitStart \div 8 > scalarSize - 8
    THEN scalarSize - 8 ELSE bitStart \div 8

\* getChunk(scalarIdx, chunkIdx) on buffer buf, shift taken from bitStart alone.
GetChunkOf_ShiftMod8(buf, scalarIdx, chunkIdx, scalarSize, bitsPerChunk) ==
  LET bitStart  == chunkIdx * bitsPerChunk
      byteStart == ByteStart(bitStart, scalarSize)
      effective == IF bitStart + bitsPerChunk > scalarSize * 8
                     THEN scalarSize * 8 - bitStart ELSE bitsPerChunk
      shift     == bitStart % 8
      loadBit0  == 8 * (scalarIdx * scalarSize + byteStart)
  IN  BitsValue({j \in 0 .. effective - 1 :
                   shift + j < 64 /\ loadBit0 + shift + j \in buf})

\* getChunk(scalarIdx, chunkIdx) on buffer buf.
GetChunkOf(buf, scalarIdx, chunkIdx, scalarSize, bitsPerChunk) ==
  LET bitStart  == chunkIdx * bitsPerChunk
      byteStart == ByteStart(bitStart, scalarSize)
      effective == IF bitStart + bitsPerChunk > scalarSize * 8
                     THEN scalarSize * 8 - bitStart ELSE bitsPerChunk
      shift     == bitStart - byteStart * 8
      loadBit0  == 8 * (scalarIdx * scalarSize + byteStart)
  IN  BitsValue({j \in 0 .. effective - 1 :
                   shift + j < 64 /\ loadBit0 + shift + j \in buf})

\* The bytes [first, last] of the buffer that getChunk loads.
LoadedBytes(scalarIdx, chunkIdx, scalarSize, bitsPerChunk) ==
  LET byteStart == ByteStart(chunkIdx * bitsPerChunk, scalarSize)
  IN  [first |-> scalarIdx * scalarSize + byteStart,
       last  |-> scalarIdx * scalarSize + byteStart + 7]

(***************************************************************************)
(* Reference: window c of width b of scalar S, the spec's definition: bit  *)
(* c * b + j of the scalar is bit j of the window, and the bits past the   *)
(* end of the scalar read as zero.                                         *)
(***************************************************************************)
WindowDigit(S, c, b) == BitsValue({j \in 0 .. b - 1 : c * b + j \in S})

=============================================================================
