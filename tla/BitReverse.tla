----------------------------- MODULE BitReverse -----------------------------
(***************************************************************************)
(* BR(x, domainPow) of rust-rapidsnark/rapidsnark/src/fft.cpp, the index   *)
(* map of reversePermutation: BRCode is the code's five mask-and-shift     *)
(* steps on a uint64_t, with a word as the set of its 1 bits; BR is a     *)
(* closed form of it that TLC evaluates fast.                              *)
(***************************************************************************)
EXTENDS Naturals, FiniteSets, FiniteSetsExt

\* The 1 bits of x < 2^31, and the value of a set of bit positions.
Bits(x)  == {p \in 0 .. 30 : (x \div 2^p) % 2 = 1}
Value(X) == MapThenSumSet(LAMBDA p : 2^p, X)

\* x >> k and x << k on a uint64_t (bits shifted past 63 are lost).
Shr(X, k) == {p - k : p \in {q \in X : q >= k}}
Shl(X, k) == {p + k : p \in {q \in X : q + k < 64}}

\* The constants 0xAAAAAAAA, 0xCCCCCCCC, 0xF0F0F0F0, 0xFF00FF00 for w = 1, 2,
\* 4, 8, and their complements in 32 bits 0x55555555 ... 0x00FF00FF.
HiMask(w) == {p \in 0 .. 31 : (p \div w) % 2 = 1}
LoMask(w) == (0 .. 31) \ HiMask(w)

\* x = ((x & hi) >> w) | ((x & lo) << w)
SwapGroups(X, w) == Shr(X \cap HiMask(w), w) \cup Shl(X \cap LoMask(w), w)

\* Mutant: the final shift is by 31 - domainPow.
BRCode_ShiftOffByOne(x, domainPow) ==
  LET x1 == Shr(Bits(x), 16) \cup Shl(Bits(x), 16)
      x5 == SwapGroups(SwapGroups(SwapGroups(SwapGroups(x1, 8), 4), 2), 1)
  IN  Value(Shr(x5, 31 - domainPow))

BRCode(x, domainPow) ==
  LET x1 == Shr(Bits(x), 16) \cup Shl(Bits(x), 16)
      x5 == SwapGroups(SwapGroups(SwapGroups(SwapGroups(x1, 8), 4), 2), 1)
  IN  Value(Shr(x5, 32 - domainPow))

(***************************************************************************)
(* The same map in closed form, for the FFT module, whose liveness         *)
(* checking evaluates it on every edge: the five swaps of bit groups of    *)
(* width 16, 8, 4, 2 and 1 move bit p to bit 31 - p, then the right shift  *)
(* by 32 - domainPow keeps the bits that land at or above 32 - domainPow.  *)
(* The indices are below 2^31 (n is at most 2^s <= 2^28 for BN254).  The   *)
(* FFT module assumes, and TLC checks before every FFT run, that it        *)
(* agrees with BRCode on every index of the table.                         *)
(***************************************************************************)
RECURSIVE BRFrom(_, _, _)
BRFrom(x, domainPow, p) ==
  IF p > 30 THEN 0
  ELSE (IF (x \div 2^p) % 2 = 1 /\ 31 - p >= 32 - domainPow
          THEN 2^((31 - p) - (32 - domainPow)) ELSE 0)
       + BRFrom(x, domainPow, p + 1)

BR(x, domainPow) == BRFrom(x, domainPow, 0)
=============================================================================
