-------------------------------- MODULE FFT --------------------------------
(***************************************************************************)
(* FFT<Field>::fft and FFT<Field>::ifft of                                 *)
(* rust-rapidsnark/rapidsnark/src/fft.cpp on a table built by the          *)
(* constructor, with the GPU dispatch that precedes them                   *)
(* (icicle_adapter.cpp ntt_forward/ntt_inverse) as a call that succeeds    *)
(* or fails.                                                               *)
(*                                                                         *)
(* Data: the scalar field Fr of BN254 is replaced by a small prime field   *)
(* F_P whose P - 1 has a power of two as divisor, so that the constructor  *)
(* finds its non-residue and roots exactly as the code does.  Every        *)
(* parallel region (tbb::parallel_for) is modelled by its iterations: a    *)
(* thread takes any iteration left and runs it as a Begin step that reads  *)
(* the elements it uses and an End step that writes them; the region ends  *)
(* at a barrier when none is left and every thread is idle.                *)
(***************************************************************************)
EXTENDS Naturals, FiniteSets, FiniteSetsExt, FFTField, BitReverse

CONSTANTS
  NThreads,       \* worker threads of the tbb arena
  Vectors,        \* the input vectors of the calls: functions 0 .. n-1 -> 0 .. P-1
  GpuPresent      \* built with USE_ICICLE_GPU

Threads == 0 .. NThreads - 1
NoIter  == [i |-> -1]

-----------------------------------------------------------------------------
VARIABLES
  pc,      \* "idle", "gpu_inv", "gpu_fwd", "bitrev", "stage", "iswap", "done"
  op,      \* "fft" or "ifft": the call in progress
  inp,     \* the vector the call was given
  a,       \* the vector being transformed in place
  stage,   \* the butterfly stage s of fft
  todo,    \* iterations of the current parallel region not yet taken
  busy     \* thread -> the iteration it is running, with what it read

vars == <<pc, op, inp, a, stage, todo, busy>>

N  == Cardinality(DOMAIN inp)
Dp == Log2(N)

\* The closed form BR is the code's BR on every index the permutation can
\* pass, for every domainPow of the table (checked when the model is loaded).
ASSUME BRIsCode ==
  \A p \in 0 .. DomainPow, x \in 0 .. 2^DomainPow - 1 : BR(x, p) = BRCode(x, p)

Init ==
  /\ pc = "idle"
  /\ op = "fft"
  /\ inp = CHOOSE v \in Vectors : TRUE
  /\ a = inp
  /\ stage = 0
  /\ todo = {}
  /\ busy = [t \in Threads |-> NoIter]

Idle(t) == busy[t] = NoIter
RegionDone == todo = {} /\ \A t \in Threads : Idle(t)

\* The reference transforms of a vector of size n, with omega = roots[2^s / n].
OmegaOf(n) == Roots[NRoots \div n]
Dft(v) ==
  LET w == OmegaOf(Cardinality(DOMAIN v))
  IN  [i \in DOMAIN v |-> MapThenSumSet(LAMBDA j : FMul(v[j], PowMod(w, i * j)), DOMAIN v) % P]
InvDft(v) ==
  LET n == Cardinality(DOMAIN v)
      w == OmegaOf(n)
  IN  [i \in DOMAIN v |->
         FMul(PowTwoInv[Log2(n)],
              MapThenSumSet(LAMBDA j : FMul(v[j], PowMod(w, (n - i) * j)), DOMAIN v) % P)]

\* A caller calls fft or ifft on a vector.
Call(o, v) ==
  /\ pc \in {"idle", "done"}
  /\ op' = o /\ inp' = v /\ a' = v
  /\ pc' = CASE GpuPresent /\ o = "ifft" -> "gpu_inv"
             [] GpuPresent                -> "gpu_fwd"
             [] OTHER                     -> "bitrev"
  /\ todo' = IF GpuPresent THEN {} ELSE DOMAIN v
  /\ UNCHANGED <<stage, busy>>

\* ntt_forward and ntt_inverse refuse a size that is not a nonzero power of two.
NttSizeOk == N # 0 /\ \E k \in 0 .. N : 2^k = N

\* The end of fft: ifft goes on to its swap and scaling loop.
FftReturns ==
  IF op = "ifft" THEN pc' = "iswap" /\ todo' = 1 .. (N \div 2) - 1
  ELSE pc' = "done" /\ todo' = {}

(***************************************************************************)
(* ntt_forward: on success the device leaves the natural-order transform   *)
(* in a; on failure (initialize, domain or kernel) fft runs on the CPU.    *)
(***************************************************************************)
\* Mutant: reversePermutation's loop runs over [0, n] instead of [0, n).
GpuForward_BitrevPastEnd ==
  /\ pc = "gpu_fwd"
  /\ \/ /\ NttSizeOk /\ a' = Dft(a)
        /\ FftReturns
     \/ /\ pc' = "bitrev" /\ todo' = 0 .. N
        /\ UNCHANGED a
  /\ UNCHANGED <<op, inp, stage, busy>>

\* Mutant: a successful device transform returns from ifft as well.
GpuForward_ReturnDone ==
  /\ pc = "gpu_fwd"
  /\ \/ /\ NttSizeOk /\ a' = Dft(a)
        /\ pc' = "done" /\ todo' = {}
     \/ /\ pc' = "bitrev" /\ todo' = 0 .. N - 1
        /\ UNCHANGED a
  /\ UNCHANGED <<op, inp, stage, busy>>

GpuForward ==
  /\ pc = "gpu_fwd"
  /\ \/ /\ NttSizeOk /\ a' = Dft(a)
        /\ FftReturns
     \/ /\ pc' = "bitrev" /\ todo' = 0 .. N - 1
        /\ UNCHANGED a
  /\ UNCHANGED <<op, inp, stage, busy>>

\* ntt_inverse: on failure ifft calls fft, which tries ntt_forward first.
GpuInverse ==
  /\ pc = "gpu_inv"
  /\ \/ /\ NttSizeOk /\ a' = InvDft(a) /\ pc' = "done"
     \/ /\ pc' = "gpu_fwd" /\ UNCHANGED a
  /\ UNCHANGED <<op, inp, stage, todo, busy>>

(***************************************************************************)
(* reversePermutation, iteration i: r = BR(i, domainPow); if i > r swap    *)
(* a[i] and a[r] through tmp.                                              *)
(***************************************************************************)
\* Mutant: swapping whenever i # r, so that both i and r swap the pair.
BitrevBegin_BothWays(t, i) ==
  /\ pc = "bitrev" /\ Idle(t) /\ i \in todo
  /\ todo' = todo \ {i}
  /\ LET r == BR(i, Dp)
     IN  IF i # r THEN busy' = [busy EXCEPT ![t] = [i |-> i, r |-> r, vi |-> a[i], vr |-> a[r]]]
         ELSE UNCHANGED busy
  /\ UNCHANGED <<pc, op, inp, a, stage>>

BitrevBegin(t, i) ==
  /\ pc = "bitrev" /\ Idle(t) /\ i \in todo
  /\ todo' = todo \ {i}
  /\ LET r == BR(i, Dp)
     IN  IF i > r THEN busy' = [busy EXCEPT ![t] = [i |-> i, r |-> r, vi |-> a[i], vr |-> a[r]]]
         ELSE UNCHANGED busy
  /\ UNCHANGED <<pc, op, inp, a, stage>>

BitrevEnd(t) ==
  /\ pc = "bitrev" /\ ~Idle(t)
  /\ a' = [a EXCEPT ![busy[t].i] = busy[t].vr, ![busy[t].r] = busy[t].vi]
  /\ busy' = [busy EXCEPT ![t] = NoIter]
  /\ UNCHANGED <<pc, op, inp, stage, todo>>

(***************************************************************************)
(* After the permutation: the stages s = 1 .. domainPow, or none when      *)
(* n = 1.  reversePermutation and fft first compute domainPow = log2(n),   *)
(* whose loop while (n != 1) n >>= 1 never ends for n = 0 (the assert     *)
(* n != 0 is compiled out with NDEBUG): for n = 0 the call never gets      *)
(* past this point.                                                        *)
(***************************************************************************)
BitrevDone ==
  /\ pc = "bitrev" /\ N # 0 /\ RegionDone
  /\ IF Dp >= 1
       THEN pc' = "stage" /\ stage' = 1 /\ todo' = 0 .. (N \div 2) - 1
       ELSE FftReturns /\ UNCHANGED stage
  /\ UNCHANGED <<op, inp, a, busy>>

(***************************************************************************)
(* Stage s, butterfly i: k = (i / mdiv2) * m, j = i % mdiv2,               *)
(* t = root(s, j) * a[k+j+mdiv2], u = a[k+j]; a[k+j] = u + t,              *)
(* a[k+j+mdiv2] = u - t.                                                   *)
(***************************************************************************)
ButterflyBegin(t, i) ==
  /\ pc = "stage" /\ Idle(t) /\ i \in todo
  /\ todo' = todo \ {i}
  /\ LET m     == 2^stage
         mdiv2 == m \div 2
         k     == (i \div mdiv2) * m
         j     == i % mdiv2
     IN  busy' = [busy EXCEPT ![t] =
                    [i |-> i, lo |-> k + j, hi |-> k + j + mdiv2,
                     t |-> FMul(Root(stage, j), a[k + j + mdiv2]), u |-> a[k + j]]]
  /\ UNCHANGED <<pc, op, inp, a, stage>>

ButterflyEnd(t) ==
  /\ pc = "stage" /\ ~Idle(t)
  /\ LET it == busy[t]
     IN  a' = [a EXCEPT ![it.lo] = FAdd(it.u, it.t), ![it.hi] = FSub(it.u, it.t)]
  /\ busy' = [busy EXCEPT ![t] = NoIter]
  /\ UNCHANGED <<pc, op, inp, stage, todo>>

\* Mutant: the stage loop does not advance s.
StageDone_NoAdvance ==
  /\ pc = "stage" /\ RegionDone
  /\ IF stage < Dp
       THEN pc' = "stage" /\ stage' = stage /\ todo' = 0 .. (N \div 2) - 1
       ELSE FftReturns /\ UNCHANGED stage
  /\ UNCHANGED <<op, inp, a, busy>>

StageDone ==
  /\ pc = "stage" /\ RegionDone
  /\ IF stage < Dp
       THEN pc' = "stage" /\ stage' = stage + 1 /\ todo' = 0 .. (N \div 2) - 1
       ELSE FftReturns /\ UNCHANGED stage
  /\ UNCHANGED <<op, inp, a, busy>>

(***************************************************************************)
(* ifft after fft, iteration i of [1, n/2): r = n - i; a[i] = a[r] *       *)
(* powTwoInv[domainPow], a[r] = old a[i] * powTwoInv[domainPow].           *)
(***************************************************************************)
ISwapBegin(t, i) ==
  /\ pc = "iswap" /\ Idle(t) /\ i \in todo
  /\ todo' = todo \ {i}
  /\ busy' = [busy EXCEPT ![t] = [i |-> i, r |-> N - i, vi |-> a[i], vr |-> a[N - i]]]
  /\ UNCHANGED <<pc, op, inp, a, stage>>

ISwapEnd(t) ==
  /\ pc = "iswap" /\ ~Idle(t)
  /\ LET it == busy[t]
     IN  a' = [a EXCEPT ![it.i] = FMul(it.vr, PowTwoInv[Dp]),
                        ![it.r] = FMul(it.vi, PowTwoInv[Dp])]
  /\ busy' = [busy EXCEPT ![t] = NoIter]
  /\ UNCHANGED <<pc, op, inp, stage, todo>>

\* Then a[0] and a[n/2] are scaled (the same element twice when n = 1).
ISwapDone ==
  /\ pc = "iswap" /\ RegionDone
  /\ LET a1 == [a EXCEPT ![0] = FMul(@, PowTwoInv[Dp])]
     IN  a' = [a1 EXCEPT ![N \div 2] = FMul(@, PowTwoInv[Dp])]
  /\ pc' = "done"
  /\ UNCHANGED <<op, inp, stage, todo, busy>>

Next ==
  \/ \E o \in {"fft", "ifft"}, v \in Vectors : Call(o, v)
  \/ GpuForward \/ GpuInverse
  \/ \E t \in Threads :
       \/ \E i \in todo : BitrevBegin(t, i) \/ ButterflyBegin(t, i) \/ ISwapBegin(t, i)
       \/ BitrevEnd(t) \/ ButterflyEnd(t) \/ ISwapEnd(t)
  \/ BitrevDone \/ StageDone \/ ISwapDone

\* As for multiexp: tbb completes every parallel_for and the calling thread
\* runs the serial steps; callers are not obliged to call.
Fairness ==
  /\ \A t \in Threads :
       /\ WF_vars(\E i \in todo : BitrevBegin(t, i) \/ ButterflyBegin(t, i) \/ ISwapBegin(t, i))
       /\ WF_vars(BitrevEnd(t) \/ ButterflyEnd(t) \/ ISwapEnd(t))
  /\ WF_vars(GpuForward \/ GpuInverse \/ BitrevDone \/ StageDone \/ ISwapDone)

Spec == Init /\ [][Next]_vars /\ Fairness

-----------------------------------------------------------------------------
(* Properties *)

TypeOK ==
  /\ pc \in {"idle", "gpu_inv", "gpu_fwd", "bitrev", "stage", "iswap", "done"}
  /\ op \in {"fft", "ifft"}
  /\ inp \in Vectors
  /\ a \in [DOMAIN inp -> 0 .. P - 1]
  /\ stage \in 0 .. S
  /\ todo \subseteq DOMAIN inp
  /\ \A t \in Threads : Idle(t) \/ busy[t].i \in DOMAIN inp

(***************************************************************************)
(* No data race: the iterations two threads run at the same time touch     *)
(* disjoint elements of a: the pairs {i, BR(i)} of the permutation, the    *)
(* butterfly pairs of a stage and the pairs {i, n - i} of ifft partition   *)
(* the vector.                                                             *)
(***************************************************************************)
Footprint(t) ==
  IF Idle(t) THEN {}
  ELSE IF pc = "stage" THEN {busy[t].lo, busy[t].hi}
  ELSE {busy[t].i, busy[t].r}

NoDataRace ==
  \A t, u \in Threads : t # u => Footprint(t) \cap Footprint(u) = {}

(***************************************************************************)
(* A completed fft leaves in a the transform sum_j v[j] * omega^(i*j) of   *)
(* its input and a completed ifft leaves the inverse transform, whichever  *)
(* of the GPU and CPU paths (or the mix of them ifft can take) ran, and    *)
(* under every interleaving of the threads.                                *)
(***************************************************************************)
NttCorrect ==
  pc = "done" => a = IF op = "fft" THEN Dft(inp) ELSE InvDft(inp)

(***************************************************************************)
(* fft and ifft require n = 2^k with k <= s, and a call outside that      *)
(* domain is a precondition failure reported to the caller (spec 6 and    *)
(* 7): a call returns normally only for a size of the domain.  The code   *)
(* checks nothing before the permutation; the model is the build with     *)
(* NDEBUG, where the assert after it is compiled out.                     *)
(***************************************************************************)
DomainChecked == pc = "done" => \E k \in 0 .. S : 2^k = N

\* The result a call of fft or ifft must return, tabulated once for all calls.
NttTable == [x \in {"fft", "ifft"} \X Vectors |->
               IF x[1] = "fft" THEN Dft(x[2]) ELSE InvDft(x[2])]
NttOf(x) == NttTable[x]

(***************************************************************************)
(* The engine seen from its caller: the call is busy from fft or ifft      *)
(* until it returns, its arguments are the op and the input vector, and    *)
(* its result is a once pc is "done" (the vector is transformed in place). *)
(***************************************************************************)
Transform == INSTANCE BlockingCall WITH
  Args     <- {"fft", "ifft"} \X Vectors,
  Result   <- NttOf,
  NoResult <- <<>>,
  status   <- CASE pc = "idle" -> "idle" [] pc = "done" -> "done" [] OTHER -> "busy",
  arg      <- <<op, inp>>,
  out      <- IF pc = "done" THEN a ELSE <<>>

(***************************************************************************)
(* fft and ifft implement a blocking call: each call, on the GPU, on the   *)
(* CPU or on the mix ifft can take, returns once with the transform of the *)
(* arguments it was given, nothing else changes what the caller sees, and *)
(* every call returns: every region ends and the stage loop terminates     *)
(* (Returns, the abstract spec's fairness).                                *)
(***************************************************************************)
TransformRefinement == Transform!SafeSpec /\ Transform!Returns
=============================================================================
