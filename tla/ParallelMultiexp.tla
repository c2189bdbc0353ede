-------------------------- MODULE ParallelMultiexp --------------------------
(***************************************************************************)
(* ParallelMultiexp<Curve>::multiexp, both variants, of                    *)
(* rust-rapidsnark/rapidsnark/src/multiexp.cpp, with the GPU dispatch that *)
(* precedes it (icicle_adapter.cpp msm_g1/msm_g2) as a call that succeeds  *)
(* or fails.                                                               *)
(*                                                                         *)
(* Data: the curve group (G1 or G2) is abstracted to the cyclic group      *)
(* Z_Q: a point is its discrete logarithm, g.add is + mod Q, g.dbl is      *)
(* 2 * _ mod Q, g.zero is 0.  A scalar is the set of its 1 bits            *)
(* (GetChunk).  Every parallel region (tbb::parallel_for) is modelled by   *)
(* its iterations: a thread takes any iteration left (work stealing) and   *)
(* runs it in two steps, a Begin step that reads the cells it uses and an  *)
(* End step that writes them, so that the reads and writes of different    *)
(* threads interleave.  The region ends at a barrier when no iteration is  *)
(* left and every thread is idle.  A thread's id is                        *)
(* tbb::this_task_arena::current_thread_index(), stable during an          *)
(* iteration.                                                              *)
(***************************************************************************)
EXTENDS Naturals, Sequences, FiniteSets, FiniteSetsExt, GetChunk

CONSTANTS
  NThreads,     \* tbb::this_task_arena::max_concurrency()
  Q,            \* order of the abstract group, a prime
  ScalarSize,   \* the scalarSize argument, in bytes
  FrSize,       \* sizeof(AltBn128::FrElement), the only size the GPU accepts
  PackFactor,   \* PME2_PACK_FACTOR
  Inputs,       \* the calls: [bases, scalars, nx, sizes]; nx = 0 is the plain variant
  GpuPresent    \* built with USE_ICICLE_GPU

ASSUME NThreads \in Nat \ {0} /\ Q \in Nat \ {0} /\ ScalarSize >= 8

Threads == 0 .. NThreads - 1
NoIter  == [i |-> -1]

VARIABLES
  pc,            \* "idle", "cpu", "process", "pack", "reduce", "up", "combine", "done"
  input,         \* the arguments of the current call
  chunk,         \* the chunk loop index i of multiexp
  accs,          \* bucket table: <<thread stripe, bucket>> -> point
  todo,          \* iterations of the current parallel region not yet taken
  busy,          \* thread -> the iteration it is running, with what it read
  sall,          \* reduce's per-thread side sums
  lvl,           \* nBits of the reduce call being executed
  res,           \* the point reduce(lvl) returns, on the way up
  chunkResults,  \* chunk -> reduced point
  r              \* the result argument

vars == <<pc, input, chunk, accs, todo, busy, sall, lvl, res, chunkResults, r>>

-----------------------------------------------------------------------------
(* Group operations of the abstract curve. *)
Add(x, y) == (x + y) % Q

\* 2^k mod Q, by squaring
RECURSIVE Pow2Mod(_)
Pow2Mod(k) ==
  IF k = 0 THEN 1
  ELSE LET h == Pow2Mod(k \div 2)
       IN  ((1 + (k % 2)) * ((h * h) % Q)) % Q

Pow2 == [k \in 0 .. 8 * ScalarSize |-> Pow2Mod(k)]

\* f(lo) + ... + f(hi), split in halves to keep the recursion shallow
RECURSIVE SumRange(_, _, _)
SumRange(f(_), lo, hi) ==
  IF lo > hi THEN 0
  ELSE IF lo = hi THEN f(lo)
  ELSE LET mid == (lo + hi) \div 2
       IN  SumRange(f, lo, mid) + SumRange(f, mid + 1, hi)

\* k successive g.dbl
Dbl(x, k) == (x * Pow2[k]) % Q

\* g.mulByScalar: the scalar with bits S times point x
MulByScalar(x, S) == MapThenSumSet(LAMBDA p : Pow2[p] * x, S) % Q

(* The arguments of the current call, with the code's 0-based indices. *)
N           == Len(input.bases)
Base(i)     == input.bases[i + 1]
Scalar(i)   == input.scalars[i + 1]

\* aptos::log2 (misc.hpp): floor of the base-2 logarithm
RECURSIVE Log2(_)
Log2(x) == IF x <= 1 THEN 0 ELSE 1 + Log2(x \div 2)

BitsPerChunk ==
  LET b == Log2(N \div PackFactor)
  IN  IF b > MaxChunkBits THEN MaxChunkBits
      ELSE IF b < MinChunkBits THEN MinChunkBits ELSE b

NChunk       == NChunks(ScalarSize, BitsPerChunk)
AccsPerChunk == 2^BitsPerChunk

\* The whole scalars buffer, as bit positions (GetChunk).
ScalarBuffer == UNION {{i * 8 * ScalarSize + p : p \in Scalar(i)} : i \in 0 .. N - 1}

ChunkValue(i) == GetChunkOf(ScalarBuffer, i, chunk, ScalarSize, BitsPerChunk)

(***************************************************************************)
(* The filter of the masked variant: i is skipped when                     *)
(* i > len * nX + mod, len = size[mod] - 1, in uint64_t.  When size[mod]   *)
(* is 0, len * nX + mod wraps to 2^64 - (nX - mod), above every index, so  *)
(* no index of that lane is skipped.                                       *)
(***************************************************************************)
Skipped(i) ==
  /\ input.nx > 0
  /\ LET m     == i % input.nx
         bound == (input.sizes[m + 1] - 1) * input.nx + m
     IN  bound >= 0 /\ i > bound

-----------------------------------------------------------------------------
(* Reference definitions: what the spec says multiexp computes. *)

\* The spec's inclusion rule of the masked variant, for a call x:
\* i <= len * nx + m, in integers.
SpecIncludedIn(x, i) ==
  \/ x.nx = 0
  \/ LET m == i % x.nx
     IN  i <= (x.sizes[m + 1] - 1) * x.nx + m

SpecIncluded(i) == SpecIncludedIn(input, i)

\* What a call x must return: sum_i s_i * B_i over the indices it includes.
ExpectedOf(x) ==
  MapThenSumSet(LAMBDA i : MulByScalar(x.bases[i + 1], x.scalars[i + 1]),
                {i \in 0 .. Len(x.bases) - 1 : SpecIncludedIn(x, i)}) % Q

Expected == ExpectedOf(input)

\* Window c of the result: sum of digit_c(s_i) * B_i.
WindowSum(c) ==
  MapThenSumSet(LAMBDA i : WindowDigit(Scalar(i), c, BitsPerChunk) * Base(i),
                {i \in 0 .. N - 1 : SpecIncluded(i)}) % Q

\* What the device returns: msm over all n points of the call.
DeviceResult == MapThenSumSet(LAMBDA i : MulByScalar(Base(i), Scalar(i)), 0 .. N - 1) % Q

-----------------------------------------------------------------------------
(* multiexp *)

Init ==
  /\ pc = "idle"
  /\ input = CHOOSE inp \in Inputs : TRUE
  /\ chunk = 0
  /\ accs = <<>>
  /\ todo = {}
  /\ busy = [t \in Threads |-> NoIter]
  /\ sall = [t \in Threads |-> 0]
  /\ lvl = 0
  /\ res = 0
  /\ chunkResults = <<>>
  /\ r = 0

\* A caller enters multiexp; the object is reused across calls.
Call(inp) ==
  /\ pc \in {"idle", "done"}
  /\ input' = inp
  /\ pc' = IF GpuPresent THEN "gpu" ELSE "cpu"
  /\ UNCHANGED <<chunk, accs, todo, busy, sall, lvl, res, chunkResults, r>>

(***************************************************************************)
(* aptos::icicle::msm_g1/msm_g2.  n = 0 answers the identity without the   *)
(* device; otherwise a scalar size other than sizeof(FrElement), a failed  *)
(* initialize() or a failed device call returns false and multiexp falls  *)
(* back to the CPU.  On success the device computes the msm of all n       *)
(* points it was given.                                                    *)
(***************************************************************************)
GpuMsm ==
  /\ pc = "gpu"
  /\ IF N = 0
       THEN pc' = "done" /\ r' = 0
       ELSE \/ /\ ScalarSize = FrSize
               /\ pc' = "done"
               /\ r' = DeviceResult
            \/ /\ pc' = "cpu"
               /\ UNCHANGED r
  /\ UNCHANGED <<input, chunk, accs, todo, busy, sall, lvl, res, chunkResults>>

(***************************************************************************)
(* The CPU path up to the chunk loop: the n = 0 and n = 1 fast paths,      *)
(* parameter selection, allocation of chunkResults and accs, and initAccs *)
(* (a parallel region writing g.zero() to every cell; no iteration reads). *)
(***************************************************************************)
\* Mutant: the processChunk loop runs over [0, n] instead of [0, n).
CpuStart_LoopPastEnd ==
  /\ pc = "cpu"
  /\ CASE N = 0 ->
            /\ pc' = "done" /\ r' = 0
            /\ UNCHANGED <<chunk, accs, todo, chunkResults>>
       [] N = 1 ->
            /\ pc' = "done" /\ r' = MulByScalar(Base(0), Scalar(0))
            /\ UNCHANGED <<chunk, accs, todo, chunkResults>>
       [] OTHER ->
            /\ pc' = "process"
            /\ chunk' = 0
            /\ accs' = [c \in Threads \X (0 .. AccsPerChunk - 1) |-> 0]
            /\ chunkResults' = [c \in 0 .. NChunk - 1 |-> 0]
            /\ todo' = 0 .. N
            /\ UNCHANGED r
  /\ UNCHANGED <<input, busy, sall, lvl, res>>

CpuStart ==
  /\ pc = "cpu"
  /\ CASE N = 0 ->
            /\ pc' = "done" /\ r' = 0
            /\ UNCHANGED <<chunk, accs, todo, chunkResults>>
       [] N = 1 ->
            /\ pc' = "done" /\ r' = MulByScalar(Base(0), Scalar(0))
            /\ UNCHANGED <<chunk, accs, todo, chunkResults>>
       [] OTHER ->
            /\ pc' = "process"
            /\ chunk' = 0
            /\ accs' = [c \in Threads \X (0 .. AccsPerChunk - 1) |-> 0]
            /\ chunkResults' = [c \in 0 .. NChunk - 1 |-> 0]
            /\ todo' = 0 .. N - 1
            /\ UNCHANGED r
  /\ UNCHANGED <<input, busy, sall, lvl, res>>

Idle(t) == busy[t] = NoIter

\* A parallel region is over: nothing left to take and every thread is idle.
RegionDone == todo = {} /\ \A t \in Threads : Idle(t)

(***************************************************************************)
(* processChunk, one iteration i on thread t: skip i if the mask excludes  *)
(* it, if bases[i] is zero or if its chunk value is 0; otherwise add       *)
(* bases[i] to bucket chunkValue of the thread's own stripe.               *)
(***************************************************************************)
\* Mutant: the bucket stripe chosen by the point index instead of the thread id.
ProcessBegin_StripeByIndex(t, i) ==
  /\ pc = "process" /\ Idle(t) /\ i \in todo
  /\ todo' = todo \ {i}
  /\ IF Skipped(i) \/ Base(i) = 0 \/ ChunkValue(i) = 0
       THEN UNCHANGED busy
       ELSE LET cell == <<i % NThreads, ChunkValue(i)>>
            IN  busy' = [busy EXCEPT ![t] = [i |-> i, cell |-> cell, old |-> accs[cell]]]
  /\ UNCHANGED <<pc, input, chunk, accs, sall, lvl, res, chunkResults, r>>

ProcessBegin(t, i) ==
  /\ pc = "process" /\ Idle(t) /\ i \in todo
  /\ todo' = todo \ {i}
  /\ IF Skipped(i) \/ Base(i) = 0 \/ ChunkValue(i) = 0
       THEN UNCHANGED busy
       ELSE LET cell == <<t, ChunkValue(i)>>
            IN  busy' = [busy EXCEPT ![t] = [i |-> i, cell |-> cell, old |-> accs[cell]]]
  /\ UNCHANGED <<pc, input, chunk, accs, sall, lvl, res, chunkResults, r>>

ProcessEnd(t) ==
  /\ pc = "process" /\ ~Idle(t)
  /\ accs' = [accs EXCEPT ![busy[t].cell] = Add(busy[t].old, Base(busy[t].i))]
  /\ busy' = [busy EXCEPT ![t] = NoIter]
  /\ UNCHANGED <<pc, input, chunk, todo, sall, lvl, res, chunkResults, r>>

ProcessDone ==
  /\ pc = "process" /\ RegionDone
  /\ pc' = "pack"
  /\ todo' = 0 .. AccsPerChunk - 1
  /\ UNCHANGED <<input, chunk, accs, busy, sall, lvl, res, chunkResults, r>>

(***************************************************************************)
(* packThreads, one iteration b: every non-zero bucket b of stripes        *)
(* 1..nThreads-1 is added into bucket b of stripe 0 and zeroed.            *)
(***************************************************************************)
PackBegin(t, b) ==
  /\ pc = "pack" /\ Idle(t) /\ b \in todo
  /\ todo' = todo \ {b}
  /\ busy' = [busy EXCEPT ![t] = [i |-> b, old |-> [j \in Threads |-> accs[<<j, b>>]]]]
  /\ UNCHANGED <<pc, input, chunk, accs, sall, lvl, res, chunkResults, r>>

PackEnd(t) ==
  /\ pc = "pack" /\ ~Idle(t)
  /\ LET b    == busy[t].i
         old  == busy[t].old
         from == {j \in Threads \ {0} : old[j] # 0}
     IN  accs' = [c \in DOMAIN accs |->
                    IF c = <<0, b>> THEN MapThenSumSet(LAMBDA j : old[j], {0} \cup from) % Q
                    ELSE IF c[2] = b /\ c[1] \in from THEN 0
                    ELSE accs[c]]
  /\ busy' = [busy EXCEPT ![t] = NoIter]
  /\ UNCHANGED <<pc, input, chunk, todo, sall, lvl, res, chunkResults, r>>

\* Mutant: the base case of reduce does not zero accs[1].
EnterReduce_KeepBase(nBits, a) ==
  /\ lvl' = nBits
  /\ IF nBits = 1
       THEN /\ pc' = "up"
            /\ res' = a[<<0, 1>>]
            /\ accs' = a
            /\ UNCHANGED <<todo, sall>>
       ELSE /\ pc' = "reduce"
            /\ todo' = 0 .. 2^(nBits - 1) - 1
            /\ sall' = [t \in Threads |-> 0]
            /\ accs' = a
            /\ UNCHANGED res

\* Entering reduce(nBits) on bucket table a: its own zeroed sall and its
\* parallel loop, or the base case nBits = 1 (res = accs[1], zeroed).
EnterReduce(nBits, a) ==
  /\ lvl' = nBits
  /\ IF nBits = 1
       THEN /\ pc' = "up"
            /\ res' = a[<<0, 1>>]
            /\ accs' = [a EXCEPT ![<<0, 1>>] = 0]
            /\ UNCHANGED <<todo, sall>>
       ELSE /\ pc' = "reduce"
            /\ todo' = 0 .. 2^(nBits - 1) - 1
            /\ sall' = [t \in Threads |-> 0]
            /\ accs' = a
            /\ UNCHANGED res

PackDone ==
  /\ pc = "pack" /\ RegionDone
  /\ EnterReduce(BitsPerChunk, accs)
  /\ UNCHANGED <<input, chunk, busy, chunkResults, r>>

(***************************************************************************)
(* reduce(res, nBits), one iteration i of its parallel loop, ndiv2 =       *)
(* 2^(nBits-1): a non-zero accs[ndiv2 + i] is added into accs[i] and into  *)
(* sall[thread], and zeroed.  The loop runs over [0, ndiv2).               *)
(***************************************************************************)
ReduceBegin(t, i) ==
  /\ pc = "reduce" /\ Idle(t) /\ i \in todo
  /\ todo' = todo \ {i}
  /\ LET ndiv2 == 2^(lvl - 1)
         x     == accs[<<0, ndiv2 + i>>]
     IN  IF x = 0
           THEN UNCHANGED busy
           ELSE busy' = [busy EXCEPT ![t] =
                          [i |-> i, x |-> x, old |-> accs[<<0, i>>], s |-> sall[t]]]
  /\ UNCHANGED <<pc, input, chunk, accs, sall, lvl, res, chunkResults, r>>

ReduceEnd(t) ==
  /\ pc = "reduce" /\ ~Idle(t)
  /\ LET it    == busy[t]
         ndiv2 == 2^(lvl - 1)
     IN  /\ accs' = [accs EXCEPT ![<<0, it.i>>] = Add(it.old, it.x),
                                 ![<<0, ndiv2 + it.i>>] = 0]
         /\ sall' = [sall EXCEPT ![t] = Add(it.s, it.x)]
  /\ busy' = [busy EXCEPT ![t] = NoIter]
  /\ UNCHANGED <<pc, input, chunk, todo, lvl, res, chunkResults, r>>

\* After the loop: accs[ndiv2] += sall[0..nThreads-1], then reduce(nBits - 1).
ReduceFold ==
  /\ pc = "reduce" /\ RegionDone
  /\ LET ndiv2 == 2^(lvl - 1)
     IN  EnterReduce(lvl - 1,
           [accs EXCEPT ![<<0, ndiv2>>] =
              (@ + MapThenSumSet(LAMBDA t : sall[t], Threads)) % Q])
  /\ UNCHANGED <<input, chunk, busy, chunkResults, r>>

(***************************************************************************)
(* Return of reduce(nBits - 1) into reduce(nBits): double accs[ndiv2]      *)
(* nBits - 1 times, res = p1 + accs[ndiv2], zero accs[ndiv2].              *)
(***************************************************************************)
ReduceUp ==
  /\ pc = "up" /\ lvl < BitsPerChunk
  /\ LET ndiv2 == 2^lvl
     IN  /\ res' = Add(res, Dbl(accs[<<0, ndiv2>>], lvl))
         /\ accs' = [accs EXCEPT ![<<0, ndiv2>>] = 0]
  /\ lvl' = lvl + 1
  /\ UNCHANGED <<pc, input, chunk, todo, busy, sall, chunkResults, r>>

\* Mutant: the chunk loop index is not advanced.
NextChunk_NoIncrement ==
  /\ pc = "up" /\ lvl = BitsPerChunk
  /\ chunkResults' = [chunkResults EXCEPT ![chunk] = res]
  /\ IF chunk + 1 < NChunk
       THEN /\ pc' = "process" /\ todo' = 0 .. N - 1 /\ UNCHANGED chunk
       ELSE /\ pc' = "combine" /\ UNCHANGED <<chunk, todo>>
  /\ UNCHANGED <<input, accs, busy, sall, lvl, res, r>>

\* reduce(chunkResults[i], bitsPerChunk) has returned: next chunk, or the final combination.
NextChunk ==
  /\ pc = "up" /\ lvl = BitsPerChunk
  /\ chunkResults' = [chunkResults EXCEPT ![chunk] = res]
  /\ IF chunk + 1 < NChunk
       THEN /\ pc' = "process" /\ chunk' = chunk + 1 /\ todo' = 0 .. N - 1
       ELSE /\ pc' = "combine" /\ UNCHANGED <<chunk, todo>>
  /\ UNCHANGED <<input, accs, busy, sall, lvl, res, r>>

(***************************************************************************)
(* Horner over the chunk results, most significant first: r = cr[last],    *)
(* then r = r doubled bitsPerChunk times + cr[j] for j = last-1 .. 0.  The *)
(* loop is modelled by what it computes, sum_j 2^(j * bitsPerChunk) cr[j], *)
(* dbl(x, k) being 2^k x.                                                  *)
(***************************************************************************)
\* Mutant: one doubling too few between chunks.
Combine_ShortDbl ==
  /\ pc = "combine"
  /\ r' = SumRange(LAMBDA j : Dbl(chunkResults[j], j * (BitsPerChunk - 1)),
                   0, NChunk - 1) % Q
  /\ pc' = "done"
  /\ UNCHANGED <<input, chunk, accs, todo, busy, sall, lvl, res, chunkResults>>

Combine ==
  /\ pc = "combine"
  /\ r' = SumRange(LAMBDA j : Dbl(chunkResults[j], j * BitsPerChunk),
                   0, NChunk - 1) % Q
  /\ pc' = "done"
  /\ UNCHANGED <<input, chunk, accs, todo, busy, sall, lvl, res, chunkResults>>

Next ==
  \/ \E inp \in Inputs : Call(inp)
  \/ GpuMsm
  \/ CpuStart
  \/ \E t \in Threads :
       \/ \E i \in todo : ProcessBegin(t, i) \/ PackBegin(t, i) \/ ReduceBegin(t, i)
       \/ ProcessEnd(t) \/ PackEnd(t) \/ ReduceEnd(t)
  \/ ProcessDone \/ PackDone \/ ReduceFold \/ ReduceUp \/ NextChunk \/ Combine

(***************************************************************************)
(* tbb runs every iteration of a parallel_for to completion, and the       *)
(* calling thread runs the serial code between regions: weak fairness for  *)
(* every thread step and every serial step.  Callers are not obliged to    *)
(* call.                                                                   *)
(***************************************************************************)
Fairness ==
  /\ \A t \in Threads :
       /\ WF_vars(\E i \in todo : ProcessBegin(t, i) \/ PackBegin(t, i) \/ ReduceBegin(t, i))
       /\ WF_vars(ProcessEnd(t) \/ PackEnd(t) \/ ReduceEnd(t))
  /\ WF_vars(GpuMsm \/ CpuStart \/ ProcessDone \/ PackDone \/ ReduceFold
             \/ ReduceUp \/ NextChunk \/ Combine)

Spec == Init /\ [][Next]_vars /\ Fairness

-----------------------------------------------------------------------------
(* Properties *)

TypeOK ==
  /\ pc \in {"idle", "gpu", "cpu", "process", "pack", "reduce", "up", "combine", "done"}
  /\ input \in Inputs
  /\ todo \subseteq Nat
  /\ pc = "process" => todo \subseteq 0 .. N - 1
  /\ busy \in [Threads -> [i : Int] \cup [i : Nat, cell : Threads \X Nat, old : 0 .. Q - 1]
                 \cup [i : Nat, old : [Threads -> 0 .. Q - 1]]
                 \cup [i : Nat, x : 0 .. Q - 1, old : 0 .. Q - 1, s : 0 .. Q - 1]]
  /\ sall \in [Threads -> 0 .. Q - 1]
  /\ r \in 0 .. Q - 1 /\ res \in 0 .. Q - 1

(***************************************************************************)
(* No data race: two threads never run at the same time iterations that   *)
(* touch a common cell of accs or sall, in processChunk (per-thread        *)
(* stripes), packThreads (one bucket index per iteration) or reduce        *)
(* (accs[i], accs[ndiv2 + i] and the thread's own side sum, written here   *)
(* as the cell <<-1 - t, 0>>).                                             *)
(***************************************************************************)
Footprint(t) ==
  LET it == busy[t]
  IN  CASE Idle(t) -> {}
        [] pc = "process" -> {it.cell}
        [] pc = "pack" -> {<<j, it.i>> : j \in Threads}
        [] pc = "reduce" -> {<<0, it.i>>, <<0, 2^(lvl - 1) + it.i>>, <<-1 - t, 0>>}
        [] OTHER -> {}

NoDataRace ==
  \A t, u \in Threads : t # u => Footprint(t) \cap Footprint(u) = {}

(***************************************************************************)
(* Every chunk result stored so far is the window sum of that chunk: the   *)
(* scatter, the pack and the recursive halving of reduce together compute  *)
(* sum_b b * bucket_b, and nothing left in the bucket table by one chunk   *)
(* (bucket 0 included) leaks into the next.                                *)
(***************************************************************************)
ChunkResultsCorrect ==
  LET stored == IF pc = "combine" THEN 0 .. NChunk - 1 ELSE 0 .. chunk - 1
  IN  pc \in {"process", "pack", "reduce", "up", "combine"} =>
        \A c \in stored : chunkResults[c] = WindowSum(c)

(***************************************************************************)
(* A completed multiexp returns sum_i s_i * B_i over the indices the       *)
(* variant includes, whichever path (GPU, fast path, CPU) produced it.     *)
(***************************************************************************)
MultiexpCorrect == pc = "done" => r = Expected

(***************************************************************************)
(* The engine seen from its caller: the call is busy from Call until pc   *)
(* is "done", its argument is the input record and its result is r.       *)
(***************************************************************************)
Msm == INSTANCE BlockingCall WITH
  Args     <- Inputs,
  Result   <- ExpectedOf,
  NoResult <- -1,
  status   <- CASE pc = "idle" -> "idle" [] pc = "done" -> "done" [] OTHER -> "busy",
  arg      <- input,
  out      <- IF pc = "done" THEN r ELSE -1

(***************************************************************************)
(* multiexp implements a blocking call: each call returns once, with the  *)
(* msm of the arguments it was given, and nothing else changes what the   *)
(* caller sees; and every call returns: every parallel region ends, the   *)
(* reduce recursion bottoms out and the chunk loop terminates.             *)
(***************************************************************************)
MsmRefinement == Msm!SafeSpec /\ Msm!Returns
=============================================================================
