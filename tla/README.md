# TLA+ models of the rapidsnark NTT and MSM engines

This directory holds TLA+ models of the prover core in
`src/rust-rapidsnark/rapidsnark/src/`, and the TLC configurations that check them:

- `fft.cpp`: the radix-2 NTT;
- `multiexp.cpp`: the parallel Pippenger MSM;
- `icicle_adapter.cpp`: the optional GPU dispatch shim.

The field and group arithmetic, the icicle library and `tbb` are external.
They are abstracted as described below.

## 1. The system

| Part | Source | State | Operations |
|---|---|---|---|
| FFT engine | `fft.cpp` `FFT::fft`, `ifft`, `reversePermutation`, `log2`, `BR` | the vector `a` (in place); the immutable `roots`, `powTwoInv`, `s` | bit reversal (parallel), `log2 n` butterfly stages (parallel, one barrier each), the ifft swap/scale loop (parallel) and the scaling of `a[0]`, `a[n/2]` |
| FFT constructor | `fft.cpp:43-140` | `nqr`, `s`, `roots[0..2^s)`, `powTwoInv[0..s]` | nqr search, two-adicity loop, parallel span fill of `roots`, `powTwoInv` loop |
| MSM engine | `multiexp.cpp` `ParallelMultiexp::multiexp` (plain and masked), `processChunk`, `packThreads`, `reduce`, `initAccs` | `accs[nThreads*accsPerChunk]` (per-thread bucket stripes), `sall[nThreads]` per `reduce` level, `chunkResults[nChunks]`, the parameters `n`, `bitsPerChunk`, `nChunks`, `accsPerChunk` | fast paths, parameter choice, `initAccs`; then, for each chunk, scatter (parallel), pack (parallel) and `reduce` (recursive, a parallel loop per level, a serial fold); Horner at the end |
| Chunk extraction | `multiexp.cpp:29-45` `getChunk` | none (pure) | a clamped 8-byte load, then shift and mask |
| GPU shim | `icicle_adapter.cpp` | `init_flag`/`init_success`, `initialized_domains` under `domain_mutex` | `initialize`, `msm_g1/g2`, `ntt_forward/inverse`, `ensure_domain` |

How the parts interact:

- `fft` first tries `ntt_forward`, and `ifft` first tries `ntt_inverse`.
  A `false` means the CPU path runs.
- When `ntt_inverse` fails, `ifft` calls `fft`, so `ntt_forward` is tried again.
- `multiexp` tries `msm_g1`/`msm_g2` first.
  - The masked variant passes them all `n` points and no mask.
- Inside a call, the only concurrency is `tbb::parallel_for`. Each region ends in a barrier before the serial code goes on.

Behaviour that tests hardly reach, and which the model explores:

- thread interleavings inside each region;
- the reuse of the bucket table across chunks;
- the clamped last window of `getChunk`;
- the unsigned wrap in the masked filter;
- the mixes of GPU success and failure;
- termination.

The full list, with source lines, is the `hazards` of `PROJECT.json`.

## 2. Modules

| Module | Models | Notes |
|---|---|---|
| `GetChunk` | `getChunk` and `nChunks` as operators | A scalar buffer is the set of its 1-bit positions. The 8-byte little-endian load is the bits `8*(i*W+byteStart)+shift+j`, with `j < eff` and `shift + j < 64`. `WindowDigit` is the reference window of spec 6. |
| `ParallelMultiexp`, `MC_ParallelMultiexp` | `multiexp` (both variants), `processChunk`, `packThreads`, `reduce`, `initAccs`, the GPU dispatch `msm_g1/g2` | See below. |
| `FFTField` | the field `F_P` and the constructor's tables as operators: `Nqr`, `TwoAdic`, `Roots`, `PowTwoInv`, `log2` | Shared by `FFT` and `FFTRoots`. |
| `BitReverse` | `BR`: `BRCode` is the code's five mask-and-shift steps on a word kept as the set of its 1 bits. `BR` is a closed form without bitwise operators, which TLC evaluates fast enough for the liveness checking of `FFT` | `FFT` uses `BR`. Its `ASSUME BRIsCode` makes TLC check, before every FFT run, that `BR` equals `BRCode` on every index and `domainPow` of the table. |
| `BitHelpersCheck`, `MC_BitHelpersCheck` | a harness whose state is one input of one helper: a `(scalarSize, bitsPerChunk, chunkIdx)` triple of `getChunk` or a `(domainPow, x)` pair of `BR` | Checks `GetChunkOf` against `WindowDigit` and `BRCode` against a reference reversal of the low bits. A step chooses one helper's input and resets the other's, so the inputs are enumerated side by side. |
| `FFT`, `MC_FFT` | `fft`, `ifft`, `reversePermutation`, the GPU dispatch `ntt_forward/inverse` | See below. |
| `FFTRoots`, `MC_FFTRoots` | the constructor's parallel fill of `roots` (`fft.cpp:88-140`) | See below. |
| `IcicleShim`, `MC_IcicleShim` | `initialize` (`call_once`), `ensure_domain` (mutex and domain set), and the checks and kernels of the four entry points, under concurrent engine calls: `multiexp` on G1 or G2, `fft`, and `ifft` with its fallback through `fft` | See below. |
| `BlockingCall` | the abstract specification of what an engine promises its caller (spec 5 and 6) | `FFT` and `ParallelMultiexp` refine it; see below. |

### Data abstraction

MSM:

- The curve group is `Z_Q` with `Q = 10007`: a point is its discrete logarithm.
- `g.add` is `+ mod Q`, `g.dbl` is `*2 mod Q` and `g.zero` is 0.
- A scalar of `ScalarSize` bytes is a set of bit positions.
- `Expected` is `sum_i s_i * B_i mod Q`.

FFT:

- `Fr` is `F_17`. `17 - 1 = 16` gives two-adicity 4, which is enough for `MaxDomainSize = 16`.
- The constructor's `nqr` search, its `s` loop, `roots[i] = roots[1]^i` and `powTwoInv` are computed by the code's own loops (`Nqr`, `TwoAdic`, `Roots`, `PowTwoInv`). This gives `nqr = 3`, `s = 4` and `roots[1] = 3^1 = 3`.
- `BR` is the 32-bit reversal by five group swaps, followed by the right shift. The group swaps move bit `p` to bit `p XOR 31`.

### Parallel regions

Every `tbb::parallel_for` is modelled in the same way:

- `todo` is the set of iterations not yet taken.
- A free thread `t` takes any iteration (work stealing) in a `...Begin(t, i)` step. That step reads the cells the iteration uses into `busy[t]`.
- A later `...End(t)` step writes the cells.
- The region is over when `RegionDone` holds: `todo = {}` and every thread is idle. The serial step after the region (`ProcessDone`, `PackDone`, `ReduceFold`, `BitrevDone`, `StageDone`, `ISwapDone`) waits for it.

Splitting the read from the write lets two threads interleave in a read-modify-write. A thread's identity `t` is `current_thread_index()`.

### ParallelMultiexp: actions and code

| Action | Code |
|---|---|
| `Call(inp)` | entry to `multiexp` with `inp = [bases, scalars, nx, sizes]`; `nx = 0` is the plain variant |
| `GpuMsm` | `multiexp.cpp:192-202` together with `msm_g1`. `n = 0` gives the identity. Otherwise the device either returns the msm of all `n` points (only when `ScalarSize = sizeof(FrElement)`) or fails, and the CPU path runs. |
| `CpuStart` | `multiexp.cpp:203-237`: fast paths, `bitsPerChunk` clamp, allocation, `initAccs` |
| `ProcessBegin/End/Done` | `processChunk`, including the masked filter `Skipped` with its uint64 wrap, the `isZero` skip and the `chunkValue = 0` skip |
| `PackBegin/End`, `PackDone` | `packThreads`, then the call `reduce(chunkResults[i], bitsPerChunk)` |
| `EnterReduce` | entry to `reduce(nBits)`: the base case, or a fresh zeroed `sall` and the parallel loop over `[0, ndiv2)` |
| `ReduceBegin/End` | one iteration of that loop |
| `ReduceFold` | the serial fold of the `sall` into `accs[ndiv2]`, then the recursive call |
| `ReduceUp` | the return into the caller level: `nBits-1` doublings, the add, and the zeroing of `accs[ndiv2]` |
| `NextChunk`, `Combine` | the chunk loop and the Horner combination |

### FFT: actions and code

| Action | Code |
|---|---|
| `Call(o, v)` | entry to `fft` or `ifft` on vector `v` |
| `GpuForward`, `GpuInverse` | `fft.cpp:198-204` and `235-241` with `ntt_forward/inverse`. The device can succeed only for a nonzero power-of-two size (`NttSizeOk`, `icicle_adapter.cpp:255`). Success leaves the natural-order transform (`Dft`, `InvDft`); failure goes on to the CPU path. A failed `ntt_inverse` goes through `fft`, which tries `ntt_forward` again. |
| `BitrevBegin/End/Done` | `reversePermutation`: swap when `i > BR(i)`. `BitrevDone` is never enabled for `n = 0`, because `log2(0)` never returns. |
| `ButterflyBegin/End`, `StageDone` | the butterflies of stage `s` and the stage loop |
| `FftReturns` | the return of `fft` into `ifft`, which starts the swap loop over `[1, n/2)` |
| `ISwapBegin/End`, `ISwapDone` | that swap loop, then the serial scaling of `a[0]` and `a[n/2]` |

### FFTRoots: the constructor's span fill

The serial prefix sets `roots[0] = 1`, `roots[1] = nqr^aux`, `powTwoInv[0..1]` (`Init`).
Then `tbb::parallel_for` over `nSpan = 10 * max_concurrency` spans runs.

| Action | Code |
|---|---|
| `TakeSpan(t)` | a thread takes span `idSpan`. `start`, `end` and `increment` are computed as in the lambda (`fft.cpp:111-116`). A span with `end <= start` does nothing. |
| `ReadStep(t)` | the reads of one element: `f.exp(roots[start], roots[1], start)` for the first, `f.mul(roots[i], roots[i-1], roots[1])` for the others |
| `WriteStep(t)` | the write of `roots[i]`; then the next `i`, or the span ends |
| `FillDone` | the barrier, the assert, and the serial `powTwoInv` loop |
| `Built` | the constructor has returned |

Spans are handed out in index order. Spans that touch disjoint elements commute, and any two spans that share an element can still run at the same time on two threads. So this order loses no race.

### IcicleShim: concurrent engine calls into the GPU shim

Each caller is one engine call, with `n` from a small set. It enters the shim through an entry point (`op`):

- `multiexp` on G1 or G2 through `msm_g1` or `msm_g2`;
- `fft` through `ntt_forward`;
- `ifft` through `ntt_inverse`, and, when that returns false, a second time through `ntt_forward` from the `fft` it falls back on.

`msm_g2` and `ntt_inverse` have the control flow of `msm_g1` and `ntt_forward`. The CPU paths the engines run after a `false` are left out; `FFT` and `ParallelMultiexp` model them.

| Action | Code |
|---|---|
| `CallMsm(c)`, `CallNtt(c)` | the engine's dispatch (`multiexp.cpp:192-202`, `fft.cpp:195-204`). `msm_g1/g2` with `n = 0` return the identity at once (`icicle_adapter.cpp:137-140`). |
| `ShimReturn(c, ok)` | the shim returns to the engine. A `false` from `ntt_inverse` makes `ifft` call `fft`, which enters the shim again through `ntt_forward` (`fft.cpp:232-241`). |
| `OnceEnter(c)` | `std::call_once`: the first caller runs the body, and a caller that finds it running blocks |
| `OnceBody(c)` | backend load, device count, set device (`107-126`). The outcome is a nondeterministic choice among the four exits. |
| `Checks(c)` | `return init_success` and the argument checks of the entry point, then `logn` (`142-144`, `255-262`) |
| `Lock(c)`, `DomainCheck(c)`, `InitDomain(c)` | `ensure_domain`: the lock, the set lookup, then `ntt_init_domain` (success or failure) and the insert, releasing the lock on every return |
| `Kernel(c)` | the copies and the `msm` or `ntt` kernel. Success or failure both return. |

`domainInits` is a history variable. It counts the successful `ntt_init_domain` calls per `logn`.

### Refinement: `BlockingCall`

`BlockingCall` has three variables, `status` (`idle`, `busy`, `done`), `arg` and `out`, and two actions:

- `Call(x)` is allowed only when no call is busy;
- `Return` sets `out` to `Result(arg)` in one step.

Its fairness `WF(Return)` is equivalent to `Returns`: every busy call reaches `done`.

`FFT` instantiates it as `Transform`:

- `status` is mapped from `pc`;
- `arg` is `<<op, inp>>`;
- `out` is `a` once `pc = "done"`;
- `Result` is the tabulated DFT or inverse DFT.

`ParallelMultiexp` instantiates it as `Msm`, with `arg` the input record, `out` the result `r`, and `Result` equal to `ExpectedOf`.

The properties `TransformRefinement` and `MsmRefinement` are `SafeSpec /\ Returns` of the instance. They show three things:

- the caller sees nothing of the computation before it returns;
- the arguments do not change during a call;
- every call returns with the result of its arguments.

## 3. Runs

| Run | Config | Checks | Shows |
|---|---|---|---|
| bit_helpers | `MC_BitHelpersCheck.cfg` | `GetChunkMatchesWindow`, `CodeBRIsReversal` | For `W` in {8, 12, 32}, every `bitsPerChunk` in 2..16 and every window, `getChunk` equals the window digit. No bit of the neighbouring scalars leaks in, including in the clamped last window. For `domainPow` 0 to 10 and every index, the code's `BR` reverses the low `domainPow` bits. (3,052 states) |
| getchunk_narrow | `MC_BitHelpersCheck_narrow.cfg` | `LoadWithinScalar` (violation) | For `W` = 4 or 7, `scalarSize - 8` wraps, the clamp never fires, and the load of window 0 reads bytes past the scalar. |
| msm | `MC_ParallelMultiexp.cfg` | `TypeOK`, `NoDataRace`, `ChunkResultsCorrect`, `MultiexpCorrect`, `MsmRefinement` | CPU multiexp over five calls, with 2 threads. The calls cover `n` = 0, 1, 2 and 3, plus a masked call. Threads never touch a common cell, and every chunk reduces to its window sum. The result is the msm, and `multiexp` refines `BlockingCall`: every call returns. (95,899 states, about 30 s) |
| msm_gpu | `MC_ParallelMultiexp_gpu.cfg` | `MultiexpCorrect` | With the backend present and 32-byte scalars, device success and CPU fallback give the same msm. (57,298 states) |
| msm_gpu_masked | `MC_ParallelMultiexp_gpu_masked.cfg` | `MultiexpCorrect` (violation) | The masked call through the GPU counts the excluded points. |
| msm_empty_lane | `MC_ParallelMultiexp_empty_lane.cfg` | `MultiexpCorrect` (violation) | `sizes[m] = 0` includes the whole lane. |
| fft | `MC_FFT.cfg` | `TypeOK`, `NoDataRace`, `NttCorrect`, `TransformRefinement` | fft and ifft on the unit vectors and the ramp of lengths 1, 2, 4 and 8, with 2 threads and the GPU backend built in. The runs cover every mix of device success and failure, including the CPU path when every device call fails and ifft's fallback through fft. There are no overlapping writes, and the result is `sum_j v[j] w^(ij)` (or its inverse). The engine refines `BlockingCall`: every call returns. The refinement's safety half adds little to `NttCorrect`; its content is the liveness half: every region ends and the stage loop terminates. (75,161 states, about 1.7 min) |
| fft_npot | `MC_FFT_npot.cfg` | `DomainChecked` (violation) | `fft([1, 2, 3])` returns `[5, 1, 1]` instead of reporting a precondition failure. |
| fft_zero | `MC_FFT_zero.cfg` | `TransformRefinement` (violation) | `fft` on the empty vector: `ntt_forward` refuses size 0, and the CPU path's `log2(0)` never returns. Deadlock checking is off because the hang is the behaviour under test. |
| roots_fill | `MC_FFTRoots_64.cfg` | `TypeOK`, `NoDataRace`, `TablesCorrect`, `ConstructorTerminates` | `F_193`, `nRoots = 64`. With 2 threads there are 20 spans of 3 elements; with 7 threads, 70 spans of increment 0, where only the last span works. The fill is race-free, `roots[i] = roots[1]^i` and `powTwoInv[k] = 2^-k`, and the constructor returns. (17,894 states) |
| roots_fill_inc1 | `MC_FFTRoots_32.cfg` | `NoDataRace` (violation) | With `nRoots = 32` and 20 spans, span 1 is `[1, 2)` and rewrites `roots[1]` while other spans read it. |
| shim | `MC_IcicleShim.cfg` | `TypeOK`, `KernelAfterSetup`, `DomainInitOnce`, `CallsReturn` | Three engine calls (multiexp G1/G2, fft, ifft), one each, with every mix of library successes and failures. A kernel runs only after the `call_once` body has stored `init_success = true`, and an ntt only on a power-of-two size whose domain another caller or itself has put in `initialized_domains`, including on ifft's second entry. Each domain is initialized once, and every call returns. (329,217 states, about 1.2 min) |

Every property of a passing run has a mutant in `PROJECT.json`: a plausible bug in the mapped definition that TLC then reports. Examples:

- stripes chosen by point index: `NoDataRace`;
- a base case that does not zero `accs[1]`: `ChunkResultsCorrect`;
- one doubling too few in Horner: `MultiexpCorrect`;
- a chunk loop that does not advance: `MsmRefinement`;
- bit reversal that swaps both ways: `NoDataRace`;
- the butterfly stage loop not advancing `s`: `TransformRefinement`;
- the first span starting at 0 like the others: `NoDataRace` (`FFTRoots`);
- spans one element short: `TablesCorrect`;
- `msm_g1` not looking at what `initialize()` returned: `KernelAfterSetup`;
- `ensure_domain` without the mutex: `DomainInitOnce`;
- a failed kernel retried: `CallsReturn`;
- `BR` shifting by `31 - domainPow`: `CodeBRIsReversal`;
- reversePermutation's loop over `[0, n]`: `TypeOK` (`FFT`);
- an ifft that returns straight after a device forward transform: `NttCorrect`.

### Findings

1. **Code bug.** The masked `multiexp` with `USE_ICICLE_GPU` (`multiexp.cpp:269-279`) passes all `n` points to `msm_g1/g2` and ignores `nx` and `x[]`.
   - On a working device, the result includes points the mask excludes.
   - The CPU path excludes them, while spec 4.3 requires bit-identical results (run `msm_gpu_masked`).
2. **Spec/code divergence.** When `size[m] = 0` (`multiexp.cpp:90-91`), `len = size[m]-1` wraps, and so does `len*nX+mod`. The whole lane is then included, while spec 9 asks that none of it be included (run `msm_empty_lane`).
3. **Spec/code divergence.** `fft.cpp:112`: spec 4.1 splits `[2, 2^s)` into independent spans.
   - The code starts span `idSpan > 0` at `idSpan * increment`.
   - When `nSpan <= nRoots < 2 * nSpan` (increment 1; for example 32 roots with 2 workers, or 256 with 16), span 1 starts at 1. Its `f.exp` then writes `roots[1]` while other spans read it.
   - This is a data race, undefined behaviour in C++, even though the value written is the same (run `roots_fill_inc1`).
4. **Spec/code divergence.** `fft.cpp:205`: spec 6 and 7 make a length other than `2^k` (with `k <= s`) a reported precondition failure.
   - The code checks nothing before the permutation, and the assert at 207 is compiled out under `NDEBUG`.
   - `fft([1, 2, 3])` returns `[5, 1, 1]` (run `fft_npot`).
5. **Spec/code divergence.** `fft.cpp:23`: for `n = 0`, `ntt_forward` returns false, and the CPU path's `log2(0)` loops on `while (n != 1) n >>= 1` forever. The `assert(n != 0)` is compiled out under `NDEBUG`.
   - Spec 7 makes a non-power-of-two length a reported precondition failure, and spec 5 says every call runs to completion.
   - `fft` on the empty vector never returns (run `fft_zero`).
6. **Spec gap.** `multiexp.cpp:36`: spec 6 lets the scalar width `W` be any size and says the `byteStart` clamp handles the trailing chunk.
   - The code compares `byteStart` with the unsigned `scalarSize - 8`, which wraps for `W < 8`, so the clamp never fires.
   - The 8-byte load at line 41 then reads past the scalar, and past the buffer for the last scalar (run `getchunk_narrow`).
   - Every caller in the repository passes 32-byte scalars, so `W >= 8` is an unstated precondition.

## 4. Bounds and why they suffice

- **Two threads.** This is the smallest number at which two iterations overlap. Every footprint property compares pairs of threads.
- **MSM inputs:**
  - `n = 2` and `n = 3` give `bitsPerChunk = 2` (`log2(1) = 0`, clamped), four buckets, and `reduce` with two levels: a parallel level and the base case.
  - The fourth call puts three points in bucket 2 of chunk 0, so two threads fill the same bucket index of their own stripes.
  - Scalars with bit 63 (or 255) exercise the clamped last window; `{62, 63}` is all ones across it.
  - A zero base exercises the `isZero` skip.
  - The masked call has a point past its lane.
  - The calls follow each other on the same object.
- **FFT:** lengths 1, 2, 4 and 8 give up to three stages.
  - The unit vectors determine the linear map the code computes, so agreement on them and on the ramp shows the transform is the DFT.
  - Length 8 is the smallest where the bit reversal has pairs that are not neighbours, and where a stage has butterflies of different `j`.
- **Constructor:** `F_193` (`192 = 64 * 3`) has roots up to 64.
  - With 2 threads there are 20 spans. `nRoots = 64` gives increment 3: spans of three elements, with the first at `[2, 3)` and the last of seven.
  - `nRoots = 32` gives increment 1, the smallest case of the overlap.
  - The thread count (`max_concurrency()`) is chosen in `Init`. With 7 threads, 70 spans give increment 0: only the last span, `[0, 64)`, does any work.
  - Three threads (increment 2) would add about 2 million states and were left out. Four to six threads give increment 1 and the race of finding 3.
- **Shim:** three callers, so two can race into `call_once` or `ensure_domain` while a third comes later and finds the outcome cached.
  - Each caller chooses its engine call, so fft, ifft and multiexp race into the same `call_once` and mutex.
  - The ntt sizes are 1, 2 and 3: two distinct domains and a rejected size. Size 0 takes the same rejection path as 3.
  - The msm sizes are 0 (the early return) and 1, with scalar size 32. A wrong scalar size takes the same `return false` as a failed initialize.
  - One call per caller is enough: a second call only finds the state a later first call finds.
- **BR:** `domainPow` up to 10. The swaps act on all 32 positions whatever `domainPow` is.
- **getChunk:** `W = 4` and `W = 7` are below the 8-byte load; any `W < 8` behaves alike, since the clamp is skipped for all of them. `W = 12` is the case where `W*8` is not a multiple of `bitsPerChunk` and the clamp moves the load by a non-multiple of 8. Single-bit buffers suffice because both sides are sums over the set bits.

## 5. Fairness

`tbb::parallel_for` returns only once every iteration has run, and the calling thread then runs the serial code. The specifications therefore assume:

- weak fairness of every thread's Begin and End steps;
- weak fairness of the serial steps.

Callers are not obliged to call, so `Call` has no fairness. Deadlock is checked, and the `done` state can always take another `Call`.

`FFTRoots` assumes weak fairness of each thread's span steps and of `FillDone`. `Built` is the state after the constructor returns.

`IcicleShim` assumes weak fairness of each caller's steps inside the shim. Only `call_once` and the mutex block, and both are released by the holder's own next steps. A kernel or domain init may fail on every attempt; fairness does not make any of them succeed. `Finished`, the state where every caller has made its calls, is the end of the model's bounded run.

## 6. Not modelled, and the plan

Not modelled:

- **Field and group arithmetic** (external ffiasm): replaced by small prime fields.
- **The shim's limb copies and Montgomery flags**: whether `are_scalars_montgomery_form = true` agrees with the CPU's reading of the scalar bytes depends on icicle.
- **What `ntt_init_domain` does to an `ntt` in flight**: `IcicleShim` reaches the state where one caller's kernel runs while another initializes a domain, but the effect is up to the icicle library.
- **`n >= 2^31` or `2^32`** (the `int` casts in the shim, `blocked_range<uint32_t>`) and **`n > 2^s`** (`root()` in `fft.hpp`, not in the repository): out of reach, or code outside the repository. They are listed as hazards with notes.
- **Concurrent `multiexp` calls on one `ParallelMultiexp` object**: the object keeps per-call state in members. The engine's contract has one caller per object; which objects the prover shares is decided outside `src/`.
- **The kernels of `msm_g2` and `ntt_inverse`** apart from their control flow, which is that of `msm_g1` and `ntt_forward`.
- **The non-GPU stubs** of `icicle_adapter.hpp` (every entry point returns `false`): the `GpuPresent = FALSE` configurations of `FFT` and `ParallelMultiexp`.

Planned next:

1. Larger MSM instances (three threads, `bitsPerChunk = 3`), within TLC's time budget.
