----------------------------- MODULE IcicleShim -----------------------------
(***************************************************************************)
(* The process-wide state of the GPU dispatch shim,                        *)
(* rust-rapidsnark/rapidsnark/src/icicle_adapter.cpp, under concurrent     *)
(* callers: the FFT engine (ntt_forward, ntt_inverse) and the MSM engine   *)
(* (msm_g1, msm_g2) may call it from several threads at once.  A caller is *)
(* one engine call: multiexp on G1 or G2 calls msm_g1 or msm_g2 (multiexp. *)
(* cpp), fft calls ntt_forward, and ifft calls ntt_inverse and, when that  *)
(* returns false, fft, which calls ntt_forward again (fft.cpp).            *)
(*                                                                         *)
(*   init_flag, init_success          std::call_once around the backend    *)
(*                                    load, device count and set device    *)
(*   domain_mutex, initialized_domains  ensure_domain's lock and set       *)
(*                                                                         *)
(* msm_g1 and msm_g2 have the same control flow, and so do ntt_forward    *)
(* and ntt_inverse; they differ in the curve or direction only.  Buffers,  *)
(* copies and the device configuration are left out: they touch only the  *)
(* caller's own memory.  Every call into the icicle library (backend load, *)
(* ntt_init_domain, msm, ntt) succeeds or fails nondeterministically.      *)
(***************************************************************************)
EXTENDS Naturals, FiniteSets

CONSTANTS
  Callers,       \* threads calling into the shim
  MsmSizes,      \* values of n passed to multiexp
  ScalarSizes,   \* values of scalar_size passed to multiexp
  NttSizes,      \* values of n passed to fft and ifft
  MaxCalls,      \* calls each caller makes (a bound of the model)
  None

FrSize == 32   \* sizeof(AltBn128::FrElement)

\* The four ways the call_once body can end; only the last sets init_success.
InitOutcomes == {"backend_missing", "no_device", "set_device_failed", "cuda_device"}

VARIABLES
  once,                \* init_flag: "none", "running" or "done"
  initSuccess,         \* init_success
  domainMutex,         \* the holder of domain_mutex, or None
  initializedDomains,  \* initialized_domains
  pc, op, size, scalarSize, logn,   \* each caller's position, shim entry point and arguments
  engine,              \* each caller's engine call: "multiexp", "fft" or "ifft"
  calls,               \* calls each caller has completed
  domainInits          \* history: successful ntt_init_domain calls per logn

vars == <<once, initSuccess, domainMutex, initializedDomains, pc, op, size,
          scalarSize, logn, engine, calls, domainInits>>

MsmOps == {"msm_g1", "msm_g2"}
NttOps == {"ntt_forward", "ntt_inverse"}

is_power_of_two(v) == v # 0 /\ \E k \in 0 .. v : 2^k = v

\* The loop while ((1ull << logn) < size) ++logn, from logn = 0.
LognOf(v) == CHOOSE k \in 0 .. v : 2^k >= v /\ \A j \in 0 .. k - 1 : 2^j < v

Logns == {LognOf(v) : v \in {x \in NttSizes : is_power_of_two(x)}}

Init ==
  /\ once = "none" /\ initSuccess = FALSE
  /\ domainMutex = None /\ initializedDomains = {}
  /\ pc = [c \in Callers |-> "idle"]
  /\ op = [c \in Callers |-> "msm_g1"]
  /\ engine = [c \in Callers |-> "multiexp"]
  /\ size = [c \in Callers |-> 0]
  /\ scalarSize = [c \in Callers |-> FrSize]
  /\ logn = [c \in Callers |-> 0]
  /\ calls = [c \in Callers |-> 0]
  /\ domainInits = [l \in Logns |-> 0]

Shared == <<once, initSuccess, domainMutex, initializedDomains, domainInits>>

\* The engine call returns to its caller.
Return(c) == pc' = [pc EXCEPT ![c] = "idle"] /\ calls' = [calls EXCEPT ![c] = @ + 1]

(***************************************************************************)
(* The shim returns ok to the engine.  ifft's ntt_inverse returning false  *)
(* makes ifft call fft, whose first step is ntt_forward on the same data:  *)
(* the caller enters the shim again.  Every other return ends the engine's *)
(* use of the shim (false: the CPU path runs, which the model leaves out). *)
(***************************************************************************)
ShimReturn(c, ok) ==
  IF ~ok /\ op[c] = "ntt_inverse"
    THEN /\ pc' = [pc EXCEPT ![c] = "once"]
         /\ op' = [op EXCEPT ![c] = "ntt_forward"]
         /\ UNCHANGED calls
    ELSE Return(c) /\ UNCHANGED op

(***************************************************************************)
(* multiexp on G1 or G2 first calls msm_g1 or msm_g2 with the same        *)
(* arguments.  msm_g1/g2 with n = 0 write the identity and return true at *)
(* once, before initialize(); every other call starts with initialize().  *)
(***************************************************************************)
CallMsm(c) ==
  /\ pc[c] = "idle" /\ calls[c] < MaxCalls
  /\ \E g \in MsmOps, n \in MsmSizes, ss \in ScalarSizes :
       /\ op' = [op EXCEPT ![c] = g]
       /\ size' = [size EXCEPT ![c] = n]
       /\ scalarSize' = [scalarSize EXCEPT ![c] = ss]
       /\ IF n = 0 THEN Return(c)
          ELSE pc' = [pc EXCEPT ![c] = "once"] /\ UNCHANGED calls
  /\ engine' = [engine EXCEPT ![c] = "multiexp"]
  /\ UNCHANGED <<Shared, logn>>

\* fft first calls ntt_forward, ifft ntt_inverse, on the vector's size n.
CallNtt(c) ==
  /\ pc[c] = "idle" /\ calls[c] < MaxCalls
  /\ \E e \in {"fft", "ifft"}, n \in NttSizes :
       /\ engine' = [engine EXCEPT ![c] = e]
       /\ op' = [op EXCEPT ![c] = IF e = "fft" THEN "ntt_forward" ELSE "ntt_inverse"]
       /\ size' = [size EXCEPT ![c] = n]
  /\ pc' = [pc EXCEPT ![c] = "once"]
  /\ UNCHANGED <<Shared, scalarSize, logn, calls>>

(***************************************************************************)
(* std::call_once(init_flag, ..): the first caller runs the body; a caller *)
(* that finds it running blocks until it has finished; once it has, the   *)
(* call returns at once.                                                   *)
(***************************************************************************)
OnceEnter(c) ==
  /\ pc[c] = "once" /\ once # "running"
  /\ IF once = "none"
       THEN once' = "running" /\ pc' = [pc EXCEPT ![c] = "body"]
       ELSE pc' = [pc EXCEPT ![c] = "checks"] /\ UNCHANGED once
  /\ UNCHANGED <<initSuccess, domainMutex, initializedDomains, op, size,
                 scalarSize, logn, engine, calls, domainInits>>

\* The call_once body: load the backend, count devices, set CUDA device 0.
OnceBody(c) ==
  /\ pc[c] = "body"
  /\ \E outcome \in InitOutcomes : initSuccess' = (outcome = "cuda_device")
  /\ once' = "done"
  /\ pc' = [pc EXCEPT ![c] = "checks"]
  /\ UNCHANGED <<domainMutex, initializedDomains, op, size, scalarSize, logn,
                 engine, calls, domainInits>>

\* Mutant: msm_g1 goes on to the kernel without looking at what initialize() returned.
Checks_IgnoreInit(c) ==
  /\ pc[c] = "checks"
  /\ IF op[c] \in MsmOps
       THEN IF scalarSize[c] # FrSize
              THEN ShimReturn(c, FALSE) /\ UNCHANGED logn
              ELSE /\ pc' = [pc EXCEPT ![c] = "kernel"]
                   /\ UNCHANGED <<op, calls, logn>>
       ELSE IF ~initSuccess \/ ~is_power_of_two(size[c]) \/ size[c] = 0
              THEN ShimReturn(c, FALSE) /\ UNCHANGED logn
              ELSE /\ pc' = [pc EXCEPT ![c] = "lock"]
                   /\ logn' = [logn EXCEPT ![c] = LognOf(size[c])]
                   /\ UNCHANGED <<op, calls>>
  /\ UNCHANGED <<Shared, size, scalarSize, engine>>

\* Mutant: ntt_forward does not check that size is a power of two.
Checks_NoPowerOfTwoCheck(c) ==
  /\ pc[c] = "checks"
  /\ IF op[c] \in MsmOps
       THEN IF ~initSuccess \/ scalarSize[c] # FrSize
              THEN ShimReturn(c, FALSE) /\ UNCHANGED logn
              ELSE /\ pc' = [pc EXCEPT ![c] = "kernel"]
                   /\ UNCHANGED <<op, calls, logn>>
       ELSE IF ~initSuccess \/ size[c] = 0
              THEN ShimReturn(c, FALSE) /\ UNCHANGED logn
              ELSE /\ pc' = [pc EXCEPT ![c] = "lock"]
                   /\ logn' = [logn EXCEPT ![c] = LognOf(size[c])]
                   /\ UNCHANGED <<op, calls>>
  /\ UNCHANGED <<Shared, size, scalarSize, engine>>

(***************************************************************************)
(* initialize() returns init_success, and the entry point checks the rest  *)
(* of its arguments: msm_g1 the scalar size, ntt_forward that size is a    *)
(* nonzero power of two, whose logn it then computes.                      *)
(***************************************************************************)
Checks(c) ==
  /\ pc[c] = "checks"
  /\ IF op[c] \in MsmOps
       THEN IF ~initSuccess \/ scalarSize[c] # FrSize
              THEN ShimReturn(c, FALSE) /\ UNCHANGED logn
              ELSE /\ pc' = [pc EXCEPT ![c] = "kernel"]
                   /\ UNCHANGED <<op, calls, logn>>
       ELSE IF ~initSuccess \/ ~is_power_of_two(size[c]) \/ size[c] = 0
              THEN ShimReturn(c, FALSE) /\ UNCHANGED logn
              ELSE /\ pc' = [pc EXCEPT ![c] = "lock"]
                   /\ logn' = [logn EXCEPT ![c] = LognOf(size[c])]
                   /\ UNCHANGED <<op, calls>>
  /\ UNCHANGED <<Shared, size, scalarSize, engine>>

\* Mutant: ensure_domain checks the set without taking domain_mutex.
Lock_NoMutex(c) ==
  /\ pc[c] = "lock"
  /\ pc' = [pc EXCEPT ![c] = "domain"]
  /\ UNCHANGED <<Shared, op, size, scalarSize, logn, engine, calls>>

\* ensure_domain: std::lock_guard<std::mutex> lock(domain_mutex).
Lock(c) ==
  /\ pc[c] = "lock" /\ domainMutex = None
  /\ domainMutex' = c
  /\ pc' = [pc EXCEPT ![c] = "domain"]
  /\ UNCHANGED <<once, initSuccess, initializedDomains, op, size, scalarSize,
                 logn, engine, calls, domainInits>>

\* ensure_domain under the lock: initialized_domains.count(logn) != 0 returns true.
DomainCheck(c) ==
  /\ pc[c] = "domain"
  /\ IF logn[c] \in initializedDomains
       THEN domainMutex' = None /\ pc' = [pc EXCEPT ![c] = "kernel"]
       ELSE pc' = [pc EXCEPT ![c] = "init_domain"] /\ UNCHANGED domainMutex
  /\ UNCHANGED <<once, initSuccess, initializedDomains, op, size, scalarSize,
                 logn, engine, calls, domainInits>>

(***************************************************************************)
(* ntt_init_domain(omega(logn)): on success logn is inserted and           *)
(* ensure_domain returns true; on failure it returns false and so does    *)
(* ntt_forward.  The lock_guard releases the mutex on both returns.        *)
(***************************************************************************)
InitDomain(c) ==
  /\ pc[c] = "init_domain"
  /\ domainMutex' = None
  /\ \/ /\ pc' = [pc EXCEPT ![c] = "kernel"]
        /\ initializedDomains' = initializedDomains \cup {logn[c]}
        /\ domainInits' = [domainInits EXCEPT ![logn[c]] = @ + 1]
        /\ UNCHANGED <<op, calls>>
     \/ /\ ShimReturn(c, FALSE)
        /\ UNCHANGED <<initializedDomains, domainInits>>
  /\ UNCHANGED <<once, initSuccess, size, scalarSize, logn, engine>>

\* Mutant: a failed kernel makes the call start over instead of returning false.
Kernel_RetryCall(c) ==
  /\ pc[c] = "kernel"
  /\ \/ ShimReturn(c, TRUE)
     \/ pc' = [pc EXCEPT ![c] = "once"] /\ UNCHANGED <<op, calls>>
  /\ UNCHANGED <<Shared, size, scalarSize, logn, engine>>

(***************************************************************************)
(* The msm or ntt kernel, with the copies around it: it succeeds (the      *)
(* shim returns true) or fails (the shim returns false and the engine     *)
(* runs its CPU path).  Either way the call returns.                       *)
(***************************************************************************)
Kernel(c) ==
  /\ pc[c] = "kernel"
  /\ \E ok \in BOOLEAN : ShimReturn(c, ok)
  /\ UNCHANGED <<Shared, size, scalarSize, logn, engine>>

\* Every caller has made its calls.
Finished == \A c \in Callers : pc[c] = "idle" /\ calls[c] = MaxCalls

Step(c) ==
  \/ OnceEnter(c) \/ OnceBody(c) \/ Checks(c) \/ Lock(c)
  \/ DomainCheck(c) \/ InitDomain(c) \/ Kernel(c)

Next ==
  \/ \E c \in Callers : CallMsm(c) \/ CallNtt(c) \/ Step(c)
  \/ Finished /\ UNCHANGED vars

\* A caller inside the shim keeps running: call_once and the mutex block,
\* nothing else waits.
Spec == Init /\ [][Next]_vars /\ \A c \in Callers : WF_vars(Step(c))

-----------------------------------------------------------------------------
(* Properties *)

PCs == {"idle", "once", "body", "checks", "lock", "domain", "init_domain", "kernel"}

TypeOK ==
  /\ once \in {"none", "running", "done"}
  /\ initSuccess \in BOOLEAN
  /\ domainMutex \in Callers \cup {None}
  /\ initializedDomains \subseteq Logns
  /\ pc \in [Callers -> PCs]
  /\ op \in [Callers -> MsmOps \cup NttOps]

(***************************************************************************)
(* A kernel runs only on a setup that is really there: the call_once body  *)
(* has finished with init_success (stored by whichever caller ran it),    *)
(* an msm has Fr-sized scalars, and an ntt runs on a power-of-two size     *)
(* whose domain logn is in initialized_domains (inserted by whichever      *)
(* caller initialized it).  The domain check happens under domain_mutex,   *)
(* the kernel after its release, and ifft may reach the kernel on its     *)
(* second entry through ntt_forward.                                       *)
(***************************************************************************)
KernelAfterSetup ==
  \A c \in Callers : pc[c] = "kernel" =>
    /\ once = "done" /\ initSuccess
    /\ op[c] \in MsmOps => scalarSize[c] = FrSize
    /\ op[c] \in NttOps => logn[c] \in initializedDomains /\ 2^logn[c] = size[c]

(***************************************************************************)
(* ensure_domain initializes each twiddle domain once: ntt_init_domain    *)
(* succeeds at most once per logn, however many ntt calls of that size    *)
(* race into the shim.                                                     *)
(***************************************************************************)
DomainInitOnce == \A l \in Logns : domainInits[l] <= 1

\* Every call into the shim returns (true, or false for the CPU path).
CallsReturn == \A c \in Callers : pc[c] # "idle" ~> pc[c] = "idle"
=============================================================================
