------------------------------ MODULE FFTRoots ------------------------------
(***************************************************************************)
(* The parallel part of the FFT constructor, FFT<Field>::FFT in            *)
(* rust-rapidsnark/rapidsnark/src/fft.cpp: roots[0] and roots[1] are set   *)
(* serially, then a tbb::parallel_for over nSpan = 10 * max_concurrency    *)
(* spans fills roots[2 .. nRoots): span idSpan computes                    *)
(* roots[start] = roots[1]^start with f.exp and then                       *)
(* roots[i] = roots[i-1] * roots[1] for i in (start, end).  After the      *)
(* region, powTwoInv[2 .. s] is filled serially.                           *)
(*                                                                         *)
(* Each element of a span is one iteration of the region: a Read step that *)
(* reads roots[1] (and roots[i-1]) and a Write step that writes roots[i],  *)
(* so that the accesses of two threads interleave.  Spans are handed out   *)
(* in index order: spans that touch disjoint elements commute, so the      *)
(* order only matters between spans that share an element, and every such *)
(* pair can still run at the same time on two threads.                     *)
(***************************************************************************)
EXTENDS Naturals, FiniteSetsExt, FFTField

CONSTANT ThreadCounts   \* values tbb::this_task_arena::max_concurrency() may return

Threads == 0 .. Max(ThreadCounts) - 1
Idle    == [phase |-> "idle"]

VARIABLES
  nThreads,    \* max_concurrency() of the arena the constructor runs in
  pc,          \* "fill" (the parallel region) or "built"
  roots,       \* the roots vector, resized to nRoots (zero-initialised)
  powTwoInv,   \* the powTwoInv vector, resized to s + 1
  next,        \* the next span to be handed to a thread
  ts           \* thread -> Idle, or the element of its span it is computing

vars == <<nThreads, pc, roots, powTwoInv, next, ts>>

NSpan == nThreads * 10

\* The span bounds, as unsigned arithmetic in the lambda.
Increment  == NRoots \div NSpan
Start(id)  == IF id = 0 THEN 2 ELSE id * Increment
End(id)    == IF id = NSpan - 1 THEN NRoots ELSE (id + 1) * Increment

(***************************************************************************)
(* The serial prefix: roots[0] = 1, powTwoInv[0] = 1 and, since           *)
(* nRoots > 1 (s >= 1), roots[1] = nqr^aux and powTwoInv[1] = 1/2.        *)
(***************************************************************************)
Init ==
  /\ nThreads \in ThreadCounts
  /\ pc = "fill"
  /\ roots = [i \in 0 .. NRoots - 1 |->
                IF i = 0 THEN 1 ELSE IF i = 1 THEN Roots[1] ELSE 0]
  /\ powTwoInv = [k \in 0 .. S |-> IF k <= 1 THEN PowTwoInv[k] ELSE 0]
  /\ next = 0
  /\ ts = [t \in Threads |-> Idle]

\* Mutant: span 0 starts at 0 like the others.
TakeSpan_NoFirstOffset(t) ==
  /\ pc = "fill" /\ t < nThreads /\ ts[t] = Idle /\ next < NSpan
  /\ LET st == next * Increment
         en == End(next)
     IN  IF en > st
           THEN ts' = [ts EXCEPT ![t] = [phase |-> "read", i |-> st, end |-> en,
                                         first |-> TRUE, val |-> 0]]
           ELSE UNCHANGED ts
  /\ next' = next + 1
  /\ UNCHANGED <<nThreads, pc, roots, powTwoInv>>

\* Mutant: the last element of every span but the last one is left out.
TakeSpan_ShortEnd(t) ==
  /\ pc = "fill" /\ t < nThreads /\ ts[t] = Idle /\ next < NSpan
  /\ LET st == Start(next)
         en == IF next = NSpan - 1 THEN NRoots ELSE (next + 1) * Increment - 1
     IN  IF en > st
           THEN ts' = [ts EXCEPT ![t] = [phase |-> "read", i |-> st, end |-> en,
                                         first |-> TRUE, val |-> 0]]
           ELSE UNCHANGED ts
  /\ next' = next + 1
  /\ UNCHANGED <<nThreads, pc, roots, powTwoInv>>

\* Mutant: the last span runs to nRoots + 1 (a loop bound i <= end).
TakeSpan_EndPastRoots(t) ==
  /\ pc = "fill" /\ t < nThreads /\ ts[t] = Idle /\ next < NSpan
  /\ LET st == Start(next)
         en == IF next = NSpan - 1 THEN NRoots + 1 ELSE (next + 1) * Increment
     IN  IF en > st
           THEN ts' = [ts EXCEPT ![t] = [phase |-> "read", i |-> st, end |-> en,
                                         first |-> TRUE, val |-> 0]]
           ELSE UNCHANGED ts
  /\ next' = next + 1
  /\ UNCHANGED <<nThreads, pc, roots, powTwoInv>>

\* A thread takes span idSpan = next; a span with end <= start does nothing.
TakeSpan(t) ==
  /\ pc = "fill" /\ t < nThreads /\ ts[t] = Idle /\ next < NSpan
  /\ LET st == Start(next)
         en == End(next)
     IN  IF en > st
           THEN ts' = [ts EXCEPT ![t] = [phase |-> "read", i |-> st, end |-> en,
                                         first |-> TRUE, val |-> 0]]
           ELSE UNCHANGED ts
  /\ next' = next + 1
  /\ UNCHANGED <<nThreads, pc, roots, powTwoInv>>

\* f.exp(roots[start], roots[1], start) or f.mul(roots[i], roots[i-1], roots[1]): the reads.
ReadStep(t) ==
  /\ pc = "fill" /\ ts[t].phase = "read"
  /\ LET e == ts[t]
     IN  ts' = [ts EXCEPT ![t].phase = "write",
                          ![t].val = IF e.first THEN PowMod(roots[1], e.i)
                                     ELSE FMul(roots[e.i - 1], roots[1])]
  /\ UNCHANGED <<nThreads, pc, roots, powTwoInv, next>>

\* Mutant: the thread never leaves its span's last iteration.
WriteStep_NoExit(t) ==
  /\ pc = "fill" /\ ts[t].phase = "write"
  /\ LET e == ts[t]
     IN  /\ roots' = [roots EXCEPT ![e.i] = e.val]
         /\ ts' = [ts EXCEPT ![t] =
                     IF e.i + 1 < e.end
                       THEN [e EXCEPT !.phase = "read", !.i = e.i + 1, !.first = FALSE]
                       ELSE e]
  /\ UNCHANGED <<nThreads, pc, powTwoInv, next>>

\* The write of roots[i]; then the next i of the span, or the span is over.
WriteStep(t) ==
  /\ pc = "fill" /\ ts[t].phase = "write"
  /\ LET e == ts[t]
     IN  /\ roots' = [roots EXCEPT ![e.i] = e.val]
         /\ ts' = [ts EXCEPT ![t] =
                     IF e.i + 1 < e.end
                       THEN [e EXCEPT !.phase = "read", !.i = e.i + 1, !.first = FALSE]
                       ELSE Idle]
  /\ UNCHANGED <<nThreads, pc, powTwoInv, next>>

(***************************************************************************)
(* The end of the region, the assert on roots[nRoots-1] * roots[1] (debug  *)
(* builds only, stated as TablesCorrect below) and the serial loop          *)
(* powTwoInv[i] = powTwoInv[i-1] * powTwoInv[1] for i in 2 .. s.           *)
(***************************************************************************)
FillDone ==
  /\ pc = "fill" /\ next = NSpan /\ \A t \in Threads : ts[t] = Idle
  /\ pc' = "built"
  /\ powTwoInv' = [k \in 0 .. S |-> PowMod(powTwoInv[1], k)]
  /\ UNCHANGED <<nThreads, roots, next, ts>>

\* The constructor has returned; the engine is used from then on.
Built == pc = "built" /\ UNCHANGED vars

Next ==
  \/ \E t \in Threads : TakeSpan(t) \/ ReadStep(t) \/ WriteStep(t)
  \/ FillDone
  \/ Built

Spec == Init /\ [][Next]_vars /\ WF_vars(FillDone)
          /\ \A t \in Threads : WF_vars(TakeSpan(t) \/ ReadStep(t) \/ WriteStep(t))

-----------------------------------------------------------------------------
(* Properties *)

TypeOK ==
  /\ pc \in {"fill", "built"}
  /\ roots \in [0 .. NRoots - 1 -> 0 .. P - 1]
  /\ nThreads \in ThreadCounts
  /\ next \in 0 .. NSpan
  /\ \A t \in Threads : ts[t] = Idle \/ ts[t].i \in 0 .. NRoots - 1

\* The elements a thread has read and is about to write (its open iteration).
Reads(t)  == IF ts[t].phase # "write" THEN {}
             ELSE IF ts[t].first THEN {1} ELSE {1, ts[t].i - 1}
Writes(t) == IF ts[t].phase # "write" THEN {} ELSE {ts[t].i}

(***************************************************************************)
(* No data race in the span fill: while a thread computes roots[i], no     *)
(* other thread reads or writes roots[i], and nobody writes an element     *)
(* another thread has read for its open iteration (roots[1] is read by     *)
(* every iteration).  The spans of the spec are independent.               *)
(***************************************************************************)
NoDataRace ==
  \A t, u \in Threads :
    t # u => Writes(t) \cap (Reads(u) \cup Writes(u)) = {}

(***************************************************************************)
(* When the constructor returns, roots[i] = roots[1]^i for every i, so     *)
(* roots[nRoots-1] * roots[1] = 1 (the assert), and powTwoInv[k] = 2^-k:   *)
(* the spans together cover [2, nRoots) and each element is computed from *)
(* its finished predecessor.                                               *)
(***************************************************************************)
TablesCorrect ==
  pc = "built" => roots = Roots /\ powTwoInv = PowTwoInv

\* The fill region ends and the constructor returns.
ConstructorTerminates == <>(pc = "built")
=============================================================================
