------------------------------ MODULE FFTField ------------------------------
(***************************************************************************)
(* The field F_P that stands for Fr in the models of fft.cpp, and the      *)
(* tables the FFT constructor (FFT<Field>::FFT) computes from it: nqr, s,  *)
(* roots and powTwoInv, as the values its loops produce.  FFT uses them as *)
(* the engine's immutable tables; FFTRoots builds roots the way the        *)
(* constructor's parallel region does and compares with Roots.             *)
(***************************************************************************)
EXTENDS Naturals

CONSTANTS
  P,              \* the prime of the field
  MaxDomainSize   \* the constructor's maxDomainSize

FAdd(x, y) == (x + y) % P
FSub(x, y) == (x - y + P) % P
FMul(x, y) == (x * y) % P

RECURSIVE PowMod(_, _)
PowMod(b, e) ==
  IF e = 0 THEN 1
  ELSE LET h == PowMod(b, e \div 2)
       IN  FMul(FMul(h, h), IF e % 2 = 1 THEN b ELSE 1)

\* FFT<Field>::log2: halves n until it is 1 (never returns for n = 0)
RECURSIVE Log2(_)
Log2(n) == IF n = 1 THEN 0 ELSE 1 + Log2(n \div 2)

DomainPow == Log2(MaxDomainSize)

\* nqr: the first x >= 2 with x^((P-1)/2) # 1
Nqr == CHOOSE x \in 2 .. P - 1 :
         /\ PowMod(x, (P - 1) \div 2) # 1
         /\ \A y \in 2 .. x - 1 : PowMod(y, (P - 1) \div 2) = 1

(***************************************************************************)
(* s = 1, aux = (P-1)/2; while aux is even and s < domainPow: aux = aux/2, *)
(* s = s + 1.  The constructor throws when s < domainPow at the end.       *)
(***************************************************************************)
RECURSIVE TwoAdic(_, _)
TwoAdic(s, aux) ==
  IF aux % 2 = 0 /\ s < DomainPow THEN TwoAdic(s + 1, aux \div 2)
  ELSE [s |-> s, aux |-> aux]

S      == TwoAdic(1, (P - 1) \div 2).s
NRoots == 2^S

\* roots[i] = roots[1]^i with roots[1] = nqr^aux, a primitive 2^s-th root
Roots == LET w == PowMod(Nqr, TwoAdic(1, (P - 1) \div 2).aux)
         IN  [i \in 0 .. NRoots - 1 |-> PowMod(w, i)]

\* powTwoInv[k] = (2^-1)^k
PowTwoInv == [k \in 0 .. S |-> PowMod((P + 1) \div 2, k)]

ASSUME S >= DomainPow   \* construction succeeded

\* root(s, j) of fft.hpp: the j-th power of the primitive 2^s-th root
Root(s, j) == Roots[j * 2^(S - s)]

=============================================================================
