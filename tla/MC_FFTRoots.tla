------------------------------ MODULE MC_FFTRoots ------------------------------
EXTENDS FFTRoots

(***************************************************************************)
(* F_193: 193 - 1 = 64 * 3, so domains up to 64 have their roots.         *)
(* MC_FFTRoots_64, nRoots = 64: two threads give nSpan = 20 and increment  *)
(* 3 (spans of three elements, the first [2, 3), the last of seven);       *)
(* seven threads give nSpan = 70 and increment 0, where only the last      *)
(* span, [0, 64), does any work.  Four to six threads give increment 1 and *)
(* the race of MC_FFTRoots_32 (nRoots = 32, two threads, increment 1:      *)
(* span 1 is [1, 2)).                                                      *)
(***************************************************************************)
=============================================================================
