---------------------------- MODULE MC_IcicleShim ----------------------------
EXTENDS IcicleShim

(***************************************************************************)
(* Three callers, so that two can race into call_once or ensure_domain    *)
(* while a third is elsewhere.  n = 0 takes msm_g1's early return, n = 1  *)
(* the device path; scalar size 32 is Fr, 16 is rejected.  ntt sizes 0    *)
(* and 3 are rejected; 1 and 2 give logn 0 and 1, two distinct domains.  *)
(***************************************************************************)
CONSTANTS c1, c2, c3

MCCallers == {c1, c2, c3}
=============================================================================
