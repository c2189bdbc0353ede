---------------------------- MODULE BlockingCall ----------------------------
(***************************************************************************)
(* What the FFT and MSM engines promise a caller (spec sections 5 and 6):  *)
(* a call blocks until it completes, and it then returns the result of the *)
(* arguments it was given.  Nothing of the computation is visible before   *)
(* it returns, and the arguments do not change while it runs.              *)
(***************************************************************************)
CONSTANTS
  Args,        \* the arguments a caller may pass
  Result(_),   \* the result the operation must return for them
  NoResult     \* what the caller holds while the call has not returned

VARIABLES
  status,      \* "idle", "busy" or "done"
  arg,         \* the arguments of the last call
  out          \* the result returned by the last call, or NoResult

vars == <<status, arg, out>>

Init == status = "idle" /\ arg \in Args /\ out = NoResult

\* A caller calls the operation; there is no second caller meanwhile.
Call(x) ==
  /\ status # "busy"
  /\ status' = "busy" /\ arg' = x /\ out' = NoResult

\* The call returns its result, in one step.
Return ==
  /\ status = "busy"
  /\ status' = "done" /\ out' = Result(arg)
  /\ UNCHANGED arg

Next == (\E x \in Args : Call(x)) \/ Return

SafeSpec == Init /\ [][Next]_vars

\* Every call returns: no cancellation, no timeout (spec section 5).  Return
\* is enabled exactly while a call is busy, so this is WF_vars(Return).
Returns == [](status = "busy" => <>(status = "done"))

Spec == SafeSpec /\ WF_vars(Return)
=============================================================================
