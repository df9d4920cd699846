------------------------------ MODULE FindMatch ------------------------------
(***************************************************************************)
(* The abstract specification of one findMatch call (spec 4.4): the call  *)
(* takes its inputs and, in a single step, returns the contract's Answer. *)
(* Nothing about the order in which trials are tried is visible here;     *)
(* RecoverySearch is shown to implement this module.                      *)
(***************************************************************************)
EXTENDS SearchInputs

VARIABLE answer

vars == <<inputs, answer>>

Init == InputsInit /\ answer = Pending

\* The call returns: the answer goes from Pending to the contract's value.
Decide ==
  /\ answer = Pending
  /\ answer' = Answer
  /\ UNCHANGED inputs

Spec == Init /\ [][Decide]_vars /\ WF_vars(Decide)

=============================================================================
