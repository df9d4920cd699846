---------------------------- MODULE MCVerifyMain ----------------------------
(***************************************************************************)
(* Model-checking instance of VerifyMain.  The phase-2 signature ranges   *)
(* over every pattern of success and failure of its ten trials, with one  *)
(* key that has the registered address or not (addrOf); the phase-1       *)
(* signature, whose result only is printed, recovers one other key in     *)
(* every trial or fails in every trial.                                   *)
(***************************************************************************)
EXTENDS VerifyMain

MCPhase2Recoveries == [MainLabels \X Parities -> {"k1", Fail}]

MCPhase1Recoveries ==
  {[t \in MainLabels \X Parities |-> r] : r \in {"k2", Fail}}

=============================================================================
