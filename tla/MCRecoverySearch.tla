-------------------------- MODULE MCRecoverySearch --------------------------
(***************************************************************************)
(* Model-checking instance of RecoverySearch: two labels (the smallest    *)
(* set in which candidate order matters), two digests, two keys and two   *)
(* addresses, so that two trials can both match, one trial can match a    *)
(* key of the wrong address, and two labels can share a digest.           *)
(***************************************************************************)
EXTENDS RecoverySearch

MCMaxCands == 2

\* Well-formed calls: 130 hex characters, hex r and s, v in {27, 28}.
MCSigLens == {130}
MCRsHex == {TRUE}
MCVBytes == {27, 28}
MCExpForms == {"0x", "0X"}

\* Widened domains, one per run that confronts the code with the spec.
MCSigLensBad == {128, 130}
MCRsHexBad == {FALSE, TRUE}
MCVBytesBad == {27, 29}
MCExpFormsBare == {"0x", "bare"}

=============================================================================
