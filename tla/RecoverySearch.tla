---------------------------- MODULE RecoverySearch ----------------------------
(***************************************************************************)
(* verify_signature_recovery (src/verify_tangem_signature.py, 14-80): the *)
(* length check on the signature text, then the nested loop over the      *)
(* hash candidates (outer, dict order) and v in [27, 28] (inner), where   *)
(* each iteration parses r and s, recovers a public key with eth_keys,    *)
(* derives its checksum address and compares it with the expected text,  *)
(* returning at the first match.  One step is one loop iteration.         *)
(***************************************************************************)
EXTENDS SearchInputs

VARIABLES
  pc,      \* "parse" before the length check, "trial" in the loop, "done" after return
  i,       \* 1-based index of the current candidate (enumerate(..., 1))
  v,       \* the inner loop's v_int, 27 or 28
  result   \* Pending until the function returns, then None or the match triple

vars == <<inputs, pc, i, v, result>>

Init ==
  /\ InputsInit
  /\ pc = "parse"
  /\ i = 1
  /\ v = 27
  /\ result = Pending

\* The text form of an address: to_checksum_address yields "0x" and mixed
\* case hex; .lower() folds the case of the hex and of an "0X" prefix.
ChecksumText(a) == [addr |-> a, form |-> "0x"]

Lower(t) == [t EXCEPT !.form = IF @ = "0X" THEN "0x" ELSE @]

\* Fault variant for mutation runs: the texts compared without .lower().
CodeEqCaseSensitive(a, e) == ChecksumText(a) = e

\* recovered_address.lower() == expected_address.lower()
CodeEq(a, e) == Lower(ChecksumText(a)) = Lower(e)

\* Fault variant for mutation runs: recovery_id = 28 - v_int.
RecoveredIdFlipped == IF sig.rsHex THEN recover[<<hashOf[cands[i]], 28 - v>>] ELSE Fail

\* The key one iteration recovers: int(r_hex, 16) and int(s_hex, 16) raise
\* on non-hex text; otherwise recovery_id = v_int - 27 and eth_keys either
\* recovers a key or raises.
Recovered == IF sig.rsHex THEN recover[<<hashOf[cands[i]], v - 27>>] ELSE Fail

\* Move to the next trial: v 27 -> 28 within a candidate, then the next candidate.
Advance ==
  IF v = 27 THEN v' = 28 /\ i' = i
            ELSE v' = 27 /\ i' = i + 1

\* Lines 27-29: a signature that is not 130 hex characters returns None.
RejectLength ==
  /\ pc = "parse"
  /\ sig.len # SigHexLen
  /\ pc' = "done"
  /\ result' = None
  /\ UNCHANGED <<inputs, i, v>>

\* Lines 31-43: split r, s, v and enter the loop at the first candidate.
StartSearch ==
  /\ pc = "parse"
  /\ sig.len = SigHexLen
  /\ pc' = "trial"
  /\ UNCHANGED <<inputs, i, v, result>>

\* Fault variant for mutation runs: the recovery id is returned instead of v_int.
TrialMatchReturnsRecId ==
  /\ pc = "trial"
  /\ i <= Len(cands)
  /\ Recovered # Fail
  /\ CodeEq(addrOf[Recovered], expected)
  /\ pc' = "done"
  /\ result' = [label |-> cands[i], v |-> v - 27, addr |-> addrOf[Recovered]]
  /\ UNCHANGED <<inputs, i, v>>

\* Lines 50-69: the recovered address equals the expected one: return.
TrialMatch ==
  /\ pc = "trial"
  /\ i <= Len(cands)
  /\ Recovered # Fail
  /\ CodeEq(addrOf[Recovered], expected)
  /\ pc' = "done"
  /\ result' = [label |-> cands[i], v |-> v, addr |-> addrOf[Recovered]]
  /\ UNCHANGED <<inputs, i, v>>

\* Lines 50-72: the iteration raised (caught at 71) or the address differs:
\* go on with the next trial.
TrialMiss ==
  /\ pc = "trial"
  /\ i <= Len(cands)
  /\ \/ Recovered = Fail
     \/ Recovered # Fail /\ ~CodeEq(addrOf[Recovered], expected)
  /\ Advance
  /\ UNCHANGED <<inputs, pc, result>>

\* Fault variant for mutation runs: the loop is left one candidate early.
ExhaustEarly ==
  /\ pc = "trial"
  /\ i >= Len(cands)
  /\ pc' = "done"
  /\ result' = None
  /\ UNCHANGED <<inputs, i, v>>

\* Lines 79-80: every candidate tried without a match: return None.
Exhaust ==
  /\ pc = "trial"
  /\ i > Len(cands)
  /\ pc' = "done"
  /\ result' = None
  /\ UNCHANGED <<inputs, i, v>>

\* The function has returned; the caller holds the result.
Returned == pc = "done" /\ UNCHANGED vars

Next ==
  \/ RejectLength
  \/ StartSearch
  \/ TrialMatch
  \/ TrialMiss
  \/ Exhaust
  \/ Returned

\* The function runs to completion once called: its single thread keeps
\* taking steps.
Spec == Init /\ [][Next]_vars /\ WF_vars(Next)

-----------------------------------------------------------------------------
TypeOK ==
  /\ InputsTypeOK
  /\ pc \in {"parse", "trial", "done"}
  /\ i \in 1..(Len(cands) + 1)
  /\ v \in {27, 28}
  /\ result \in {Pending, None} \cup
                [label : Labels, v : {27, 28}, addr : Addrs]

\* Once verify_signature_recovery has returned, its result is the
\* contract's answer: the first (candidate, parity) in candidate-major,
\* parity-minor order whose key has the expected address, None when there
\* is none, and the typed error for a malformed signature.
ResultMeetsContract == pc = "done" => result = Answer

\* Whatever the inputs, a match verify_signature_recovery reports is a real
\* one (the recovered key's address equals the expected address as bytes)
\* and no earlier (candidate, parity) trial in the loop order matched.
ReportedMatchIsFirst ==
  result \in [label : Labels, v : {27, 28}, addr : Addrs] =>
    \E t \in Matching : IsFirstMatch(t) /\ result = Report(t)

Abs == INSTANCE FindMatch WITH answer <- result

\* The loop, with its intermediate states hidden, is the single-step
\* findMatch of the spec: each call returns, and returns the contract's answer.
ImplementsFindMatch == Abs!Spec

=============================================================================
