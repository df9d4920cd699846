------------------------------ MODULE VerifyMain ------------------------------
(***************************************************************************)
(* main of src/verify_tangem_signature.py (82-170): it builds the dict of  *)
(* five hash candidates of one safeTxHash, calls verify_signature_recovery *)
(* on the phase-2 signature, prints a verdict from the label of the match, *)
(* then calls it again on the phase-1 signature and prints that result.   *)
(*                                                                         *)
(* Each call is an instance of RecoverySearch with its own loop variables. *)
(* Both hard-coded signatures are "0x" and 130 hex characters ending in    *)
(* the v byte 0x1c = 28; the expected address is a "0x" lowercase text.   *)
(* The five digests are distinct (five different hashes of one value), so *)
(* a label stands for its digest.  What eth_keys recovers for each call   *)
(* (it depends on r and s) is an input: recover2 and recover1.            *)
(***************************************************************************)
EXTENDS Naturals, Sequences

CONSTANTS
  RawSafeTxHash, Sha256Once, Sha256Twice, Keccak256Once, PersonalSign,
                       \* the five dict keys of hash_candidates
  PubKeys,             \* public keys the recoveries can produce
  Addrs,               \* 20-byte addresses
  Registered,          \* expected_address (line 93)
  Fail, None, Pending, InvalidLength, InvalidHex, InvalidParity,
  Phase2Recoveries,    \* what the phase-2 signature recovers, per trial
  Phase1Recoveries     \* what the phase-1 signature recovers, per trial

MainLabels == {RawSafeTxHash, Sha256Once, Sha256Twice, Keccak256Once, PersonalSign}

Parities == {0, 1}

RecoveryFns == [MainLabels \X Parities -> PubKeys \cup {Fail}]

\* The five dict keys are distinct strings, and the markers None and Pending
\* are not result triples.
ASSUME VerifyMainAssumption ==
  /\ RawSafeTxHash \notin {Sha256Once, Sha256Twice, Keccak256Once, PersonalSign}
  /\ Sha256Once \notin {Sha256Twice, Keccak256Once, PersonalSign}
  /\ Sha256Twice \notin {Keccak256Once, PersonalSign}
  /\ Keccak256Once # PersonalSign
  /\ {None, Pending} \cap [label : MainLabels, v : {27, 28}, addr : Addrs] = {}
  /\ Registered \in Addrs
  /\ Fail \notin PubKeys
  /\ Phase2Recoveries \subseteq RecoveryFns
  /\ Phase1Recoveries \subseteq RecoveryFns

VARIABLES
  hash_candidates,      \* main's dict of candidates, in insertion order
  digestOf,             \* the digest stored under each label
  expected_address,     \* the expected address text
  phase2_signature, phase1_signature,  \* the signature texts
  recover2, recover1,   \* the key eth_keys recovers per (digest, recovery id)
  addrOf,               \* the address of a public key
  pc2, i2, v2, result2, \* the phase-2 call (line 120)
  pc1, i1, v1, result1, \* the phase-1 call (line 160)
  stage,                \* "phase2", "phase1" (after the verdict), "done"
  verdict               \* the verdict printed at lines 126-147

call2 == <<pc2, i2, v2, result2>>
call1 == <<pc1, i1, v1, result1>>
data == <<hash_candidates, digestOf, expected_address, phase2_signature,
          phase1_signature, addrOf>>
vars == <<data, recover2, recover1, call2, call1, stage, verdict>>

\* Fault variant for mutation runs: the raw hash added after the others.
HashCandidatesRawLast ==
  <<Sha256Once, Sha256Twice, Keccak256Once, PersonalSign, RawSafeTxHash>>

\* Lines 99-108: the dict in insertion order, personal sign added last.
HashCandidates ==
  Append(<<RawSafeTxHash, Sha256Once, Sha256Twice, Keccak256Once>>, PersonalSign)

\* Both signatures: 130 hex characters, r and s hex, v byte 0x1c.
PhaseSig == [len |-> 130, rsHex |-> TRUE, v |-> 28]

ExpectedText == [addr |-> Registered, form |-> "0x"]

Call2 == INSTANCE RecoverySearch
           WITH Labels <- MainLabels, Digests <- MainLabels, MaxCands <- 5,
                SigLens <- {130}, RsHex <- {TRUE}, VBytes <- {28},
                ExpForms <- {"0x"},
                sig <- phase2_signature, cands <- hash_candidates,
                hashOf <- digestOf, recover <- recover2,
                addrOf <- addrOf, expected <- expected_address,
                pc <- pc2, i <- i2, v <- v2, result <- result2

Call1 == INSTANCE RecoverySearch
           WITH Labels <- MainLabels, Digests <- MainLabels, MaxCands <- 5,
                SigLens <- {130}, RsHex <- {TRUE}, VBytes <- {28},
                ExpForms <- {"0x"},
                sig <- phase1_signature, cands <- hash_candidates,
                hashOf <- digestOf, recover <- recover1,
                addrOf <- addrOf, expected <- expected_address,
                pc <- pc1, i <- i1, v <- v1, result <- result1

\* Lines 91-108: the hard-coded data and the candidate dict.
Init ==
  /\ hash_candidates = HashCandidates
  /\ digestOf = [l \in MainLabels |-> l]
  /\ expected_address = ExpectedText
  /\ phase2_signature = PhaseSig
  /\ phase1_signature = PhaseSig
  /\ recover2 \in Phase2Recoveries
  /\ recover1 \in Phase1Recoveries
  /\ addrOf \in [PubKeys -> Addrs]
  /\ pc2 = "parse" /\ i2 = 1 /\ v2 = 27 /\ result2 = Pending
  /\ pc1 = "parse" /\ i1 = 1 /\ v1 = 27 /\ result1 = Pending
  /\ stage = "phase2"
  /\ verdict = "none"

\* Line 120: the phase-2 call runs, one iteration per step.  The length
\* check passes on the hard-coded signatures: RejectLength is never enabled.
Phase2Step ==
  /\ stage = "phase2"
  /\ \/ Call2!StartSearch
     \/ Call2!TrialMatch
     \/ Call2!TrialMiss
     \/ Call2!Exhaust
  /\ UNCHANGED <<phase1_signature, recover1, call1, stage, verdict>>

\* The verdict printed from `result`: nothing matched, the raw safeTxHash
\* matched, or another candidate matched.
Verdict(r) ==
  IF r = None THEN "failed"
  ELSE IF r.label = RawSafeTxHash THEN "success"
  ELSE "issue"

\* Lines 126-147: the phase-2 call has returned: print the verdict.
ReportPhase2 ==
  /\ stage = "phase2"
  /\ pc2 = "done"
  /\ verdict' = Verdict(result2)
  /\ stage' = "phase1"
  /\ UNCHANGED <<data, recover2, recover1, call2, call1>>

\* Line 160: the phase-1 call runs.
Phase1Step ==
  /\ stage = "phase1"
  /\ \/ Call1!StartSearch
     \/ Call1!TrialMatch
     \/ Call1!TrialMiss
     \/ Call1!Exhaust
  /\ UNCHANGED <<phase2_signature, recover2, call2, stage, verdict>>

\* Lines 166-170: the phase-1 call has returned: its result is printed.
ReportPhase1 ==
  /\ stage = "phase1"
  /\ pc1 = "done"
  /\ stage' = "done"
  /\ UNCHANGED <<data, recover2, recover1, call2, call1, verdict>>

Exited == stage = "done" /\ UNCHANGED vars

Next == Phase2Step \/ ReportPhase2 \/ Phase1Step \/ ReportPhase1 \/ Exited

\* main is one sequential thread that runs to its end.
Spec == Init /\ [][Next]_vars /\ WF_vars(Next)

-----------------------------------------------------------------------------
TypeOK ==
  /\ recover2 \in RecoveryFns
  /\ recover1 \in RecoveryFns
  /\ addrOf \in [PubKeys -> Addrs]
  /\ \A c \in {call2, call1} :
       /\ c[1] \in {"parse", "trial", "done"}
       /\ c[2] \in 1..(Len(HashCandidates) + 1)
       /\ c[3] \in {27, 28}
       /\ c[4] \in {Pending, None} \cup [label : MainLabels, v : {27, 28}, addr : Addrs]
  /\ stage \in {"phase2", "phase1", "done"}
  /\ verdict \in {"none", "failed", "success", "issue"}

\* The phase-2 signature recovers the registered address from the digest
\* of label l, under one of the two recovery ids.
Signed2(l) ==
  \E p \in Parities :
    /\ recover2[<<l, p>>] # Fail
    /\ addrOf[recover2[<<l, p>>]] = Registered

\* Once printed, main's verdict is right about what the phase-2 signature
\* signs: "SignRaw implementation is working" exactly when it recovers the
\* registered address from the raw safeTxHash; "Still signing {hash_type}"
\* only when the raw hash does not recover it and hash_type does; and
\* "doesn't recover to expected address for any hash candidate" exactly
\* when no candidate does.  It rests on the raw hash being first in the
\* dict and on the search returning the first match.
VerdictReflectsRecovery ==
  stage \in {"phase1", "done"} =>
    /\ (verdict = "success") <=> Signed2(RawSafeTxHash)
    /\ verdict = "issue" => Signed2(result2.label) /\ ~Signed2(RawSafeTxHash)
    /\ (verdict = "failed") <=> \A l \in MainLabels : ~Signed2(l)

=============================================================================
