--------------------------- MODULE VerifyMainProofs ---------------------------
(***************************************************************************)
(* Proofs about main of verify_tangem_signature: the printed verdict is   *)
(* right about what the phase-2 signature signs, for every recovery the   *)
(* signatures can have and every address the keys can have.  The two     *)
(* calls are instances of RecoverySearch; what is proved of one call in   *)
(* RecoverySearchProofs is used here through the instances R2 and R1 of   *)
(* that module, with the arguments main passes.                            *)
(***************************************************************************)
EXTENDS VerifyMain, SequenceTheorems, TLAPS

USE VerifyMainAssumption

R2 == INSTANCE RecoverySearchProofs
        WITH Labels <- MainLabels, Digests <- MainLabels, MaxCands <- 5,
             SigLens <- {130}, RsHex <- {TRUE}, VBytes <- {28},
             ExpForms <- {"0x"},
             sig <- phase2_signature, cands <- hash_candidates,
             hashOf <- digestOf, recover <- recover2,
             addrOf <- addrOf, expected <- expected_address,
             pc <- pc2, i <- i2, v <- v2, result <- result2

R1 == INSTANCE RecoverySearchProofs
        WITH Labels <- MainLabels, Digests <- MainLabels, MaxCands <- 5,
             SigLens <- {130}, RsHex <- {TRUE}, VBytes <- {28},
             ExpForms <- {"0x"},
             sig <- phase1_signature, cands <- hash_candidates,
             hashOf <- digestOf, recover <- recover1,
             addrOf <- addrOf, expected <- expected_address,
             pc <- pc1, i <- i1, v <- v1, result <- result1

\* The arguments main passes satisfy the assumptions of the search module.
LEMMA SearchAssumptionsHold ==
  /\ 5 \in Nat
  /\ {130} \subseteq Nat
  /\ {TRUE} \subseteq BOOLEAN
  /\ {28} \subseteq 0..255
  /\ {"0x"} \subseteq {"0x", "0X", "bare"}
  /\ Fail \notin PubKeys
  /\ {None, Pending} \cap [label : MainLabels, v : {27, 28}, addr : Addrs] = {}
OBVIOUS

\* Both calls are well formed: the hard-coded signatures are 130 hex
\* characters with v = 28 and the expected address has its 0x prefix.
LEMMA CallsWellFormed == R2!WellFormedCalls /\ R1!WellFormedCalls
BY DEF R2!WellFormedCalls, R1!WellFormedCalls, R2!SigHexLen, R1!SigHexLen,
   R2!AcceptedV, R1!AcceptedV

\* The candidate dict lists the five labels once each, the raw hash first.
LEMMA HashCandidatesFacts ==
  /\ HashCandidates = <<RawSafeTxHash, Sha256Once, Sha256Twice, Keccak256Once, PersonalSign>>
  /\ Len(HashCandidates) = 5
  /\ \A k \in 1..5 : HashCandidates[k] \in MainLabels
  /\ \A l \in MainLabels : \E k \in 1..5 : HashCandidates[k] = l
  /\ \A k \in 1..5 : HashCandidates[k] = RawSafeTxHash <=> k = 1
  /\ HashCandidates \in R2!CandSeqs
<1>1. HashCandidates = <<RawSafeTxHash, Sha256Once, Sha256Twice, Keccak256Once, PersonalSign>>
  <2> DEFINE s4 == <<RawSafeTxHash, Sha256Once, Sha256Twice, Keccak256Once>>
             s5 == <<RawSafeTxHash, Sha256Once, Sha256Twice, Keccak256Once, PersonalSign>>
  <2>1. s4 \in Seq(MainLabels) /\ Len(s4) = 4 /\ PersonalSign \in MainLabels
        /\ s5 \in Seq(MainLabels) /\ Len(s5) = 5
    BY DEF MainLabels
  <2>2. /\ Append(s4, PersonalSign) \in Seq(MainLabels)
        /\ Len(Append(s4, PersonalSign)) = 5
        /\ \A k \in 1..4 : Append(s4, PersonalSign)[k] = s4[k]
        /\ Append(s4, PersonalSign)[5] = PersonalSign
    BY <2>1, AppendProperties
  <2>3. \A k \in 1..5 : Append(s4, PersonalSign)[k] = s5[k]
    BY <2>2
  <2>. QED
    BY <2>1, <2>2, <2>3, SeqEqual DEF HashCandidates
<1>2. HashCandidates \in R2!Injection(1..5, MainLabels)
  BY <1>1 DEF R2!Injection, R2!IsInjective, MainLabels
<1>3. HashCandidates \in R2!CandSeqs
  <2>1. 5 \in 0..5
    OBVIOUS
  <2>. QED
    BY <1>2, <2>1 DEF R2!CandSeqs
<1>4. Len(HashCandidates) = 5
  BY <1>1
<1>5. \A k \in 1..5 : HashCandidates[k] \in MainLabels
  BY <1>1 DEF MainLabels
<1>6. \A l \in MainLabels : \E k \in 1..5 : HashCandidates[k] = l
  BY <1>1 DEF MainLabels
<1>7. \A k \in 1..5 : HashCandidates[k] = RawSafeTxHash <=> k = 1
  BY <1>1
<1>. QED
  BY <1>1, <1>3, <1>4, <1>5, <1>6, <1>7

-----------------------------------------------------------------------------
\* The data main fixes before its calls, which no step changes.
FixedData ==
  /\ hash_candidates = HashCandidates
  /\ digestOf = [l \in MainLabels |-> l]
  /\ expected_address = ExpectedText
  /\ phase2_signature = PhaseSig
  /\ phase1_signature = PhaseSig
  /\ recover2 \in RecoveryFns
  /\ recover1 \in RecoveryFns
  /\ addrOf \in [PubKeys -> Addrs]

\* The inductive invariant: the data is fixed, each call satisfies the
\* search's invariant, and once the phase-2 call has returned the verdict
\* printed is the one its result gives.
MInv ==
  /\ FixedData
  /\ R2!IInv
  /\ R1!IInv
  /\ stage \in {"phase2", "phase1", "done"}
  /\ verdict \in {"none", "failed", "success", "issue"}
  /\ stage # "phase2" => pc2 = "done" /\ verdict = Verdict(result2)

\* Under the fixed data, the arguments of both calls are of the search's
\* input domains.
LEMMA FixedInputsTyped ==
  ASSUME FixedData
  PROVE  /\ R2!InputsInit
         /\ R1!InputsInit
<1>1. /\ PhaseSig \in R2!SigTexts /\ PhaseSig \in R1!SigTexts
      /\ ExpectedText \in R2!ExpTexts /\ ExpectedText \in R1!ExpTexts
      /\ RecoveryFns = [MainLabels \X R2!Parities -> PubKeys \cup {Fail}]
      /\ RecoveryFns = [MainLabels \X R1!Parities -> PubKeys \cup {Fail}]
  BY DEF PhaseSig, R2!SigTexts, R1!SigTexts, ExpectedText, R2!ExpTexts,
     R1!ExpTexts, RecoveryFns, R2!Parities, R1!Parities, Parities
<1>2. [l \in MainLabels |-> l] \in [MainLabels -> MainLabels]
  OBVIOUS
<1>3. HashCandidates \in R1!CandSeqs
  BY HashCandidatesFacts DEF R2!CandSeqs, R1!CandSeqs, R2!Injection,
     R1!Injection, R2!IsInjective, R1!IsInjective
<1>4. R2!InputsInit
  BY <1>1, <1>2, HashCandidatesFacts DEF FixedData, R2!InputsInit
<1>5. R1!InputsInit
  BY <1>1, <1>2, <1>3 DEF FixedData, R1!InputsInit
<1>. QED
  BY <1>4, <1>5

\* The invariant holds when main starts.
LEMMA MInvInit == Init => MInv
<1> SUFFICES ASSUME Init PROVE MInv
  OBVIOUS
<1>1. FixedData
  BY VerifyMainAssumption DEF Init, FixedData
<1>2. R2!Init /\ R1!Init
  BY <1>1, FixedInputsTyped DEF Init, R2!Init, R1!Init
<1>3. R2!IInv /\ R1!IInv
  BY <1>2, SearchAssumptionsHold, R2!IInvInit, R1!IInvInit
<1>. QED
  BY <1>1, <1>3 DEF Init, MInv


\* A step of the phase-2 loop in main is a step of the search of call 2,
\* and likewise for phase 1.
LEMMA Phase2IsSearchStep == Phase2Step => R2!Next
BY DEF Phase2Step, R2!Next, Call2!StartSearch, R2!StartSearch, Call2!TrialMatch, R2!TrialMatch,
     Call2!TrialMiss, R2!TrialMiss, Call2!Exhaust, R2!Exhaust, Call2!Recovered,
     R2!Recovered, Call2!CodeEq, R2!CodeEq, Call2!Advance, R2!Advance,
     Call2!inputs, R2!inputs, Call2!SigHexLen, R2!SigHexLen, Call2!Lower,
     R2!Lower, Call2!ChecksumText, R2!ChecksumText

LEMMA Phase1IsSearchStep == Phase1Step => R1!Next
BY DEF Phase1Step, R1!Next, Call1!StartSearch, R1!StartSearch, Call1!TrialMatch, R1!TrialMatch,
     Call1!TrialMiss, R1!TrialMiss, Call1!Exhaust, R1!Exhaust, Call1!Recovered,
     R1!Recovered, Call1!CodeEq, R1!CodeEq, Call1!Advance, R1!Advance,
     Call1!inputs, R1!inputs, Call1!SigHexLen, R1!SigHexLen, Call1!Lower,
     R1!Lower, Call1!ChecksumText, R1!ChecksumText

\* The searches leave their inputs alone.
LEMMA CallsKeepInputs ==
  /\ Phase2Step => UNCHANGED <<data, recover2, recover1, call1>>
  /\ Phase1Step => UNCHANGED <<data, recover2, recover1, call2>>
<1>1. Phase2Step => UNCHANGED <<data, recover2, recover1, call1>>
  BY DEF Phase2Step, data, call1, Call2!StartSearch, Call2!TrialMatch,
     Call2!TrialMiss, Call2!Exhaust, Call2!inputs
<1>2. Phase1Step => UNCHANGED <<data, recover2, recover1, call2>>
  BY DEF Phase1Step, data, call2, Call1!StartSearch, Call1!TrialMatch,
     Call1!TrialMiss, Call1!Exhaust, Call1!inputs
<1>. QED
  BY <1>1, <1>2

\* Each step of main keeps the invariant.
LEMMA MInvStep == MInv /\ [Next]_vars => MInv'
<1> SUFFICES ASSUME MInv, [Next]_vars PROVE MInv'
  OBVIOUS
<1>0. \/ Phase2Step
      \/ Phase1Step
      \/ UNCHANGED <<data, recover2, recover1, call2, call1>>
  BY DEF Next, ReportPhase2, ReportPhase1, Exited, vars
<1>1. [R2!Next]_R2!vars /\ [R1!Next]_R1!vars
  <2>1. CASE Phase2Step
    BY <2>1, Phase2IsSearchStep, CallsKeepInputs DEF R1!vars, R1!inputs, data, call1
  <2>2. CASE Phase1Step
    BY <2>2, Phase1IsSearchStep, CallsKeepInputs DEF R2!vars, R2!inputs, data, call2
  <2>3. CASE UNCHANGED <<data, recover2, recover1, call2, call1>>
    BY <2>3 DEF R2!vars, R2!inputs, R1!vars, R1!inputs, data, call1, call2
  <2>. QED
    BY <1>0, <2>1, <2>2, <2>3
<1>2. R2!IInv' /\ R1!IInv'
  BY <1>1, CallsWellFormed, SearchAssumptionsHold, R2!IInvStep, R1!IInvStep
     DEF MInv
<1>3. FixedData'
  BY <1>0, CallsKeepInputs DEF MInv, FixedData, data
<1>4. /\ stage' \in {"phase2", "phase1", "done"}
      /\ verdict' \in {"none", "failed", "success", "issue"}
      /\ stage' # "phase2" => pc2' = "done" /\ verdict' = Verdict(result2')
  <2>1. CASE Phase2Step
    BY <2>1 DEF Phase2Step, MInv
  <2>2. CASE ReportPhase2
    BY <2>2 DEF ReportPhase2, MInv, Verdict, call2
  <2>3. CASE Phase1Step
    BY <2>3 DEF Phase1Step, MInv, call2
  <2>4. CASE ReportPhase1
    BY <2>4 DEF ReportPhase1, MInv, call2
  <2>5. CASE Exited \/ UNCHANGED vars
    BY <2>5 DEF Exited, MInv, vars, call2
  <2>. QED
    BY <2>1, <2>2, <2>3, <2>4, <2>5 DEF Next
<1>. QED
  BY <1>2, <1>3, <1>4 DEF MInv


-----------------------------------------------------------------------------
\* A trial of call 2 matches exactly when the phase-2 signature recovers the
\* registered address from that candidate's digest at that parity.
LEMMA MatchingIsSigned ==
  ASSUME FixedData
  PROVE  /\ \A t \in R2!Matching : /\ t = <<t[1], t[2]>>
                                  /\ t[1] \in 1..5 /\ t[2] \in {0, 1}
         /\ \A k \in 1..5 :
              Signed2(HashCandidates[k]) <=> \E p \in {0, 1} : <<k, p>> \in R2!Matching
<1>1. /\ Len(hash_candidates) = 5
      /\ \A k \in 1..5 : digestOf[hash_candidates[k]] = HashCandidates[k]
      /\ expected_address.addr = Registered
  BY HashCandidatesFacts DEF FixedData, ExpectedText
<1>2. \A t \in R2!Matching : t = <<t[1], t[2]>> /\ t[1] \in 1..5 /\ t[2] \in {0, 1}
  BY <1>1 DEF R2!Matching, R2!Trials, R2!Parities
<1>3. \A k \in 1..5, p \in {0, 1} :
        <<k, p>> \in R2!Matching <=>
          /\ recover2[<<HashCandidates[k], p>>] # Fail
          /\ addrOf[recover2[<<HashCandidates[k], p>>]] = Registered
  BY <1>1 DEF R2!Matching, R2!Trials, R2!Parities, R2!TrialKey
<1>. QED
  BY <1>2, <1>3 DEF Signed2, Parities

\* Once main has printed the phase-2 verdict, the verdict is right.
LEMMA VerdictCorrect ==
  ASSUME MInv
  PROVE  VerdictReflectsRecovery
<1> SUFFICES ASSUME stage \in {"phase1", "done"}
             PROVE  /\ (verdict = "success") <=> Signed2(RawSafeTxHash)
                    /\ verdict = "issue" => Signed2(result2.label) /\ ~Signed2(RawSafeTxHash)
                    /\ (verdict = "failed") <=> \A l \in MainLabels : ~Signed2(l)
  BY DEF VerifyMainAssumption, VerdictReflectsRecovery
<1>1. /\ pc2 = "done" /\ verdict = Verdict(result2)
      /\ FixedData /\ R2!IInv
  BY DEF MInv
<1>2. \/ R2!Matching = {} /\ result2 = None
      \/ \E t \in R2!Matching : R2!IsFirstMatch(t) /\ result2 = R2!Report(t)
  BY <1>1, CallsWellFormed, SearchAssumptionsHold, R2!DoneOutcome
<1>r. RawSafeTxHash \in MainLabels /\ HashCandidates[1] = RawSafeTxHash
  BY HashCandidatesFacts DEF MainLabels
<1>3. CASE R2!Matching = {} /\ result2 = None
  <2>1. verdict = "failed"
    BY <1>1, <1>3 DEF Verdict
  <2>2. \A l \in MainLabels : ~Signed2(l)
    BY <1>1, <1>3, MatchingIsSigned, HashCandidatesFacts
  <2>. QED
    BY <1>r, <2>1, <2>2
<1>4. CASE \E t \in R2!Matching : R2!IsFirstMatch(t) /\ result2 = R2!Report(t)
  <2>1. PICK t \in R2!Matching : R2!IsFirstMatch(t) /\ result2 = R2!Report(t)
    BY <1>4
  <2>2. t = <<t[1], t[2]>> /\ t[1] \in 1..5 /\ t[2] \in {0, 1}
    BY <1>1, <2>1, MatchingIsSigned
  <2>3. Signed2(HashCandidates[t[1]])
    BY <1>1, <2>1, <2>2, MatchingIsSigned
  <2>4. /\ result2.label = HashCandidates[t[1]]
        /\ result2 \in [label : MainLabels, v : {27, 28}, addr : Addrs]
    <3>1. R2!TrialKey(t) \in PubKeys
      <4>1. R2!TrialKey(t) = recover2[<<HashCandidates[t[1]], t[2]>>]
        BY <1>1, <2>2, HashCandidatesFacts DEF FixedData, R2!TrialKey
      <4>2. <<HashCandidates[t[1]], t[2]>> \in MainLabels \X Parities
        BY <2>2, HashCandidatesFacts DEF Parities
      <4>3. recover2[<<HashCandidates[t[1]], t[2]>>] \in PubKeys \cup {Fail}
        BY <1>1, <4>2 DEF FixedData, RecoveryFns
      <4>4. R2!TrialKey(t) # Fail
        BY <2>1 DEF R2!Matching
      <4>. QED
        BY <4>1, <4>3, <4>4
    <3>2. hash_candidates[t[1]] = HashCandidates[t[1]]
      BY <1>1 DEF FixedData
    <3>. QED
      BY <1>1, <2>1, <2>2, <3>1, <3>2, HashCandidatesFacts DEF FixedData, R2!Report
  <2>5. result2 # None
    BY <2>4, SearchAssumptionsHold
  <2>6. Signed2(RawSafeTxHash) <=> t[1] = 1
    <3>1. ASSUME Signed2(RawSafeTxHash) PROVE t[1] = 1
      <4>1. PICK p \in {0, 1} : <<1, p>> \in R2!Matching
        BY <1>1, <1>r, <3>1, MatchingIsSigned
      <4>2. ~R2!Before(<<1, p>>, t)
        BY <2>1, <4>1 DEF R2!IsFirstMatch
      <4>. QED
        BY <2>2, <4>2 DEF R2!Before
    <3>2. ASSUME t[1] = 1 PROVE Signed2(RawSafeTxHash)
      BY <1>r, <2>3, <3>2
    <3>. QED
      BY <3>1, <3>2
  <2>7. verdict = IF t[1] = 1 THEN "success" ELSE "issue"
    BY <1>1, <2>2, <2>4, <2>5, HashCandidatesFacts DEF Verdict
  <2>8. ~\A l \in MainLabels : ~Signed2(l)
    BY <2>2, <2>3, HashCandidatesFacts
  <2>. QED
    BY <2>3, <2>4, <2>6, <2>7, <2>8
<1>. QED
  BY <1>2, <1>3, <1>4

\* The verdict main prints after its phase-2 call says what the phase-2
\* signature signs, for every recovery the two signatures can have, every
\* address the recovered keys can have, and every value of the constants:
\* "SignRaw implementation is working" exactly when it recovers the
\* registered address from the raw safeTxHash, "Still signing X" only when
\* the raw hash does not and X does, and "failed" exactly when no
\* candidate does.
THEOREM MainVerdictCorrect == Spec => []VerdictReflectsRecovery
<1>1. Init => MInv
  BY MInvInit
<1>2. MInv /\ [Next]_vars => MInv'
  BY MInvStep
<1>3. MInv => VerdictReflectsRecovery
  BY VerdictCorrect
<1>. QED
  BY <1>1, <1>2, <1>3, PTL DEF Spec


\* The invariant gives the type of every variable of main.
LEMMA MInvTyped == MInv => TypeOK
<1> SUFFICES ASSUME MInv PROVE TypeOK
  OBVIOUS
<1>1. FixedData /\ R2!TypeOK /\ R1!TypeOK
  BY DEF MInv, R2!IInv, R1!IInv
<1>2. /\ pc2 \in {"parse", "trial", "done"} /\ pc1 \in {"parse", "trial", "done"}
      /\ i2 \in 1..(Len(HashCandidates) + 1) /\ i1 \in 1..(Len(HashCandidates) + 1)
      /\ v2 \in {27, 28} /\ v1 \in {27, 28}
      /\ result2 \in {Pending, None} \cup [label : MainLabels, v : {27, 28}, addr : Addrs]
      /\ result1 \in {Pending, None} \cup [label : MainLabels, v : {27, 28}, addr : Addrs]
  BY <1>1 DEF FixedData, R2!TypeOK, R1!TypeOK
<1>. QED
  BY <1>1, <1>2 DEF MInv, FixedData, TypeOK, call2, call1

\* Every state main reaches is well typed, for every value of the constants.
THEOREM MainTypeCorrect == Spec => []TypeOK
<1>1. Init => MInv
  BY MInvInit
<1>2. MInv /\ [Next]_vars => MInv'
  BY MInvStep
<1>3. MInv => TypeOK
  BY MInvTyped
<1>. QED
  BY <1>1, <1>2, <1>3, PTL DEF Spec

=============================================================================
