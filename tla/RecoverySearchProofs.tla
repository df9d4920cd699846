------------------------- MODULE RecoverySearchProofs -------------------------
(***************************************************************************)
(* Proofs about RecoverySearch: type correctness for every value of the   *)
(* constants, and, for well-formed calls, that the loop's result is the   *)
(* contract's answer.                                                     *)
(***************************************************************************)
EXTENDS RecoverySearch, SequenceTheorems, WellFoundedInduction, TLAPS

USE InputsAssumption

\* A candidate sequence is a sequence of labels of length at most MaxCands.
LEMMA CandSeqFacts ==
  ASSUME NEW c \in CandSeqs
  PROVE  /\ c \in Seq(Labels)
         /\ Len(c) \in 0..MaxCands
         /\ \A k \in 1..Len(c) : c[k] \in Labels
<1>1. PICK n \in 0..MaxCands : c \in Injection(1..n, Labels)
  BY DEF CandSeqs
<1>2. c \in [1..n -> Labels]
  BY <1>1 DEF Injection
<1>3. c \in Seq(Labels)
  BY <1>2, SeqDef
<1>4. Len(c) = n
  BY <1>2, <1>3, LenProperties
<1>. QED
  BY <1>2, <1>3, <1>4

-----------------------------------------------------------------------------
\* One step of the loop keeps the state well typed.
LEMMA TypeStep == TypeOK /\ [Next]_vars => TypeOK'
<1> SUFFICES ASSUME TypeOK, [Next]_vars PROVE TypeOK'
  OBVIOUS
<1>0. /\ Len(cands) \in Nat
      /\ \A k \in 1..Len(cands) : cands[k] \in Labels
  BY CandSeqFacts DEF TypeOK, InputsTypeOK
<1>1. CASE RejectLength
  BY <1>1 DEF RejectLength, TypeOK, InputsTypeOK, inputs
<1>2. CASE StartSearch
  BY <1>2 DEF StartSearch, TypeOK, InputsTypeOK, inputs
<1>3. CASE TrialMatch
  <2>1. Recovered \in PubKeys
    BY <1>0, <1>3 DEF TrialMatch, Recovered, Parities, TypeOK, InputsTypeOK
  <2>. QED
    BY <1>0, <1>3, <2>1 DEF TrialMatch, TypeOK, InputsTypeOK, inputs
<1>4. CASE TrialMiss
  BY <1>0, <1>4 DEF TrialMiss, Advance, TypeOK, InputsTypeOK, inputs
<1>5. CASE Exhaust
  BY <1>5 DEF Exhaust, TypeOK, InputsTypeOK, inputs
<1>6. CASE Returned \/ UNCHANGED vars
  BY <1>6 DEF Returned, vars, inputs, TypeOK, InputsTypeOK
<1>. QED
  BY <1>1, <1>2, <1>3, <1>4, <1>5, <1>6 DEF Next

\* Every reachable state is well typed, for every value of the constants.
THEOREM TypeCorrect == Spec => []TypeOK
<1>1. Init => TypeOK
  BY CandSeqFacts DEF Init, InputsInit, TypeOK, InputsTypeOK, inputs
<1>2. TypeOK /\ [Next]_vars => TypeOK'
  BY TypeStep
<1>. QED
  BY <1>1, <1>2, PTL DEF Spec

-----------------------------------------------------------------------------
(***************************************************************************)
(* Well-formed calls: the signature text is 130 hex characters with hex   *)
(* r and s and an accepted v, and the expected address carries a 0x or    *)
(* 0X prefix.  These are the calls on which the code and the contract     *)
(* agree (MCRecoverySearch.cfg); the other calls are the violation runs.  *)
(***************************************************************************)
WellFormedCalls ==
  /\ SigLens \subseteq {SigHexLen}
  /\ RsHex \subseteq {TRUE}
  /\ VBytes \subseteq AcceptedV
  /\ ExpForms \subseteq {"0x", "0X"}

\* The inductive invariant: in the loop, no trial before the current one
\* matched, and the position <<Len(cands) + 1, 0>> is reached only with v = 27.
IInv ==
  /\ TypeOK
  /\ pc = "parse" => i = 1 /\ v = 27 /\ result = Pending
  /\ pc = "trial" => /\ result = Pending
                     /\ i = Len(cands) + 1 => v = 27
                     /\ \A t \in Matching : ~Before(t, <<i, v - 27>>)
  /\ pc = "done" => result = Answer

\* Two first matches are the same trial: Before is a strict total order.
LEMMA FirstMatchUnique ==
  ASSUME InputsTypeOK,
         NEW t1 \in Matching, NEW t2 \in Matching,
         IsFirstMatch(t1), IsFirstMatch(t2)
  PROVE  t1 = t2
<1>1. /\ t1 \in (1..Len(cands)) \X Parities
      /\ t2 \in (1..Len(cands)) \X Parities
  BY DEF Matching, Trials
<1>. QED
  BY <1>1 DEF IsFirstMatch, Before, Parities

\* On a well-formed call the comparison of the lowered texts is the
\* comparison of the addresses.
LEMMA CodeEqIsAddrEq ==
  ASSUME WellFormedCalls, InputsTypeOK, NEW a \in Addrs
  PROVE  CodeEq(a, expected) <=> a = expected.addr
<1>1. expected.form \in {"0x", "0X"}
  BY DEF WellFormedCalls, InputsTypeOK, ExpTexts
<1>2. Lower(ChecksumText(a)) = [addr |-> a, form |-> "0x"]
  BY DEF Lower, ChecksumText
<1>3. Lower(expected) = [addr |-> expected.addr, form |-> "0x"]
  BY <1>1 DEF Lower, InputsTypeOK, ExpTexts
<1>. QED
  BY <1>2, <1>3 DEF CodeEq

\* On a well-formed call the contract's answer is the search result.
LEMMA AnswerOfWellFormed ==
  ASSUME WellFormedCalls, InputsTypeOK
  PROVE  Answer = IF Matching = {} THEN None
                  ELSE Report(CHOOSE t \in Matching : IsFirstMatch(t))
<1>1. sig.len = SigHexLen /\ sig.rsHex /\ sig.v \in AcceptedV
  BY DEF WellFormedCalls, InputsTypeOK, SigTexts
<1>. QED
  BY <1>1 DEF Answer

\* The invariant holds initially.
LEMMA IInvInit == Init => IInv
BY CandSeqFacts DEF Init, InputsInit, IInv, TypeOK, InputsTypeOK

\* Each step of the loop keeps the invariant, on well-formed calls.
LEMMA IInvStep ==
  ASSUME WellFormedCalls
  PROVE  IInv /\ [Next]_vars => IInv'
<1> SUFFICES ASSUME IInv, [Next]_vars PROVE IInv'
  OBVIOUS
<1>t. TypeOK
  BY DEF IInv
<1>0. /\ TypeOK'
      /\ InputsTypeOK
      /\ Len(cands) \in Nat
      /\ \A k \in 1..Len(cands) : cands[k] \in Labels
      /\ v \in {27, 28}
      /\ sig.rsHex
  <2>1. TypeOK'
    BY <1>t, TypeStep
  <2>2. InputsTypeOK /\ v \in {27, 28}
    BY <1>t DEF TypeOK
  <2>3. Len(cands) \in Nat /\ \A k \in 1..Len(cands) : cands[k] \in Labels
    BY <2>2, CandSeqFacts DEF InputsTypeOK
  <2>4. sig.rsHex
    BY <2>2 DEF InputsTypeOK, WellFormedCalls, SigTexts
  <2>. QED
    BY <2>1, <2>2, <2>3, <2>4
\* The inputs never change, so neither does the contract's answer.
<1>a. UNCHANGED inputs => Answer' = Answer
  BY DEF inputs, Answer, Matching, Trials, TrialKey, IsFirstMatch, Report
<1>1. CASE RejectLength
  BY <1>0, <1>1 DEF RejectLength, WellFormedCalls, InputsTypeOK, SigTexts
<1>2. CASE StartSearch
  <2>1. \A t \in Matching : ~Before(t, <<1, 0>>)
    BY <1>0 DEF Matching, Trials, Before, Parities
  <2>. QED
    BY <1>2, <1>a, <2>1, <1>0 DEF StartSearch, IInv, inputs, Matching, Trials,
       TrialKey
<1>3. CASE TrialMatch
  <2> DEFINE t0 == <<i, v - 27>>
  <2>1. i \in 1..Len(cands) /\ v - 27 \in Parities
    BY <1>0, <1>3 DEF TrialMatch, IInv, TypeOK, Parities
  <2>2. Recovered = TrialKey(t0)
    BY <1>0 DEF Recovered, TrialKey
  <2>3. Recovered \in PubKeys
    BY <1>0, <1>3, <2>1, <2>2 DEF TrialMatch, TrialKey, InputsTypeOK, Parities
  <2>4. addrOf[Recovered] = expected.addr
    BY <1>0, <1>3, <2>3, CodeEqIsAddrEq DEF TrialMatch, InputsTypeOK
  <2>5. t0 \in Matching
    BY <2>1, <2>2, <2>3, <2>4, <1>3 DEF Matching, Trials, TrialMatch
  <2>6. IsFirstMatch(t0)
    BY <2>5, <1>3 DEF IsFirstMatch, IInv, TrialMatch
  <2>7. (CHOOSE t \in Matching : IsFirstMatch(t)) = t0
    BY <1>0, <2>5, <2>6, FirstMatchUnique
  <2>8. Answer = Report(t0)
    BY <1>0, <2>5, <2>7, AnswerOfWellFormed
  <2>9. result' = Report(t0)
    BY <1>0, <1>3, <2>2 DEF TrialMatch, Report
  <2>. QED
    BY <1>3, <1>0, <1>a, <2>8, <2>9 DEF TrialMatch, IInv
<1>4. CASE TrialMiss
  <2> DEFINE t0 == <<i, v - 27>>
  <2>1. i \in 1..Len(cands) /\ v \in {27, 28}
    BY <1>0, <1>4 DEF TrialMiss, IInv, TypeOK
  <2>2. t0 \notin Matching
    <3>1. Recovered = TrialKey(t0)
      BY <1>0 DEF Recovered, TrialKey
    <3>2. CASE Recovered = Fail
      BY <3>1, <3>2 DEF Matching
    <3>3. CASE Recovered # Fail /\ ~CodeEq(addrOf[Recovered], expected)
      <4>1. Recovered \in PubKeys
        BY <1>0, <2>1, <3>1, <3>3 DEF TrialKey, InputsTypeOK, Parities
      <4>. QED
        BY <1>0, <3>1, <3>3, <4>1, CodeEqIsAddrEq DEF Matching, InputsTypeOK
    <3>. QED
      BY <1>4, <3>2, <3>3 DEF TrialMiss
  <2>3. pc = "trial" /\ \A t \in Matching : ~Before(t, t0)
    BY <1>4 DEF TrialMiss, IInv
  <2>4. Matching' = Matching
    BY <1>4 DEF TrialMiss, inputs, Matching, Trials, TrialKey
  <2>5. CASE v = 27
    <3>1. i' = i /\ v' = 28
      BY <1>4, <2>5 DEF TrialMiss, Advance
    <3>2. \A t \in Matching : ~Before(t, <<i, 1>>)
      BY <2>1, <2>2, <2>3, <2>5 DEF Matching, Trials, Before, Parities
    <3>. QED
      BY <1>4, <1>0, <2>1, <2>4, <3>1, <3>2 DEF TrialMiss, IInv, inputs
  <2>6. CASE v = 28
    <3>1. i' = i + 1 /\ v' = 27
      BY <1>4, <2>6 DEF TrialMiss, Advance
    <3>2. \A t \in Matching : ~Before(t, <<i + 1, 0>>)
      BY <2>1, <2>2, <2>3, <2>6 DEF Matching, Trials, Before, Parities
    <3>. QED
      BY <1>4, <1>0, <2>4, <3>1, <3>2 DEF TrialMiss, IInv, inputs
  <2>. QED
    BY <2>1, <2>5, <2>6
<1>5. CASE Exhaust
  <2>1. i = Len(cands) + 1 /\ v = 27 /\ pc = "trial"
    BY <1>0, <1>5 DEF Exhaust, IInv, TypeOK
  <2>2. Matching = {}
    <3>1. \A t \in Matching : Before(t, <<i, v - 27>>)
      BY <2>1 DEF Matching, Trials, Before
    <3>. QED
      BY <2>1, <3>1 DEF IInv
  <2>3. Answer = None
    BY <1>0, <2>2, AnswerOfWellFormed
  <2>. QED
    BY <1>5, <1>0, <1>a, <2>3 DEF Exhaust, IInv
<1>6. CASE Returned \/ UNCHANGED vars
  BY <1>6, <1>0, <1>a DEF Returned, vars, IInv, inputs, Matching, Trials,
     TrialKey
<1>. QED
  BY <1>1, <1>2, <1>3, <1>4, <1>5, <1>6 DEF Next

\* On every well-formed call, for every value of the constants, once
\* verify_signature_recovery returns its result is the contract's answer:
\* the first matching (candidate, parity) in loop order, or None.
THEOREM SearchMeetsContract ==
  ASSUME WellFormedCalls
  PROVE  Spec => []ResultMeetsContract
<1>1. Init => IInv
  BY IInvInit
<1>2. IInv /\ [Next]_vars => IInv'
  BY IInvStep
<1>3. IInv => ResultMeetsContract
  BY DEF IInv, ResultMeetsContract
<1>. QED
  BY <1>1, <1>2, <1>3, PTL DEF Spec

\* The invariant includes the type invariant.
LEMMA IInvTyped == IInv => InputsTypeOK
BY DEF IInv, TypeOK

\* Every state satisfies the invariant, on well-formed calls.
LEMMA IInvAlways ==
  ASSUME WellFormedCalls
  PROVE  Spec => []IInv
BY IInvInit, IInvStep, PTL DEF Spec

\* On every well-formed call, the loop implements the single-step findMatch
\* of the spec: it starts in the abstract initial state, and each of its
\* steps either leaves the inputs and the result alone or is the abstract
\* step that returns the contract's answer.
THEOREM RefinesFindMatch ==
  ASSUME WellFormedCalls
  PROVE  Spec => Abs!Init /\ [][Abs!Decide]_<<inputs, result>>
<1>1. Init => Abs!Init
  BY DEF Init, Abs!Init, InputsInit, Abs!InputsInit, SigTexts, Abs!SigTexts,
     CandSeqs, Abs!CandSeqs, Injection, Abs!Injection, IsInjective,
     Abs!IsInjective, ExpTexts, Abs!ExpTexts, Parities, Abs!Parities
<1>2. IInv /\ IInv' /\ [Next]_vars => [Abs!Decide]_<<inputs, result>>
  <2> SUFFICES ASSUME IInv, IInv', [Next]_vars
               PROVE  [Abs!Decide]_<<inputs, result>>
    OBVIOUS
  <2>1. CASE TrialMatch \/ Exhaust
    <3>1. result = Pending /\ pc' = "done" /\ UNCHANGED inputs
      BY <2>1 DEF TrialMatch, Exhaust, IInv
    <3>2. result' = Answer'
      BY <3>1 DEF IInv
    <3>3. Answer' = Answer
      BY <3>1 DEF inputs, Answer, Matching, Trials, TrialKey, IsFirstMatch,
         Report
    <3>4. Abs!Answer = Answer
      BY DEF Abs!Answer, Answer, Abs!Matching, Matching, Abs!Trials, Trials,
         Abs!TrialKey, TrialKey, Abs!IsFirstMatch, IsFirstMatch, Abs!Report,
         Report, Abs!Before, Before, Abs!SigHexLen, SigHexLen, Abs!AcceptedV,
         AcceptedV, Abs!Parities, Parities
    <3>. QED
      BY <3>1, <3>2, <3>3, <3>4 DEF Abs!Decide, Abs!inputs, inputs
  <2>2. CASE RejectLength \/ StartSearch \/ TrialMiss
    <3>1. UNCHANGED inputs /\ UNCHANGED result
      <4>1. CASE RejectLength
        BY <4>1, IInvTyped DEF RejectLength, WellFormedCalls, InputsTypeOK, SigTexts
      <4>2. CASE StartSearch
        BY <4>2 DEF StartSearch
      <4>3. CASE TrialMiss
        BY <4>3 DEF TrialMiss
      <4>. QED
        BY <2>2, <4>1, <4>2, <4>3
    <3>. QED
      BY <3>1 DEF inputs
  <2>3. CASE Returned \/ UNCHANGED vars
    <3>1. UNCHANGED <<inputs, result>>
      BY <2>3 DEF Returned, vars, inputs
    <3>. QED
      BY <3>1
  <2>. QED
    BY <2>1, <2>2, <2>3 DEF Next
<1>. QED
  BY <1>1, <1>2, IInvAlways, PTL DEF Spec

-----------------------------------------------------------------------------
(***************************************************************************)
(* Reported matches are first matches, for every call, malformed ones      *)
(* included.  A trial can match in the code only when r and s are hex     *)
(* (otherwise int() raises) and the expected text carries a 0x or 0X      *)
(* prefix (otherwise the lowered texts differ); on such a call no trial   *)
(* before the loop's position matched.                                    *)
(***************************************************************************)
Searchable == sig.rsHex /\ expected.form \in {"0x", "0X"}

ResultTriples == [label : Labels, v : {27, 28}, addr : Addrs]

\* The inductive invariant behind ReportedMatchIsFirst.
RInv ==
  /\ TypeOK
  /\ pc = "parse" => i = 1 /\ v = 27 /\ result = Pending
  /\ pc = "trial" => /\ result = Pending
                     /\ Searchable => \A t \in Matching : ~Before(t, <<i, v - 27>>)
  /\ ReportedMatchIsFirst

\* The lowered texts are equal exactly when the expected text has a 0x or
\* 0X prefix and names the recovered address.
LEMMA CodeEqPrefixed ==
  ASSUME InputsTypeOK, NEW a \in Addrs
  PROVE  CodeEq(a, expected) <=> expected.form \in {"0x", "0X"} /\ a = expected.addr
<1>1. expected = [addr |-> expected.addr, form |-> expected.form]
      /\ expected.form \in {"0x", "0X", "bare"}
  BY InputsAssumption DEF InputsTypeOK, ExpTexts
<1>2. Lower(ChecksumText(a)) = [addr |-> a, form |-> "0x"]
  BY DEF Lower, ChecksumText
<1>3. Lower(expected) = [addr |-> expected.addr,
                         form |-> IF expected.form = "0X" THEN "0x" ELSE expected.form]
  BY <1>1 DEF Lower
<1>. QED
  BY <1>1, <1>2, <1>3 DEF CodeEq

\* The invariant holds initially: nothing is reported.
LEMMA RInvInit == Init => RInv
BY CandSeqFacts, InputsAssumption
   DEF Init, InputsInit, RInv, TypeOK, InputsTypeOK, ReportedMatchIsFirst

\* Each step of the loop keeps the invariant, whatever the inputs.
LEMMA RInvStep == RInv /\ [Next]_vars => RInv'
<1> SUFFICES ASSUME RInv, [Next]_vars PROVE RInv'
  OBVIOUS
<1>0. /\ TypeOK /\ TypeOK'
      /\ InputsTypeOK
      /\ Len(cands) \in Nat
      /\ \A k \in 1..Len(cands) : cands[k] \in Labels
      /\ v \in {27, 28}
  BY TypeStep, CandSeqFacts DEF RInv, TypeOK, InputsTypeOK
\* The inputs never change, so neither do the matching trials.
<1>a. UNCHANGED inputs => Matching' = Matching /\ Searchable' = Searchable
  BY DEF inputs, Matching, Trials, TrialKey, Searchable
<1>c. UNCHANGED inputs => \A t : /\ (IsFirstMatch(t))' = IsFirstMatch(t)
                               /\ (Report(t))' = Report(t)
  BY <1>a DEF IsFirstMatch, Before, Report, TrialKey, inputs
<1>b. UNCHANGED <<inputs, result>> => ReportedMatchIsFirst'
  BY <1>a, <1>c DEF RInv, ReportedMatchIsFirst
<1>n. None \notin ResultTriples
  BY InputsAssumption DEF ResultTriples
<1>1. CASE RejectLength
  BY <1>1, <1>0, <1>n, InputsAssumption
     DEF RejectLength, RInv, ReportedMatchIsFirst, ResultTriples
<1>2. CASE StartSearch
  <2>1. \A t \in Matching : ~Before(t, <<1, 0>>)
    BY <1>0 DEF Matching, Trials, Before, Parities
  <2>2. i' = 1 /\ v' = 27 /\ result' = Pending /\ pc' = "trial"
    BY <1>2 DEF StartSearch, RInv
  <2>3. Matching' = Matching /\ Searchable' = Searchable /\ ReportedMatchIsFirst'
    BY <1>2, <1>a, <1>b DEF StartSearch
  <2>. QED
    BY <1>0, <2>1, <2>2, <2>3 DEF RInv
<1>3. CASE TrialMatch
  <2> DEFINE t0 == <<i, v - 27>>
  <2>1. i \in 1..Len(cands) /\ v - 27 \in Parities /\ pc = "trial"
    BY <1>0, <1>3 DEF TrialMatch, Parities, TypeOK
  <2>2. sig.rsHex /\ Recovered = TrialKey(t0)
    BY <1>3 DEF TrialMatch, Recovered, TrialKey
  <2>3. Recovered \in PubKeys
    BY <1>0, <1>3, <2>1, <2>2 DEF TrialMatch, TrialKey, InputsTypeOK, Parities
  <2>4. expected.form \in {"0x", "0X"} /\ addrOf[Recovered] = expected.addr
    BY <1>0, <1>3, <2>3, CodeEqPrefixed DEF TrialMatch, InputsTypeOK
  <2>5. t0 \in Matching
    BY <2>1, <2>2, <2>3, <2>4 DEF Matching, Trials
  <2>6. IsFirstMatch(t0)
    BY <2>1, <2>2, <2>4, <2>5 DEF IsFirstMatch, RInv, Searchable
  <2>7. result' = Report(t0)
    BY <1>0, <1>3, <2>2 DEF TrialMatch, Report
  <2>8. /\ Matching' = Matching
        /\ \A t : /\ (IsFirstMatch(t))' = IsFirstMatch(t)
                  /\ (Report(t))' = Report(t)
    BY <1>3, <1>a, <1>c DEF TrialMatch
  <2>9. ReportedMatchIsFirst'
    <3>1. PICK t \in Matching : IsFirstMatch(t) /\ result' = Report(t)
      BY <2>5, <2>6, <2>7
    <3>2. t \in Matching' /\ (IsFirstMatch(t))' /\ result' = (Report(t))'
      BY <3>1, <2>8
    <3>. QED
      BY <3>2 DEF ReportedMatchIsFirst
  <2>. QED
    BY <1>3, <1>0, <2>9 DEF TrialMatch, RInv
<1>4. CASE TrialMiss
  <2> DEFINE t0 == <<i, v - 27>>
  <2>1. i \in 1..Len(cands) /\ pc = "trial" /\ result = Pending
    BY <1>0, <1>4 DEF TrialMiss, RInv, TypeOK
  <2>2. Searchable => t0 \notin Matching
    <3> SUFFICES ASSUME Searchable PROVE t0 \notin Matching
      OBVIOUS
    <3>1. Recovered = TrialKey(t0)
      BY DEF Searchable, Recovered, TrialKey
    <3>2. CASE Recovered = Fail
      BY <3>1, <3>2 DEF Matching
    <3>3. CASE Recovered # Fail /\ ~CodeEq(addrOf[Recovered], expected)
      <4>1. Recovered \in PubKeys
        BY <1>0, <2>1, <3>1, <3>3 DEF TrialKey, InputsTypeOK, Parities
      <4>. QED
        BY <1>0, <3>1, <3>3, <4>1, CodeEqPrefixed DEF Matching, InputsTypeOK,
           Searchable
    <3>. QED
      BY <1>4, <3>2, <3>3 DEF TrialMiss
  <2>3. Searchable => \A t \in Matching : ~Before(t, t0)
    BY <2>1 DEF RInv
  <2>4. CASE v = 27
    <3>1. i' = i /\ v' = 28
      BY <1>4, <2>4 DEF TrialMiss, Advance
    <3>2. Searchable => \A t \in Matching : ~Before(t, <<i, 1>>)
      BY <2>1, <2>2, <2>3, <2>4 DEF Matching, Trials, Before, Parities
    <3>. QED
      <4>1. /\ Matching' = Matching /\ Searchable' = Searchable
            /\ ReportedMatchIsFirst' /\ pc' = "trial" /\ result' = Pending
        BY <1>4, <1>a, <1>b, <2>1 DEF TrialMiss
      <4>. QED
        BY <1>0, <3>1, <3>2, <4>1 DEF RInv
  <2>5. CASE v = 28
    <3>1. i' = i + 1 /\ v' = 27
      BY <1>4, <2>5 DEF TrialMiss, Advance
    <3>2. Searchable => \A t \in Matching : ~Before(t, <<i + 1, 0>>)
      BY <2>1, <2>2, <2>3, <2>5 DEF Matching, Trials, Before, Parities
    <3>. QED
      <4>1. /\ Matching' = Matching /\ Searchable' = Searchable
            /\ ReportedMatchIsFirst' /\ pc' = "trial" /\ result' = Pending
        BY <1>4, <1>a, <1>b, <2>1 DEF TrialMiss
      <4>. QED
        BY <1>0, <3>1, <3>2, <4>1 DEF RInv
  <2>. QED
    BY <1>0, <2>4, <2>5
<1>5. CASE Exhaust
  BY <1>5, <1>0, <1>n DEF Exhaust, RInv, ReportedMatchIsFirst, ResultTriples
<1>6. CASE Returned \/ UNCHANGED vars
  <2>1. UNCHANGED <<inputs, pc, i, v, result>>
    BY <1>6 DEF Returned, vars
  <2>2. Matching' = Matching /\ Searchable' = Searchable /\ ReportedMatchIsFirst'
    BY <2>1, <1>a, <1>b
  <2>. QED
    BY <1>0, <2>1, <2>2 DEF RInv
<1>. QED
  BY <1>1, <1>2, <1>3, <1>4, <1>5, <1>6 DEF Next

\* For every call of verify_signature_recovery, malformed signatures and
\* expected texts included, and every value of the constants: a match it
\* returns is a real one, and no earlier (candidate, parity) trial matched.
THEOREM ReportsFirstMatch == Spec => []ReportedMatchIsFirst
<1>1. Init => RInv
  BY RInvInit
<1>2. RInv /\ [Next]_vars => RInv'
  BY RInvStep
<1>3. RInv => ReportedMatchIsFirst
  BY DEF RInv
<1>. QED
  BY <1>1, <1>2, <1>3, PTL DEF Spec

-----------------------------------------------------------------------------
\* A non-empty set of naturals has a least element: < is well founded.
LEMMA NatLeast ==
  ASSUME NEW T, T \subseteq Nat, T # {}
  PROVE  \E x \in T : \A y \in T : x <= y
<1>1. IsWellFoundedOn(OpToRel(<, Nat), Nat)
  BY NatLessThanWellFounded
<1>2. \E x \in T : \A y \in T : ~(<<y, x>> \in OpToRel(<, Nat))
  BY <1>1, WFMin
<1>3. \A x, y \in Nat : ~(<<y, x>> \in OpToRel(<, Nat)) => x <= y
  BY DEF OpToRel
<1>. QED
  BY <1>2, <1>3

\* Some trial matches exactly when there is a first one: < is well founded
\* on the candidate indices, and parity 0 comes before parity 1.
LEMMA FirstMatchExists ==
  ASSUME InputsTypeOK, Matching # {}
  PROVE  \E t \in Matching : IsFirstMatch(t)
<1>0. Len(cands) \in Nat
  BY CandSeqFacts DEF InputsTypeOK
<1> DEFINE K == {k \in 1..Len(cands) : \E p \in Parities : <<k, p>> \in Matching}
<1>1. K \subseteq Nat /\ K # {}
  BY <1>0 DEF Matching, Trials
<1>2. PICK k0 \in K : \A k \in K : k0 <= k
  BY <1>1, NatLeast
<1>3. \A u \in Matching : /\ u = <<u[1], u[2]>>
                          /\ u[1] \in Nat /\ k0 \in Nat /\ k0 <= u[1]
                          /\ u[2] \in {0, 1}
  <2>1. \A u \in Matching : u = <<u[1], u[2]>> /\ u[1] \in K /\ u[2] \in Parities
    BY <1>0 DEF Matching, Trials
  <2>. QED
    BY <1>1, <1>2, <2>1 DEF Parities
<1>4. CASE <<k0, 0>> \in Matching
  <2>1. \A u \in Matching : ~Before(u, <<k0, 0>>)
    BY <1>3 DEF Before
  <2>. QED
    BY <1>4, <2>1 DEF IsFirstMatch
<1>5. CASE <<k0, 0>> \notin Matching
  <2>1. <<k0, 1>> \in Matching
    BY <1>5 DEF Parities
  <2>2. \A u \in Matching : ~Before(u, <<k0, 1>>)
    BY <1>3, <1>5 DEF Before
  <2>. QED
    BY <2>1, <2>2 DEF IsFirstMatch
<1>. QED
  BY <1>4, <1>5

\* On a well-formed call that has returned, either no trial matched and
\* the result is None, or the result reports the first matching trial.
LEMMA DoneOutcome ==
  ASSUME WellFormedCalls, IInv, pc = "done"
  PROVE  \/ Matching = {} /\ result = None
         \/ \E t \in Matching : IsFirstMatch(t) /\ result = Report(t)
<1>1. InputsTypeOK /\ result = Answer
  BY DEF IInv, TypeOK
<1>2. CASE Matching = {}
  BY <1>1, <1>2, AnswerOfWellFormed
<1>3. CASE Matching # {}
  <2>1. \E t \in Matching : IsFirstMatch(t)
    BY <1>1, <1>3, FirstMatchExists
  <2>2. (CHOOSE t \in Matching : IsFirstMatch(t)) \in Matching
        /\ IsFirstMatch(CHOOSE t \in Matching : IsFirstMatch(t))
    BY <2>1
  <2>. QED
    BY <1>1, <1>3, <2>2, AnswerOfWellFormed
<1>. QED
  BY <1>2, <1>3

=============================================================================
