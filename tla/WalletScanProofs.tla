--------------------------- MODULE WalletScanProofs ---------------------------
(***************************************************************************)
(* Proofs about WalletScan: type correctness for every value of the       *)
(* constants, and, when every key in the table is a valid encoding of a   *)
(* curve point whose X does not begin with 0x04, that every wallet a scan *)
(* reports really has the registered address (for all three scripts and  *)
(* both eth_keys backends).                                               *)
(***************************************************************************)
EXTENDS WalletScan, SequenceTheorems, TLAPS

USE KeyDerivationAssumption, WalletScanAssumption

\* A wallet table is a sequence of key texts of length at most MaxWallets.
LEMMA WalletSeqFacts ==
  ASSUME NEW w \in WalletSeqs
  PROVE  /\ w \in Seq(KeyTexts)
         /\ Len(w) \in 0..MaxWallets
<1>1. PICK n \in 0..MaxWallets : w \in [1..n -> KeyTexts]
  BY DEF WalletSeqs
<1>2. w \in Seq(KeyTexts)
  BY <1>1, SeqDef
<1>. QED
  BY <1>1, <1>2, LenProperties

\* One step of a scan keeps the state well typed.
LEMMA ScanTypeStep == TypeOK /\ [Next]_vars => TypeOK'
<1> SUFFICES ASSUME TypeOK, [Next]_vars PROVE TypeOK'
  OBVIOUS
<1>0. /\ wallets \in Seq(KeyTexts)
      /\ Len(wallets) \in Nat
  BY WalletSeqFacts DEF TypeOK
<1>1. CASE WalletMatches
  <2>1. i \in 1..Len(wallets)
    BY <1>1 DEF WalletMatches, TypeOK
  <2>2. /\ Append(matches, i) \in Seq(1..Len(wallets))
    BY <2>1, AppendProperties DEF TypeOK
  <2>. QED
    BY <1>0, <1>1, <2>2 DEF WalletMatches, TypeOK
<1>2. CASE WalletDiffers
  BY <1>0, <1>2 DEF WalletDiffers, TypeOK
<1>3. CASE Finish
  BY <1>3 DEF Finish, TypeOK
<1>4. CASE Finished \/ UNCHANGED vars
  BY <1>4 DEF Finished, vars, TypeOK
<1>. QED
  BY <1>1, <1>2, <1>3, <1>4 DEF Next

\* Every reachable state of a scan is well typed, for every value of the
\* constants.
THEOREM ScanTypeCorrect == Spec => []TypeOK
<1>1. Init => TypeOK
  BY EmptySeq DEF Init, TypeOK
<1>2. TypeOK /\ [Next]_vars => TypeOK'
  BY ScanTypeStep
<1>. QED
  BY <1>1, <1>2, PTL DEF Spec

-----------------------------------------------------------------------------
(***************************************************************************)
(* Soundness on valid keys.  ValidKeys restricts the key domain to         *)
(* encodings of curve points (every X has a root, Y is one of the roots,  *)
(* 65-byte keys have the 0x04 lead) whose X does not begin with 0x04:     *)
(* the domain on which the three derivations agree with the spec.         *)
(***************************************************************************)
ValidKeys ==
  /\ X04 = {}
  /\ PrefLeads \subseteq {4}
  /\ YForms \subseteq {"even", "odd"}
  /\ CurveXs = Xs

\* The compressed branch, when it yields an address, yields the spec's.
LEMMA CompressedPathSound ==
  ASSUME ValidKeys, NEW k \in KeyTexts, NEW bk,
         k.bytes \in [len : {33}, lead : CompLeads, x : Xs],
         CompressedPath(k, bk).kind = "addr"
  PROVE  CompressedPath(k, bk) = SpecAddress(k)
<1> DEFINE b == k.bytes
<1>1. k.hex /\ b.lead \in {2, 3}
  BY DEF CompressedPath, FromCompressed, ErrorText, Err
<1>2. FromCompressed(b, bk) = [len |-> 64, x |-> b.x, y |-> IF b.lead = 2 THEN "even" ELSE "odd"]
  BY <1>1 DEF ValidKeys, FromCompressed
<1>3. StripPrefix(FromCompressed(b, bk)) = FromCompressed(b, bk)
  BY <1>2 DEF ValidKeys, StripPrefix, FirstByte
<1>4. Normalize(b) = FromCompressed(b, bk)
  BY <1>1, <1>2 DEF ValidKeys, Normalize
<1>. QED
  BY <1>1, <1>2, <1>3, <1>4 DEF CompressedPath, SpecAddress, KeccakAddress, Err

\* Each length class of KeyBytes, as a record set.
LEMMA KeyBytesCases ==
  ASSUME NEW b \in KeyBytes
  PROVE  \/ b \in [len : {33}, lead : CompLeads, x : Xs]
         \/ b \in [len : {65}, lead : PrefLeads, x : Xs, y : YForms]
         \/ b \in [len : {64}, x : Xs, y : YForms]
         \/ b \in [len : KeyLens \ {33, 64, 65}]
  BY DEF KeyBytes

\* On valid keys, whatever address a script's derivation returns is the
\* address the spec derives.
LEMMA DerivedSound ==
  ASSUME ValidKeys, NEW k \in KeyTexts, variant \in Variants,
         Derived(k).kind = "addr"
  PROVE  Derived(k) = SpecAddress(k)
<1> DEFINE b == k.bytes
<1>0. b \in KeyBytes
  BY DEF KeyTexts
<1>1. CASE b \in [len : {33}, lead : CompLeads, x : Xs]
  <2>1. Derived(k) = CompressedPath(k, backend)
    BY <1>1 DEF Derived, DeriveAllWallets, DeriveKeyDerivation, DeriveDerivationPaths
  <2>. QED
    BY <1>1, <2>1, CompressedPathSound
<1>2. CASE b \in [len : {65}, lead : PrefLeads, x : Xs, y : YForms]
  <2>1. Derived(k) \in {InvalidLen, ErrorText, KeccakAddress(StripPrefix(b))}
    BY <1>2 DEF Derived, DeriveAllWallets, DeriveKeyDerivation, DeriveDerivationPaths
  <2>2. Derived(k) = KeccakAddress(StripPrefix(b)) /\ k.hex
    BY <1>2, <2>1 DEF Derived, DeriveAllWallets, DeriveKeyDerivation,
                      DeriveDerivationPaths, InvalidLen, ErrorText
  <2>3. StripPrefix(b) = [len |-> 64, x |-> b.x, y |-> b.y]
    BY <1>2 DEF ValidKeys, StripPrefix, FirstByte
  <2>4. Normalize(b) = [len |-> 64, x |-> b.x, y |-> b.y]
    <3>1. b.len = 65 /\ b.lead = 4 /\ OnCurve(b.x, b.y)
      BY <1>2 DEF ValidKeys, OnCurve
    <3>. QED
      BY <3>1 DEF Normalize
  <2>. QED
    BY <2>2, <2>3, <2>4 DEF SpecAddress, KeccakAddress, Err
<1>3. CASE b \in [len : {64}, x : Xs, y : YForms]
  <2>1. Derived(k) \in {InvalidLen, ErrorText, KeccakAddress(StripPrefix(Prefix04(b)))}
    BY <1>3 DEF Derived, DeriveAllWallets, DeriveKeyDerivation, DeriveDerivationPaths
  <2>2. Derived(k) = KeccakAddress(StripPrefix(Prefix04(b))) /\ k.hex
    BY <1>3, <2>1 DEF Derived, DeriveAllWallets, DeriveKeyDerivation,
                      DeriveDerivationPaths, InvalidLen, ErrorText
  <2>3. StripPrefix(Prefix04(b)) = b
    BY <1>3 DEF StripPrefix, FirstByte, Prefix04
  <2>4. Normalize(b) = b
    <3>1. b.len = 64 /\ OnCurve(b.x, b.y)
      BY <1>3 DEF ValidKeys, OnCurve
    <3>. QED
      BY <3>1 DEF Normalize
  <2>5. Normalize(b) # Err
    BY <1>3, <2>4 DEF Err
  <2>. QED
    BY <2>2, <2>3, <2>4, <2>5 DEF SpecAddress, KeccakAddress
<1>4. CASE b \in [len : KeyLens \ {33, 64, 65}]
  BY <1>4 DEF Derived, DeriveAllWallets, DeriveKeyDerivation,
              DeriveDerivationPaths, InvalidLen
<1>. QED
  BY <1>0, <1>1, <1>2, <1>3, <1>4, KeyBytesCases

\* A wallet appended to the matches has the registered address by the spec.
LEMMA MatchAppendSound ==
  ASSUME ValidKeys, TypeOK, MatchesSound, WalletMatches
  PROVE  MatchesSound'
<1>0. /\ wallets \in Seq(KeyTexts)
      /\ i \in 1..Len(wallets)
      /\ matches \in Seq(1..Len(wallets))
  BY WalletSeqFacts DEF WalletMatches, TypeOK
<1>1. SpecMatches(wallets[i])
  <2>1. wallets[i] \in KeyTexts
    BY <1>0, ElementOfSeq
  <2>2. Derived(wallets[i]) = target /\ target.kind = "addr"
    BY DEF WalletMatches, TypeOK, Targets
  <2>3. Derived(wallets[i]) = SpecAddress(wallets[i])
    BY <2>1, <2>2, DerivedSound DEF TypeOK
  <2>. QED
    BY <2>2, <2>3 DEF SpecMatches
<1>2. ASSUME NEW j \in Range(matches') PROVE (SpecMatches(wallets[j]))'
  <2>1. PICK n \in DOMAIN matches' : j = matches'[n]
    BY <1>2 DEF Range
  <2>2. /\ DOMAIN matches' = 1..(Len(matches) + 1)
        /\ \A m \in 1..Len(matches) : matches'[m] = matches[m]
        /\ matches'[Len(matches) + 1] = i
    BY <1>0, AppendProperties DEF WalletMatches
  <2>3. CASE n \in 1..Len(matches)
    <3>1. j \in Range(matches)
      BY <1>0, <2>1, <2>2, <2>3, LenProperties DEF Range
    <3>. QED
      BY <3>1 DEF MatchesSound, SpecMatches, WalletMatches
  <2>4. CASE n = Len(matches) + 1
    BY <1>1, <2>1, <2>2, <2>4 DEF SpecMatches, WalletMatches
  <2>. QED
    BY <1>0, <2>2, <2>3, <2>4, LenProperties
<1>. QED
  BY <1>2 DEF MatchesSound

\* One step of a scan keeps every reported wallet a real match.
LEMMA SoundStep ==
  ASSUME ValidKeys, TypeOK, MatchesSound, [Next]_vars
  PROVE  MatchesSound'
<1>1. CASE WalletMatches
  BY <1>1, MatchAppendSound
<1>2. CASE WalletDiffers \/ Finish \/ Finished \/ UNCHANGED vars
  BY <1>2 DEF WalletDiffers, Finish, Finished, vars, MatchesSound, SpecMatches
<1>. QED
  BY <1>1, <1>2 DEF Next

\* When every wallet key is a valid encoding of a curve point whose X does
\* not begin with 0x04, every wallet any of the three scripts reports as
\* producing the registered address has that address by the spec, for
\* every table size and either eth_keys backend.
THEOREM ScanMatchesSound ==
  ASSUME ValidKeys
  PROVE  Spec => []MatchesSound
<1>1. Init => TypeOK /\ MatchesSound
  BY EmptySeq DEF Init, TypeOK, MatchesSound, Range
<1>2. TypeOK /\ MatchesSound /\ [Next]_vars => (TypeOK /\ MatchesSound)'
  BY ScanTypeStep, SoundStep
<1>. QED
  BY <1>1, <1>2, PTL DEF Spec


-----------------------------------------------------------------------------
(***************************************************************************)
(* Completeness of the all-wallets scan.  Whenever the spec derives an     *)
(* address from a key, test_all_wallets derives the same one, provided no *)
(* X begins with 0x04; no other condition on the keys is needed (keys off *)
(* the curve, bad lead bytes and non-hex text have no spec address).  The  *)
(* other two scripts are not complete: test_key_derivation rejects 64-byte *)
(* keys and test_derivation_paths every uncompressed key.                 *)
(***************************************************************************)

\* When the spec derives an address from a key, test_all_wallets derives
\* the same address, under either backend.
LEMMA AllWalletsComplete ==
  ASSUME X04 = {}, NEW k \in KeyTexts, NEW bk, SpecAddress(k) # Err
  PROVE  DeriveAllWallets(k, bk) = SpecAddress(k)
<1> DEFINE b == k.bytes
<1>0. b \in KeyBytes /\ k.hex /\ Normalize(b) # Err
      /\ SpecAddress(k) = Address(Normalize(b))
  BY DEF KeyTexts, SpecAddress
<1>1. CASE b \in [len : {33}, lead : CompLeads, x : Xs]
  <2>1. b.lead \in {2, 3} /\ b.x \in CurveXs
    BY <1>0, <1>1 DEF Normalize
  <2>2. FromCompressed(b, bk) = Normalize(b)
    BY <1>1, <2>1 DEF FromCompressed, Normalize
  <2>3. Normalize(b) = [len |-> 64, x |-> b.x, y |-> IF b.lead = 2 THEN "even" ELSE "odd"]
    BY <1>1, <2>1 DEF Normalize
  <2>4. StripPrefix(Normalize(b)) = Normalize(b)
    BY <2>3 DEF StripPrefix, FirstByte
  <2>5. FromCompressed(b, bk) # Err
    BY <2>2, <2>3 DEF Err
  <2>. QED
    BY <1>0, <1>1, <2>2, <2>4, <2>5 DEF DeriveAllWallets, CompressedPath, KeccakAddress
<1>2. CASE b \in [len : {64}, x : Xs, y : YForms]
  <2>1. Normalize(b) = b
    BY <1>0, <1>2 DEF Normalize
  <2>2. StripPrefix(Prefix04(b)) = b
    BY <1>2 DEF StripPrefix, FirstByte, Prefix04
  <2>. QED
    BY <1>0, <1>2, <2>1, <2>2 DEF DeriveAllWallets, KeccakAddress
<1>3. CASE b \in [len : {65}, lead : PrefLeads, x : Xs, y : YForms]
  <2>1. b.lead = 4
    BY <1>0, <1>3 DEF Normalize
  <2>2. Normalize(b) = [len |-> 64, x |-> b.x, y |-> b.y]
    BY <1>0, <1>3, <2>1 DEF Normalize
  <2>3. StripPrefix(b) = [len |-> 64, x |-> b.x, y |-> b.y]
    BY <1>3, <2>1 DEF StripPrefix, FirstByte
  <2>. QED
    BY <1>0, <1>3, <2>2, <2>3 DEF DeriveAllWallets, KeccakAddress
<1>4. CASE b \in [len : KeyLens \ {33, 64, 65}]
  BY <1>0, <1>4 DEF Normalize
<1>. QED
  BY <1>0, <1>1, <1>2, <1>3, <1>4, KeyBytesCases

\* The inductive invariant behind MatchesComplete: every wallet already
\* scanned that has the target address by the spec has been reported, and
\* the loop ends after the last wallet.
CInv ==
  /\ TypeOK
  /\ \A j \in 1..(i - 1) : SpecMatches(wallets[j]) => j \in Range(matches)
  /\ pc = "done" => i = Len(wallets) + 1

\* One step of the all-wallets scan keeps the invariant.
LEMMA CompleteStep ==
  ASSUME X04 = {}, Variants \subseteq {"all_wallets"}, CInv, [Next]_vars
  PROVE  CInv'
<1>0. /\ wallets \in Seq(KeyTexts) /\ Len(wallets) \in Nat
      /\ i \in 1..(Len(wallets) + 1)
      /\ matches \in Seq(1..Len(wallets))
      /\ TypeOK'
  BY WalletSeqFacts, ScanTypeStep DEF CInv, TypeOK
<1>1. CASE WalletMatches
  <2>1. /\ DOMAIN matches' = 1..(Len(matches) + 1)
        /\ matches'[Len(matches) + 1] = i
        /\ \A m \in 1..Len(matches) : matches'[m] = matches[m]
    BY <1>0, <1>1, AppendProperties DEF WalletMatches
  <2>2. DOMAIN matches = 1..Len(matches) /\ Len(matches) \in Nat
    BY <1>0, LenProperties
  <2>3. Range(matches) \subseteq Range(matches')
    <3>1. ASSUME NEW m \in 1..Len(matches) PROVE matches[m] \in Range(matches')
      BY <2>1, <2>2 DEF Range
    <3>. QED
      BY <2>2, <3>1 DEF Range
  <2>4. i \in Range(matches')
    BY <2>1, <2>2 DEF Range
  <2>5. \A j \in 1..(i' - 1) : SpecMatches(wallets'[j]) => j \in Range(matches')
    <3>1. i' = i + 1 /\ wallets' = wallets /\ target' = target
      BY <1>1 DEF WalletMatches
    <3>2. \A j \in 1..(i - 1) : SpecMatches(wallets[j]) => j \in Range(matches)
      BY DEF CInv
    <3>. QED
      BY <1>0, <2>3, <2>4, <3>1, <3>2 DEF SpecMatches
  <2>. QED
    BY <1>0, <1>1, <2>5 DEF WalletMatches, CInv, SpecMatches
<1>2. CASE WalletDiffers
  <2>1. i \in 1..Len(wallets) /\ wallets[i] \in KeyTexts
    BY <1>0, <1>2, ElementOfSeq DEF WalletDiffers
  <2>2. ~SpecMatches(wallets[i])
    <3>1. ASSUME SpecMatches(wallets[i]) PROVE FALSE
      <4>1. SpecAddress(wallets[i]) = target /\ target # Err
        BY <3>1 DEF SpecMatches, CInv, TypeOK, Targets
      <4>2. variant = "all_wallets"
        BY DEF CInv, TypeOK
      <4>3. Derived(wallets[i]) = SpecAddress(wallets[i])
        BY <2>1, <4>1, <4>2, AllWalletsComplete DEF Derived
      <4>. QED
        BY <1>2, <4>1, <4>3 DEF WalletDiffers
    <3>. QED
      BY <3>1
  <2>. QED
    BY <1>0, <1>2, <2>2 DEF WalletDiffers, CInv, SpecMatches
<1>3. CASE Finish
  BY <1>0, <1>3 DEF Finish, CInv, SpecMatches
<1>4. CASE Finished \/ UNCHANGED vars
  BY <1>0, <1>4 DEF Finished, vars, CInv, SpecMatches
<1>. QED
  BY <1>1, <1>2, <1>3, <1>4 DEF Next

\* When no X coordinate begins with 0x04, the all-wallets scan reports,
\* once it has ended, every wallet whose key the spec maps to the
\* registered address, for every table size, key domain and backend.
THEOREM AllWalletsMatchesComplete ==
  ASSUME X04 = {}, Variants \subseteq {"all_wallets"}
  PROVE  Spec => []MatchesComplete
<1>1. Init => CInv
  BY EmptySeq DEF Init, CInv, TypeOK
<1>2. CInv /\ [Next]_vars => CInv'
  BY CompleteStep
<1>3. CInv => MatchesComplete
  BY DEF CInv, MatchesComplete
<1>. QED
  BY <1>1, <1>2, <1>3, PTL DEF Spec

=============================================================================
