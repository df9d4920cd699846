----------------------------- MODULE WalletScan -----------------------------
(***************************************************************************)
(* The wallet scans: main of src/test_all_wallets.py (56-96) derives the  *)
(* address of every wallet key of the card, in dict order, and collects   *)
(* the wallets whose address equals the registered target; main of       *)
(* src/test_key_derivation.py (64-80) does the same with its own version  *)
(* of the derivation (compressed=True) and reports each match; and        *)
(* test_address_transformations of src/test_derivation_paths.py (40-75)  *)
(* compares the address of its one base key with the target, a scan of a *)
(* one-entry table.  The variable variant is the script under scan.  One  *)
(* step derives and compares one wallet.                                  *)
(***************************************************************************)
EXTENDS KeyDerivation, Sequences, Functions

CONSTANTS
  Variants,    \* the scripts whose scan is checked
  MaxWallets   \* bound on the number of wallet keys

ASSUME WalletScanAssumption ==
  /\ Variants \subseteq {"all_wallets", "key_derivation", "derivation_paths"}
  /\ MaxWallets \in Nat

VARIABLES
  variant,   \* the script: which copy of the derivation it calls
  wallets,   \* the wallet public key texts, in dict order
  target,    \* the registered address
  backend,   \* the eth_keys backend of the build
  pc,        \* "scan" in the loop, "done" after it
  i,         \* index of the next wallet
  matches    \* indices of the wallets reported as matching, in order

vars == <<variant, wallets, target, backend, pc, i, matches>>

WalletSeqs == UNION {[1..n -> KeyTexts] : n \in 0..MaxWallets}

\* derived_address: the address string of the version under scan.
Derived(k) ==
  IF variant = "all_wallets" THEN DeriveAllWallets(k, backend)
  ELSE IF variant = "key_derivation" THEN DeriveKeyDerivation(k, TRUE, backend)
  ELSE DeriveDerivationPaths(k, backend)

\* The registered address is some address a key of the model can have:
\* the address of a curve point, or one the code derives.
Targets ==
  { a \in {SpecAddress(k) : k \in KeyTexts} \cup
          {DeriveAllWallets(k, bk) : k \in KeyTexts, bk \in Backends} :
      a # Err /\ a.kind = "addr" }

Init ==
  /\ variant \in Variants
  /\ wallets \in WalletSeqs
  /\ target \in Targets
  /\ backend \in Backends
  /\ pc = "scan"
  /\ i = 1
  /\ matches = <<>>

\* Fault variant for mutation runs: the loop index advanced twice.
WalletDiffersSkip ==
  /\ pc = "scan"
  /\ i <= Len(wallets)
  /\ Derived(wallets[i]) # target
  /\ i' = i + 2
  /\ UNCHANGED <<variant, wallets, target, backend, pc, matches>>

\* Fault variant for mutation runs: the match is printed but not collected.
WalletMatchesNoAppend ==
  /\ pc = "scan"
  /\ i <= Len(wallets)
  /\ Derived(wallets[i]) = target
  /\ i' = i + 1
  /\ UNCHANGED <<variant, wallets, target, backend, pc, matches>>

\* derived_address.lower() == target_address.lower(): append the wallet.
WalletMatches ==
  /\ pc = "scan"
  /\ i <= Len(wallets)
  /\ Derived(wallets[i]) = target
  /\ matches' = Append(matches, i)
  /\ i' = i + 1
  /\ UNCHANGED <<variant, wallets, target, backend, pc>>

\* No match (an error string never equals an address): next wallet.
WalletDiffers ==
  /\ pc = "scan"
  /\ i <= Len(wallets)
  /\ Derived(wallets[i]) # target
  /\ i' = i + 1
  /\ UNCHANGED <<variant, wallets, target, backend, pc, matches>>

\* Every wallet scanned: the analysis reports the matches.
Finish ==
  /\ pc = "scan"
  /\ i > Len(wallets)
  /\ pc' = "done"
  /\ UNCHANGED <<variant, wallets, target, backend, i, matches>>

Finished == pc = "done" /\ UNCHANGED vars

Next == WalletMatches \/ WalletDiffers \/ Finish \/ Finished

\* The scan is one sequential loop that runs to its end.
Spec == Init /\ [][Next]_vars /\ WF_vars(Next)

-----------------------------------------------------------------------------
TypeOK ==
  /\ variant \in Variants
  /\ wallets \in WalletSeqs
  /\ target \in Targets
  /\ backend \in Backends
  /\ pc \in {"scan", "done"}
  /\ i \in 1..(Len(wallets) + 1)
  /\ matches \in Seq(1..Len(wallets))

\* The wallet key is, by the spec, an encoding of a curve point whose address
\* is the registered one.
SpecMatches(k) == SpecAddress(k) = target

\* Every wallet the scan reports as producing the registered address encodes
\* a valid curve point whose derived address really is the registered one.
MatchesSound == \A j \in Range(matches) : SpecMatches(wallets[j])

\* When the scan ends, every wallet that encodes a curve point with the
\* registered address has been reported as a match.
MatchesComplete ==
  pc = "done" => \A j \in 1..Len(wallets) : SpecMatches(wallets[j]) => j \in Range(matches)

=============================================================================
