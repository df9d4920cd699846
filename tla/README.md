# Verification development for safe-android's signature and key tools

This directory holds TLA+ models of the Python tools under `src/`. Each model
is checked with TLC on small instances. The central results are proved for
every instance with TLAPS.

## 1. The system

The repository is a set of diagnostic scripts. They share two pieces of logic:

* **Recovery Search** (`verify_signature_recovery`,
  `src/verify_tangem_signature.py` 14-80). It strips `0x` and checks that the
  signature has 130 hex characters. It then walks the hash candidates in dict
  order. For each candidate it tries v = 27 and then v = 28:
  1. it parses r and s;
  2. it recovers the public key with eth_keys;
  3. it formats the checksum address;
  4. it compares that address to the expected one, case-insensitively.

  It returns `(name, v, address)` at the first match and `None` when every
  trial misses. An exception in a trial is printed and the search goes on.
  `main` (82-170) calls it twice, once for the phase-2 signature and once for
  the phase-1 signature, with five candidate digests.
* **Address derivation** (`derive_address_from_public_key`). It exists in
  three copies:

  | copy | lengths accepted |
  |---|---|
  | `test_all_wallets.py` 10-42 | 33, 64 and 65 bytes |
  | `test_key_derivation.py` 10-39 | 33 (when `compressed`) and 65 bytes |
  | `test_derivation_paths.py` 11-38 | 33 bytes only |

  Each copy decodes the hex, decompresses a compressed key with eth_keys, and
  drops a leading 0x04 byte. It then takes Keccak-256 and keeps the last 20
  bytes. Any exception becomes an `"Error: ..."` string.

  The two `main` functions loop over a hard-coded wallet table. Each one
  derives every address and compares it with the registered address.
  `test_all_wallets` collects the matches in a list.

Nothing is persistent and nothing runs concurrently. Every script is one
sequential Python process. The hard behaviours are therefore not
interleavings. They are:

* the order of the search and its short circuit;
* exceptions inside a trial;
* string comparisons standing in for byte comparisons;
* length dispatch on the text rather than on the bytes;
* library behaviour that depends on the build (the eth_keys backend);
* byte-level edge cases such as an X coordinate that starts with 0x04.

`spec.md` states the contract these tools should meet:

* normalize (4.1) and deriveAddress (4.2);
* parseSignature (4.3);
* findMatch (4.4), where the first match is taken in candidate-major,
  parity-minor order and the comparison is byte-exact.

## 2. Modules

| module | models | state / actions |
|---|---|---|
| `SearchInputs` | the arguments of one `verify_signature_recovery` call and the library functions it uses; the spec's findMatch contract as the operator `Answer` | inputs as variables fixed by Init: `sig` (length, r/s hex-ness, v byte), `cands` (injective label sequence = dict keys), `hashOf`, `recover` (eth_keys recovery per digest and parity, or `Fail`), `addrOf` (Keccak address), `expected` (address and prefix form) |
| `FindMatch` | the abstract findMatch: one `Decide` step sets `answer` to `Answer` | `answer` |
| `RecoverySearch` | the loop of `verify_signature_recovery`, one trial per step | `pc` (parse/trial/done), `i` (candidate index, `enumerate`), `v` (27/28), `result`; actions `RejectLength` (27-29), `StartSearch` (31-43), `TrialMatch` (50-69), `TrialMiss` (47-77, both a failed recovery and a mismatch), `Exhaust` (79-80), `Returned` (stutter after the return) |
| `MCRecoverySearch` | bounds for TLC | 2 labels, digests, keys and addresses; at most 2 candidates |
| `KeyDerivation` | the two derivation copies used by the scans, the eth_keys calls, and the spec's `Normalize` / `SpecAddress` | pure operators; key bytes abstracted to layout (lead byte, X, Y with Y even/odd/off the curve), X on or off the curve, X starting with 0x04 or not; Keccak as a collision-free `Address(bytes)` |
| `WalletScan` | `main` of `test_all_wallets`, `main` of `test_key_derivation`, and `test_address_transformations` of `test_derivation_paths` (a one-key table); `variant` says which | `variant`, `wallets`, `target`, `backend` fixed by Init; `pc`, `i`, `matches`; actions `WalletMatches`, `WalletDiffers`, `Finish`, `Finished` |
| `MCWalletScan` | bounds for TLC | 2 X values, at most 2 wallets, key lengths 32/33/64/65 |
| `VerifyMain` | `main` of `verify_tangem_signature` (82-170) | the candidate dict, the two signature texts, the expected text and `addrOf` fixed by Init; `recover2`, `recover1` (what each signature recovers); two copies of the search's loop variables (`pc2 i2 v2 result2`, `pc1 i1 v1 result1`) bound to two `INSTANCE`s of RecoverySearch; `stage`, `verdict`; actions `Phase2Step`, `ReportPhase2`, `Phase1Step`, `ReportPhase1`, `Exited` |
| `MCVerifyMain` | bounds for TLC | the five real labels; phase 2 over every success/failure pattern of its ten trials |
| `RecoverySearchProofs` | TLAPS proofs about `RecoverySearch` | |
| `WalletScanProofs` | TLAPS proofs about `WalletScan` and `KeyDerivation` | |
| `VerifyMainProofs` | TLAPS proofs about `VerifyMain`; it instantiates `RecoverySearchProofs` twice (`R2`, `R1`) with the arguments of main's two calls | |

### 2.1 Abstractions

Each abstraction is sound because the properties only compare the things it
keeps.

* **Hash and curve arithmetic.** These are not computed. Recovery is an
  arbitrary function `recover`, and key-to-address is an arbitrary function
  `addrOf`. Init enumerates all of them over small sets. The model therefore
  covers every behaviour the library could have on those inputs, including
  failing recoveries.
* **Address text.** A checksum address text is a record `[addr, form]`. The
  prefix form is `0x`, `0X` or none. `.lower()` maps `0X` to `0x` and leaves
  the hex digits, which are already case-folded, alone. Two texts compare
  equal exactly when both the address and the folded prefix agree. This keeps
  what the string comparison in line 67 does.
* **Signature text.** The only property a signature text needs is whether
  `int(r_hex, 16)` raises. That is the component `rsHex`. The v byte is kept
  as a number because line 54 computes with it.
* **Key bytes.** A key is kept at the level that decides the code's branches:
  * its length;
  * its lead byte;
  * whether X is a curve abscissa;
  * whether X begins with 0x04;
  * whether Y is one of the two roots or neither.

  The 63-byte result of the wrong strip is a record of its own, so its
  address differs from every 64-byte key's.

## 3. Runs

The search runs use MCRecoverySearch, with 2 labels, digests, public keys and
addresses and up to 2 candidates. Well-formed calls have length 130, hex r/s,
v ∈ {27, 28} and an expected prefix of `0x` or `0X`.

| run | expect | properties | shows |
|---|---|---|---|
| `search_wellformed` | pass | `TypeOK`, `ResultMeetsContract`, `ImplementsFindMatch` | on well-formed calls the search returns exactly findMatch's answer, and the loop refines `FindMatch` (stuttering steps map to nothing; `Exhaust`/`TrialMatch` map to `Decide`) |
| `search_all_inputs` | pass | `ReportedMatchIsFirst` | on all inputs, including malformed ones, whatever the search reports is the first matching trial |
| `search_bad_length` | violation | `ResultMeetsContract` | a wrong length returns `None`, not InvalidLength (line 29) |
| `search_bad_v` | violation | `ResultMeetsContract` | v is never read (line 33): a signature with v = 29 is not rejected; the trace starts the search with no candidates and exhausts it, returning `None` where the contract says InvalidParity |
| `search_bare_expected` | violation | `ResultMeetsContract` | an expected address without `0x` never equals the checksum text (line 67) |

The scan runs use MCWalletScan, with 2 X values (one on the curve), at most 2
wallets, and key lengths {32, 33, 64, 65}.

| run | expect | properties | shows |
|---|---|---|---|
| `scan_valid` | pass | `TypeOK`, `MatchesSound`, `MatchesComplete` | on valid encodings (X not starting with 0x04), invalid hex and a wrong length, under both backends, the all-wallets scan reports exactly the wallets whose spec address is the target |
| `scan_coincurve_nonresidue` | pass | `MatchesSound` | with coincurve, in all three scripts, a compressed key with a non-residue X is never reported |
| `scan_native_nonresidue` | violation | `MatchesSound` | with the pure-Python backend it is reported (off-curve point hashed) |
| `scan_off_curve` | violation | `MatchesSound` | 64/65-byte keys are not checked to lie on the curve |
| `scan_x04` | violation | `MatchesComplete` | **code bug**, in all three scripts: `to_bytes()` has no prefix, so an X that starts with 0x04 loses its first byte |
| `scan_key_derivation_raw` | violation | `MatchesComplete` | `test_key_derivation` rejects 64-byte keys |

The main run uses MCVerifyMain: the five labels of `hash_candidates`, two
keys and two addresses, the registered address `a1`.

| run | expect | properties | shows |
|---|---|---|---|
| `verify_main` | pass | `TypeOK`, `VerdictReflectsRecovery` | main's phase-2 verdict says "SignRaw implementation is working" exactly when the phase-2 signature recovers the registered address from the raw safeTxHash, "Still signing X" only when the raw hash does not and X does, and "failed" exactly when no candidate does |

Malformed signatures are not checked separately: with a non-hex r or s,
every trial fails. `search_all_inputs` covers that case under
`ReportedMatchIsFirst`.

**Why these bounds suffice.**

* *Search runs.* Two candidates and two parities give four trials. That is
  enough for a match to come after a failure, after a miss, or at the second
  parity of the second candidate. It also allows two trials to match, so the
  first-match order matters. Two addresses make a mismatch possible. Two keys
  allow recovery to give different keys per parity.
* *Scan runs.* Two wallets let a match follow a non-match. They also allow
  two matches, and a match after an error string. The key lengths cover every
  branch of the length dispatch.
* *Main run.* Every one of the 2^10 success/failure patterns of the ten
  phase-2 trials is enumerated, and so is the key's address (match or not).
  The raw hash can therefore match at either parity, alone or together with
  later candidates, and a later candidate can match alone. The phase-1 call
  only prints its result, so it recovers one key or fails in every trial.
  Its loop still runs to completion between the two reports.

The passing runs fire every action and every disjunct.

**Mutants.** Every property of a passing run has a mutant: a plausible bug in
a mapped definition that TLC catches with that run's cfg.

| mutant | the bug it models |
|---|---|
| `CodeEqCaseSensitive` | comparison without `.lower()` |
| `RecoveredIdFlipped` | v-to-recovery-id mapping reversed |
| `TrialMatchReturnsRecId` | returns the recovery id instead of v |
| `ExhaustEarly` | off-by-one at the last candidate |
| `WalletDiffersSkip` | the loop index advances twice |
| `WalletMatchesNoAppend` | the match is printed but not appended |
| `StripNever` | the prefix is never stripped |
| `FromCompressedWrongParity` | 02/03 read the wrong way |
| `HashCandidatesRawLast` | the raw safeTxHash inserted after the other candidates |

## 4. Fairness

`Spec` uses `WF_vars(Next)` in RecoverySearch, WalletScan and VerifyMain. Each
script is a single-threaded sequential loop with no blocking call. Nothing
else competes for the process, so whenever a step is enabled the program
takes it.

The fairness is needed for the refinement property `ImplementsFindMatch`,
whose abstract `Spec` has `WF` of `Decide`: TLC checks that the loop does
not stutter forever before it decides. That every call returns is not stated
as a property of its own: the loops range over a finite list of candidates
and the list [27, 28], and every exception is caught inside the loop body,
so termination holds by Python's semantics and no plausible fault in this
code could break it.

## 5. What is proved

### RecoverySearchProofs

The proofs assume `InputsAssumption`, the ASSUME of SearchInputs. It gives
the types of the constants. It also says that the markers `None` and
`Pending` are not result triples: Python's `None` is not a tuple.

* `TypeCorrect`: `Spec => []TypeOK`. The argument is an induction with the
  lemma `TypeStep`. `CandSeqFacts` states that a candidate sequence is a
  finite sequence of labels of length at most MaxCands.
* `SearchMeetsContract`: under `WellFormedCalls` (the well-formed domains
  above), `Spec => []ResultMeetsContract`.
  `ResultMeetsContract` is not inductive as it stands. The strengthening
  `IInv` adds three facts:
  1. in `parse`, the loop variables have their initial values;
  2. in `trial`, no matching trial precedes the current one
     `<<i, v - 27>>` (in `Before` order), and `v = 27` once
     `i = Len(cands) + 1`;
  3. in `done`, `result = Answer`.

  The second fact is the loop invariant of the search. It makes `Exhaust`
  return `None` exactly when `Matching = {}`. It makes `TrialMatch` return
  the first match: `FirstMatchUnique` and `CodeEqIsAddrEq` identify the
  `CHOOSE` in `Answer` with the current trial. IInv was checked with TLC as
  an invariant of `search_wellformed` before it was proved.
* `RefinesFindMatch`: under `WellFormedCalls`,
  `Spec => Abs!Init /\ [][Abs!Decide]_<<inputs, result>>`. This is the safety
  part of the refinement, with `answer <- result`:
  * every `RecoverySearch` step is a `Decide` step or a stutter;
  * `RejectLength` cannot occur;
  * `TrialMatch` and `Exhaust` set `result` to `Answer` from `Pending`.
* `ReportsFirstMatch`: `Spec => []ReportedMatchIsFirst` for **every** call,
  with no hypothesis on the inputs. This covers the malformed signatures and
  the bare expected texts of `search_all_inputs`. Its strengthening `RInv`
  weakens IInv's loop invariant to the calls on which a trial can match at
  all. Such a call is `Searchable`: r and s are hex, since otherwise `int()`
  raises in every trial, and the expected text has a 0x or 0X prefix, since
  otherwise the lowered texts never agree.
  * `CodeEqPrefixed` states what the comparison of the lowered texts
    decides on any expected text.
  * On a non-searchable call no trial matches in the code, so nothing is
    reported.
  * On a searchable call the argument is the one for IInv.

  RInv was checked with TLC on `search_all_inputs` (738,336 states) before
  it was proved.
* `FirstMatchExists` and `DoneOutcome` are lemmas used by VerifyMainProofs.
  * `FirstMatchExists`: if some trial matches, there is a first one. The
    proof takes the least candidate index, using `NatLessThanWellFounded`
    and `WFMin` of WellFoundedInduction (lemma `NatLeast`), then parity 0
    before 1.
  * `DoneOutcome`: a returned well-formed call either holds `None` with no
    match, or reports the first match.

### WalletScanProofs

The proofs assume `KeyDerivationAssumption` and `WalletScanAssumption`.

* `ScanTypeCorrect`: `Spec => []TypeOK` for every key domain. `matches`
  stays a sequence of indices of the table, by `AppendProperties` and
  `WalletSeqFacts`.
* `ScanMatchesSound`: under `ValidKeys`, `Spec => []MatchesSound`.
  `ValidKeys` means:
  * every X is on the curve;
  * Y is a root;
  * a 65-byte key has the lead byte 0x04;
  * no X begins with 0x04.

  `TypeOK /\ MatchesSound` is inductive. The heart of the proof is the
  lemma `DerivedSound`: on valid keys, every address that any of the three
  derivations returns equals `SpecAddress`. It splits into one case per
  layout of `KeyBytes`; `CompressedPathSound` covers the decompression
  branch. The theorem covers all three scripts and both backends.

* `AllWalletsMatchesComplete`: assuming `X04 = {}` and
  `Variants \subseteq {"all_wallets"}`, `Spec => []MatchesComplete`.
  No other condition on the keys is needed, since keys off the curve, bad
  lead bytes and non-hex text have no spec address. The lemma
  `AllWalletsComplete` states that whenever the spec derives an address,
  test_all_wallets derives the same one, under either backend. The
  strengthening `CInv` says every scanned wallet with the target address
  is in `matches`, and `done` comes after the last wallet.
  * The 0x04 hypothesis cannot be dropped: `scan_x04` shows the bug.
  * The other two scripts are not complete. test_key_derivation rejects
    64-byte keys (`scan_key_derivation_raw`), and test_derivation_paths
    rejects every uncompressed key.
  * Before it was proved, TLC checked `MatchesComplete` with these two
    hypotheses only, on off-curve X, off-curve Y and bad lead bytes.

  The violation runs show that each conjunct of `ValidKeys` is needed:
  * `scan_off_curve` fails without the curve conditions;
  * `scan_native_nonresidue` fails without the root condition;
  * `scan_x04` fails without the 0x04 condition (for completeness);
  * the lead-byte hazard applies without the 0x04 lead.

### VerifyMainProofs

The proofs assume `VerifyMainAssumption`. It states that:
* the five dict keys of `hash_candidates` are distinct strings;
* `None` and `Pending` are not result triples;
* the recovery functions have their type.

`VerifyMainProofs` instantiates `RecoverySearchProofs` as `R2` and `R1`,
with the substitutions `VerifyMain` uses for `Call2` and `Call1`. The
theorems of one call (`IInvInit`, `IInvStep`, `DoneOutcome`) are then
cited for each call. `SearchAssumptionsHold` discharges the instantiated
`InputsAssumption`. `CallsWellFormed` shows that both hard-coded calls are
well formed.

* `MainVerdictCorrect`: `Spec => []VerdictReflectsRecovery`. This holds for
  every recovery function and every address map, not only the 2^10 patterns
  of the run. The strengthening `MInv` has four parts:
  1. the data main fixes is unchanged (`FixedData`);
  2. both calls satisfy `IInv`;
  3. `stage` and `verdict` are typed;
  4. after `ReportPhase2`, `verdict = Verdict(result2)`.

  Every phase-2 step of main is a step of `R2!Next`
  (`Phase2IsSearchStep`), and every other step leaves R2's variables
  unchanged; the same holds for R1. The verdict then follows from
  `DoneOutcome`:
  * `MatchingIsSigned` relates call 2's matching trials to `Signed2`;
  * the raw hash is first in the dict (`HashCandidatesFacts`), so the first
    match is a raw-hash trial exactly when the raw hash recovers the
    registered address at some parity.

  MInv was checked with TLC on `verify_main` before it was proved.
* `MainTypeCorrect`: `Spec => []TypeOK`, from the same invariant.

**Only model-checked.** These are out of the prover's reach:

* liveness (the `WF` conjunct of `ImplementsFindMatch`);
* `ResultMeetsContract` on malformed inputs, which are violation runs;
* `MatchesSound` and `MatchesComplete` outside the hypotheses above,
  which are the violation runs and the hazards.

## 6. What is not modelled

* **Printing and the narrative branches of each `main`.** They hold no state.
* **Tests 2 and 3 of `test_address_transformations`.** These are the
  prefix-stripped text and the suffix analysis. They only print. Its direct
  comparison is the scan's comparison on a one-key table.
* **The hash computations of `main`.** sha256 and keccak of the safeTxHash
  are abstracted to five distinct digests.
* **Whitespace in hex texts.** `bytes.fromhex` ignores it, while the length
  check counts it. No call can hit this: every call site passes a
  hard-coded literal without whitespace. The spec's codec takes bytes, not
  text.
* **A 65-byte key whose lead byte is not 0x04.** It is hashed whole (`test_all_wallets.py:30`). This is listed as a hazard. No run enumerates a lead byte other than 0x04 (`MCPrefLeads` is `{4}`): it goes through the same unvalidated 65-byte branch whose off-curve case `scan_off_curve` already shows, and the run budget is spent on the distinct questions above.
* **A `0X` prefix on a signature or key.** It is not stripped and fails the
  length check. Only the lengths the code can see are enumerated.
* **The parallel evaluation allowed by spec §5.** The code does not have it.

## 7. Further work

1. The liveness half of the refinement (`WF` of `Decide`) remains TLC's. They need ENABLED reasoning, which the prover lacks.
2. Turn the CASE of `Answer`, whose arms overlap on malformed signatures,
   into an ordered IF chain, as was done for the derivation operators.
   That would allow the error cases of the contract to be reasoned about.
