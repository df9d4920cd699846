---------------------------- MODULE SearchInputs ----------------------------
(***************************************************************************)
(* The arguments of one call of verify_signature_recovery                  *)
(* (src/verify_tangem_signature.py) and the library functions it calls,   *)
(* abstracted to what decides the outcome of the search, together with    *)
(* the contract the spec (section 4.3, 4.4) states for that call.         *)
(*                                                                         *)
(* The inputs are state variables that Init chooses and no step changes:  *)
(* TLC then checks every call the bounded domains below admit.            *)
(*                                                                         *)
(*  sig       the signature text after the optional "0x" is stripped:     *)
(*            its length in hex characters, whether r and s are valid     *)
(*            base-16 text, and the value of the v byte;                  *)
(*  cands     the keys of the hash_candidates dict, in insertion order    *)
(*            (a dict has distinct keys, so the sequence is injective);   *)
(*  hashOf    the digest stored under each label;                         *)
(*  recover   what eth_keys recovers from (digest, recovery id): a public *)
(*            key or Fail (any exception: r or s out of range, a digest   *)
(*            that is not 32 bytes, no point on the curve);               *)
(*  addrOf    the address of a public key (Keccak-256, last 20 bytes);    *)
(*  expected  the expected address text: an address and its prefix form.  *)
(***************************************************************************)
EXTENDS Naturals, Sequences, Functions

CONSTANTS
  Labels,     \* candidate labels (dict keys)
  Digests,    \* candidate digests
  PubKeys,    \* public keys the recovery can produce
  Addrs,      \* 20-byte addresses
  Fail,       \* outcome of a recovery that raised
  None,       \* Python None: the search found no match
  Pending,    \* the call has not returned yet
  InvalidLength, InvalidHex, InvalidParity,  \* the spec's error results
  MaxCands,   \* bound on the number of candidates
  SigLens,    \* lengths (hex characters) of the signature text
  RsHex,      \* whether the r and s text parse as base-16 integers
  VBytes,     \* values of the v byte
  ExpForms    \* prefix forms of the expected address text

ASSUME InputsAssumption ==
  /\ MaxCands \in Nat
  /\ SigLens \subseteq Nat
  /\ RsHex \subseteq BOOLEAN
  /\ VBytes \subseteq 0..255
  /\ ExpForms \subseteq {"0x", "0X", "bare"}
  /\ Fail \notin PubKeys
  /\ {None, Pending} \cap [label : Labels, v : {27, 28}, addr : Addrs] = {}

VARIABLES sig, cands, hashOf, recover, addrOf, expected

inputs == <<sig, cands, hashOf, recover, addrOf, expected>>

\* 65 bytes of r, s and v are 130 hex characters (line 27).
SigHexLen == 130

Parities == {0, 1}

SigTexts == [len : SigLens, rsHex : RsHex, v : VBytes]

CandSeqs == UNION {Injection(1..n, Labels) : n \in 0..MaxCands}

ExpTexts == [addr : Addrs, form : ExpForms]

InputsInit ==
  /\ sig \in SigTexts
  /\ cands \in CandSeqs
  /\ hashOf \in [Labels -> Digests]
  /\ recover \in [Digests \X Parities -> PubKeys \cup {Fail}]
  /\ addrOf \in [PubKeys -> Addrs]
  /\ expected \in ExpTexts

InputsTypeOK ==
  /\ sig \in SigTexts
  /\ cands \in CandSeqs
  /\ hashOf \in [Labels -> Digests]
  /\ recover \in [Digests \X Parities -> PubKeys \cup {Fail}]
  /\ addrOf \in [PubKeys -> Addrs]
  /\ expected \in ExpTexts

-----------------------------------------------------------------------------
(***************************************************************************)
(* The contract of findMatch (spec 4.3, 4.4): a trial is a pair           *)
(* <<candidate index, parity>>; trials are ordered candidate-major and    *)
(* parity-minor; the answer is the first trial whose recovered key has    *)
(* the expected address, compared as bytes, or None when no trial has.    *)
(* A signature of the wrong length, with non-hex r or s, or with v        *)
(* outside {0, 1, 27, 28} is an error, not a search.                      *)
(***************************************************************************)
Trials == (1..Len(cands)) \X Parities

Before(t, u) == t[1] < u[1] \/ (t[1] = u[1] /\ t[2] < u[2])

TrialKey(t) == recover[<<hashOf[cands[t[1]]], t[2]>>]

Matching == {t \in Trials : TrialKey(t) # Fail /\ addrOf[TrialKey(t)] = expected.addr}

IsFirstMatch(t) == t \in Matching /\ \A u \in Matching : ~Before(u, t)

\* What the call reports for trial t: its label, v = 27 + parity, and the address.
Report(t) == [label |-> cands[t[1]], v |-> 27 + t[2], addr |-> addrOf[TrialKey(t)]]

AcceptedV == {0, 1, 27, 28}

Answer ==
  CASE sig.len # SigHexLen     -> InvalidLength
    [] ~sig.rsHex              -> InvalidHex
    [] sig.v \notin AcceptedV  -> InvalidParity
    [] Matching = {}           -> None
    [] OTHER                   -> Report(CHOOSE t \in Matching : IsFirstMatch(t))

=============================================================================
