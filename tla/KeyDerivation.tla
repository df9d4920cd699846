---------------------------- MODULE KeyDerivation ----------------------------
(***************************************************************************)
(* derive_address_from_public_key, in the three versions the scans call  *)
(* (src/test_all_wallets.py 10-42, src/test_key_derivation.py 10-39,      *)
(* src/test_derivation_paths.py 11-38), with the eth_keys calls they make, and the spec's codec        *)
(* (normalize, 4.1) and derivation (deriveAddress, 4.2) they are held to. *)
(*                                                                         *)
(* Key bytes are abstracted to their layout: a compressed key is a lead   *)
(* byte and X, an uncompressed key is an optional lead byte, X and Y.     *)
(* X values either lie on the curve (CurveXs) or have no square root;     *)
(* X04 holds the X values whose first byte is 0x04.  Y is "even" or "odd" *)
(* (the two roots of an X on the curve) or "off" (no curve point).  A     *)
(* hex text of n bytes has 2n characters; HexOK says whether it decodes.  *)
(* Keccak-256 truncated to 20 bytes is abstracted as collision free: the  *)
(* address is determined by the hashed bytes and tells them apart.       *)
(***************************************************************************)
EXTENDS Naturals

CONSTANTS
  Xs,         \* X coordinates
  CurveXs,    \* the X coordinates for which x^3 + 7 has a square root
  X04,        \* the X coordinates whose first byte is 0x04
  YForms,     \* Y coordinates: "even", "odd" (on the curve), "off"
  CompLeads,  \* lead bytes of 33-byte keys
  PrefLeads,  \* lead bytes of 65-byte keys
  KeyLens,    \* byte lengths of the key texts
  HexOK,      \* whether a key text decodes as hex
  Backends    \* the eth_keys ECC backend of the build

ASSUME KeyDerivationAssumption ==
  /\ CurveXs \subseteq Xs
  /\ X04 \subseteq Xs
  /\ YForms \subseteq {"even", "odd", "off"}
  /\ CompLeads \subseteq 0..255
  /\ PrefLeads \subseteq 0..255
  /\ KeyLens \subseteq Nat \ {0, 63}
  /\ HexOK \subseteq BOOLEAN
  /\ Backends \subseteq {"coincurve", "native"}

KeyBytes ==
  { b \in [len : {33}, lead : CompLeads, x : Xs] \cup
          [len : {65}, lead : PrefLeads, x : Xs, y : YForms] \cup
          [len : {64}, x : Xs, y : YForms] \cup
          [len : KeyLens \ {33, 64, 65}] : b.len \in KeyLens }

KeyTexts == [hex : HexOK, bytes : KeyBytes]

\* The results: an "0x..." address string or one of the two error strings.
Address(u) == [kind |-> "addr", hashed |-> u]
InvalidLen == [kind |-> "invalid_length"]
ErrorText == [kind |-> "error"]

Err == [len |-> 0]

-----------------------------------------------------------------------------
(***************************************************************************)
(* eth_keys.                                                               *)
(***************************************************************************)

\* Fault variant for mutation runs: the prefix byte read the wrong way round.
FromCompressedWrongParity(b, backend) ==
  IF b.lead \notin {2, 3} \/ b.x \notin CurveXs THEN Err
  ELSE [len |-> 64, x |-> b.x, y |-> IF b.lead = 3 THEN "even" ELSE "odd"]

\* PublicKey.from_compressed_bytes(...).to_bytes(): the 64 raw bytes X || Y
\* without prefix.  A lead other than 02/03 raises.  For an X with no square
\* root the coincurve backend raises, while the pure-Python backend takes
\* the modular power as Y and returns a point off the curve.
FromCompressed(b, backend) ==
  IF b.lead \notin {2, 3} THEN Err
  ELSE IF b.x \in CurveXs
       THEN [len |-> 64, x |-> b.x, y |-> IF b.lead = 2 THEN "even" ELSE "odd"]
  ELSE IF backend = "native" THEN [len |-> 64, x |-> b.x, y |-> "off"]
  ELSE Err

\* bytes.fromhex('04' + public_key_hex) on 64 raw bytes.
Prefix04(b) == [len |-> 65, lead |-> 4, x |-> b.x, y |-> b.y]

\* uncompressed_bytes[0]: the lead byte of 65 bytes, the first byte of X
\* of 64 bytes (represented by 4 or by 0 for any other value).
FirstByte(u) ==
  IF u.len = 65 THEN u.lead ELSE IF u.x \in X04 THEN 4 ELSE 0

\* Fault variant for mutation runs: the 0x04 prefix is never removed.
StripNever(u) == u

\* if uncompressed_bytes[0] == 0x04: uncompressed_bytes = uncompressed_bytes[1:]
\* Dropping the first byte of X leaves 63 bytes (len 63: X without its
\* first byte, then Y).
StripPrefix(u) ==
  IF FirstByte(u) # 4 THEN u
  ELSE IF u.len = 65 THEN [len |-> 64, x |-> u.x, y |-> u.y]
  ELSE [len |-> 63, x |-> u.x, y |-> u.y]

\* keccak(uncompressed_bytes)[-20:], formatted "0x" + hex.
KeccakAddress(u) == Address(u)

\* The compressed branch shared by every version: decode, decompress,
\* strip, hash; an exception anywhere returns "Error: ...".
CompressedPath(k, backend) ==
  IF ~k.hex \/ FromCompressed(k.bytes, backend) = Err THEN ErrorText
  ELSE KeccakAddress(StripPrefix(FromCompressed(k.bytes, backend)))

\* test_all_wallets.py 10-42: 66, 128 or 130 hex characters.
DeriveAllWallets(k, backend) ==
  IF k.bytes.len = 33 THEN CompressedPath(k, backend)
  ELSE IF k.bytes.len = 64
       THEN IF k.hex THEN KeccakAddress(StripPrefix(Prefix04(k.bytes))) ELSE ErrorText
  ELSE IF k.bytes.len = 65
       THEN IF k.hex THEN KeccakAddress(StripPrefix(k.bytes)) ELSE ErrorText
  ELSE InvalidLen

\* test_key_derivation.py 10-39: 66 hex characters when compressed, or 130.
DeriveKeyDerivation(k, compressed, backend) ==
  IF compressed /\ k.bytes.len = 33 THEN CompressedPath(k, backend)
  ELSE IF k.bytes.len = 65
       THEN IF k.hex THEN KeccakAddress(StripPrefix(k.bytes)) ELSE ErrorText
  ELSE InvalidLen

\* test_derivation_paths.py 11-38: 66 hex characters only.
DeriveDerivationPaths(k, backend) ==
  IF k.bytes.len = 33 THEN CompressedPath(k, backend) ELSE InvalidLen

-----------------------------------------------------------------------------
(***************************************************************************)
(* The spec: normalize (4.1) maps a key to the 64 bytes X || Y of a curve *)
(* point or rejects it; deriveAddress (4.2) hashes those 64 bytes.        *)
(***************************************************************************)
OnCurve(x, y) == x \in CurveXs /\ y \in {"even", "odd"}

Normalize(b) ==
  IF b.len = 33 /\ b.lead \in {2, 3} /\ b.x \in CurveXs
  THEN [len |-> 64, x |-> b.x, y |-> IF b.lead = 2 THEN "even" ELSE "odd"]
  ELSE IF b.len = 64 /\ OnCurve(b.x, b.y) THEN b
  ELSE IF b.len = 65 /\ b.lead = 4 /\ OnCurve(b.x, b.y)
       THEN [len |-> 64, x |-> b.x, y |-> b.y]
  ELSE Err

\* The address the spec derives from a key text, or Err when it rejects it.
SpecAddress(k) ==
  IF k.hex /\ Normalize(k.bytes) # Err THEN Address(Normalize(k.bytes)) ELSE Err

=============================================================================
