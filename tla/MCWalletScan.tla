---------------------------- MODULE MCWalletScan ----------------------------
(***************************************************************************)
(* Model-checking instance of WalletScan: up to two wallets (so that two  *)
(* encodings of one point, or a match after a miss, can occur), two X     *)
(* coordinates, and lead bytes that cover the valid ones and one other.   *)
(***************************************************************************)
EXTENDS WalletScan

MCMaxWallets == 2
MCXs == {"xa", "xb"}
MCNoX == {}
MCXa == {"xa"}
MCCurveYs == {"even", "odd"}
MCAllYs == {"even", "odd", "off"}
MCCompLeads == {2, 3, 4}
MCPrefLeads == {4}
\* 33-, 64- and 65-byte keys and a 32-byte key (the Ed25519 wallets).
MCKeyLens == {32, 33, 64, 65}
MCCompressedOnly == {33}
MCUncompressedOnly == {64, 65}
MCRawOnly == {64}
MCPrefixedOnly == {65}
MCHexOK == {TRUE, FALSE}
MCHexValid == {TRUE}
MCBothBackends == {"coincurve", "native"}
MCCoincurve == {"coincurve"}
MCNative == {"native"}

=============================================================================
