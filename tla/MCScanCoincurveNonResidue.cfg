\* Compressed keys whose X has no square root, coincurve backend, all three scripts: no such key is reported.
CONSTANTS
  Variants = {"all_wallets", "key_derivation", "derivation_paths"}
  MaxWallets <- MCMaxWallets
  Xs <- MCXs
  CurveXs <- MCXa
  X04 <- MCNoX
  YForms <- MCCurveYs
  CompLeads <- MCCompLeads
  PrefLeads <- MCPrefLeads
  KeyLens <- MCCompressedOnly
  HexOK <- MCHexValid
  Backends <- MCCoincurve
SPECIFICATION Spec
INVARIANTS MatchesSound
