\* Compressed keys whose X has no square root, pure-Python backend.
CONSTANTS
  Variants = {"all_wallets"}
  MaxWallets <- MCMaxWallets
  Xs <- MCXs
  CurveXs <- MCXa
  X04 <- MCNoX
  YForms <- MCCurveYs
  CompLeads <- MCCompLeads
  PrefLeads <- MCPrefLeads
  KeyLens <- MCCompressedOnly
  HexOK <- MCHexValid
  Backends <- MCNative
SPECIFICATION Spec
INVARIANTS MatchesSound
