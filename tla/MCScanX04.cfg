\* Compressed keys whose X begins with the byte 0x04, in all three copies of the derivation.
CONSTANTS
  Variants = {"all_wallets", "key_derivation", "derivation_paths"}
  MaxWallets <- MCMaxWallets
  Xs <- MCXs
  CurveXs <- MCXs
  X04 <- MCXa
  YForms <- MCCurveYs
  CompLeads <- MCCompLeads
  PrefLeads <- MCPrefLeads
  KeyLens <- MCCompressedOnly
  HexOK <- MCHexValid
  Backends <- MCCoincurve
SPECIFICATION Spec
INVARIANTS MatchesComplete
