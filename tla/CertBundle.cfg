CONSTANTS
  Cert <- MCCert
  MaxBlocks = 4
  Includes <- MCIncludes
SPECIFICATION Spec
INVARIANTS TypeOK BundleIsSelection LeafEmbedded RootStripped
CHECK_DEADLOCK FALSE
