CONSTANTS
  Api = {1, 2}
  Ui = {3}
  Job <- MCJob
  Piece <- MCPiece
  Empty <- MCEmpty
  Form <- MCForms
  DefaultUrl <- MCDefaultUrl
  DefaultModel <- MCDefaultModel
  Strip <- MCStrip
  StripUrl <- MCStripUrl
  Digest <- MCDigest
  MaxSize = 1
  Workers = 2
  Basic = 0
  Nobody = 99
SPECIFICATION FairSpec
INVARIANTS
  TypeOK
  NoBuildForCached
  OwnClient
  
PROPERTIES
  ShutdownCompletes
CHECK_DEADLOCK FALSE
