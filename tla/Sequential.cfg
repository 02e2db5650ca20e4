\* one instance of every component that one thread uses at a time
CONSTANTS
  MaxKey = 3
  MaxHeight = 2
  AnyHint = FALSE
  LruKey = {1, 2, 3}
  LruValue = {"v", "w"}
  LruNode = {1, 2, 3, 4}
  LruMaxCapacity = 3
  BufByte = {"x", "_"}
  BufSpace = {"_"}
  BufJunk = "junk"
  BufInit = 2
  BufShrink = 3
  BufMaxLen = 2
  BufMaxSize = 4
  ChNode = {"a", "b", "c"}
  ChMultis = 2
  ChHashes <- Hashes
  WsItems <- Items
  WsWeights = {0, 1, 2}
  WsFloor = 6
  WsWord = 100
  WsMaxAdds = 3
  DgBlock = 4
  DgWord = 32
  DgUInt = 16
  DgPieces = {0, 1, 3, 4, 5, 9, 17}
  DgMaxBytes = 130
  HmHashSize = 2
  HmKeyLengths = {2, 4, 5, 9, 17, 21}
  HmIntMax = 7
  HmPieces = {1, 2, 3, 5, 17}
  HmMaxText = 19
  TxChar = {"a", "r", "n"}
  TxCR = "r"
  TxLF = "n"
  TxReplacement <- Replaced
  TxMaxS = 5
  TxMaxT = 2
  UrlBytes = {32, 37, 43, 52, 71, 102, 226}
  UrlMaxLen = 4
  UrlJunk = {0, 55}
  UrlColon = ":"
  UrlSlash = "/"
  UrlMark = "?"
  UrlScheme <- Scheme
  UrlHosts <- OneHost
  UrlPorts <- Ports
  UrlItems <- UrlWays
  UrlQueries <- Queries
  UrlMaxItems = 3
  UrlOldPorts = {0, 7}
  UrlMaxParses = 1
  B64Bytes = {0, 3, 85, 255}
  B64MaxBytes = 4
  B64Chars <- Sextets
  B64MaxChars = 5
  FpName <- Names
  FpNode <- FpNodes
  FpTrees <- Trees
  FpPaths <- Paths
  FpTarget <- Target
  FpByte <- FileBytes
  FpNew <- FpWrites
  FpMaxOthers = 1
  FpMaxFaults = 1
  ZChunk = 2
  ZHalf = 15
  ZMaxIn = 5
  ZMaxGrow = 5
  HHeaderLines <- Lines
  HCookieLines <- Cookies
  Nameless = Nameless
  HMaxBody = 1
  HMaxLines = 2
  HMaxCookies = 2
SPECIFICATION MCSpec
INVARIANTS TypesOK
INVARIANTS ListsSound BufSound WsChoosesFairly
INVARIANTS HashIsStandard RdIsStandard TextKeepsAll  B64IsCode
INVARIANTS FpHonest ZSound HttpSound
PROPERTIES LruIsRecencyList ChKeysStay
CHECK_DEADLOCK FALSE
