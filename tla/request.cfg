CONSTANTS
  Words <- MCWords
  Escapable = {"k1"}
  NumTokens = 24
  MayFollow <- MCMayFollow
  FreeLen = 6
  UriLen = 4
  DefaultUser <- MCDefault
  DefaultPassword <- MCDefault
  NoFile = NoFile
  Nothing = Nothing
  CID_KEY_CHAR_LEN = 2
  HexPairs <- MCHexPairs
  Uris <- MCUris
  HttpMethods = {"GET", "HEAD", "POST", "OPTIONS", "PUT", "PROPFIND"}
  Files <- MCFiles
  Ranges <- MCRanges
  UserFiles <- MCUserFiles
  Headers <- MCHeaders
  PastBytes <- MCPastBytes
  ChainIds <- MCChainIds
SPECIFICATION Spec
INVARIANTS TokensFormTree ArgumentsAsSent PeersInOrder CredentialsDecoded OnlyAccountsPass ChainIdSurvives PathStaysInside FileShortfall
