SPECIFICATION Spec
CONSTANTS
  Assets = {a, b}
  Unlisted = {b}
  Histories = {h}
  PriceCalls = {p1, p2}
  ChunkSize = 1
  Ttl = 1
  MaxTime = 3
  Signatures = {s1, s2, s3}
  Limit = 1
  MaxStamp = 2
  MaxSaves = 5
  Fine = 2
  Whole = 4
  SigningFee = 2
  UnitLimit <- MCUnitLimit
  UnitPrice = 1
  Micro = 2
  Rent = 2
  TokenRent = 5
  Situations <- MCSituations
  Typed <- MCTyped
  MaxAttempts = 4
  BaseDelay = 400
  MaxDelay = 1500
  Urls = 2
  Unset = "unset"
  Nonces = {"nonce"}
  Signer = "signer"
  LatestBlockhash = "latest"
  DefaultPrice = 7
  Messages <- MCMessages
  Estimates <- MCEstimates
  Fiat = {"usd", "eur"}
  PriceTables <- MCPriceTables
  SpotData <- MCSpotData
  SOL = "sol"
  NoOwner = "no owner"
  BaseFee = 1
  SpamLimit = 2
  Decimals <- MCDecimals
  ChainTransactions <- MCChainTransactions
  Account = "u"
  Networks = {"main", "dev"}
  Accounts <- MCAccounts
  Asked <- MCAsked
  ScanAnswers <- MCScanAnswers
  Handed <- MCHanded
SYMMETRY Symmetry
CHECK_DEADLOCK FALSE
INVARIANTS
  PricesFresh
  PricesAdvanceUnlessExcused
  PagesCoverUnlessMoved
  AcceptedIsSendable
  AnsweredByTheFirst
  Prepared
  ConversionsAgree
  MappedTrue
  TypedTrue
  SignedAsAsked
  DialogTrue
  InstructionsListed
