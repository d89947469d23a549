SPECIFICATION Spec
CONSTANTS
  DefaultPubkey = DefaultPubkey
  u1 = u1
  u2 = u2
  syrup = syrup
  usdc = usdc
  spl = spl
  fake = fake
  oracle = oracle
  store = store
  t1 = t1
  t2 = t2
  w1 = w1
  Users <- MCUsers
  Mints = {syrup, usdc}
  Versions = {1}
  Programs = {spl, fake}
  MAPLE_SYRUP_USDC_MINT = syrup
  TOKEN_PROGRAM_ID = spl
  MAPLE_SYRUP_USDC_ORACLE = oracle
  CHAINLINK_STORE_PROGRAM_ID = store
  Holders <- MCHolders
  TokenAccounts <- MCTokenAccounts
  TokenFacts <- MCTokenFacts
  InitialTokens <- MCInitialTokens
  FeedVersions = {1, 2}
  Answers <- MCAnswers
  Scale = 2
  LiveLength = 2
  Calls <- MCCalls
  Amounts = {0, 1, 2}
  Settles = TRUE
  MaxU64 = 2
SYMMETRY Symmetric
INVARIANTS
  TypeOK
  ReportsLatestAnswer
  VaultCoversDeposits
PROPERTIES
  VaultsPayOnlyTheirOwners
  ImplementsYieldAdapter
