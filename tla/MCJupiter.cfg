SPECIFICATION Spec
CONSTANTS
  DefaultPubkey = DefaultPubkey
  u1 = u1
  u2 = u2
  usdc = usdc
  usdt = usdt
  jup = jup
  fake = fake
  spl = spl
  jlp = jlp
  other = other
  c1 = c1
  c2 = c2
  l1 = l1
  l2 = l2
  w1 = w1
  v1 = v1
  d1 = d1
  y1 = y1
  Users <- MCUsers
  Holders <- MCUsers
  Mints = {usdc, DefaultPubkey}
  Versions = {1}
  Programs = {jup, fake}
  TokenAccounts <- MCTokenAccounts
  TokenFacts <- MCTokenFacts
  InitialTokens <- MCInitialTokens
  PoolFacts <- MCPoolFacts
  CustodyFacts <- MCCustodyFacts
  Listed = {jlp}
  JUPITER_PERPS_PROGRAM_ID = jup
  TOKEN_PROGRAM_ID = spl
  JLP_POOL = jlp
  JLP_USDC_CUSTODY = c1
  JLP_MINT = jlp
  JLP_USDC_DOVES_AG_PRICE_ACCOUNT = d1
  Aums = {0, 2}
  Calls <- MCCalls
  Amounts = {0, 1, 2}
  Settles = TRUE
  MaxU64 = 3
VIEW View
SYMMETRY Symmetric
INVARIANTS
  TypeOK
  ReportsThePoolsRate
PROPERTIES
  TradesNearTheQuote
  MovesOnlyTheOwnersLp
  ImplementsYieldAdapter
