SPECIFICATION Spec
CONSTANTS
  DefaultPubkey = DefaultPubkey
  u1 = u1
  u2 = u2
  usdc = usdc
  usdt = usdt
  drift = drift
  fake = fake
  spl = spl
  v0 = v0
  v1 = v1
  Users <- MCUsers
  Mints = {usdc, DefaultPubkey}
  Versions = {1, 2}
  Programs = {drift}
  Markets <- MCMarkets
  MarketFacts <- MCMarketFacts
  Openings <- MCOpenings
  Amounts = {0, 1, 2}
  Calls <- MCCalls
  Settles = FALSE
  MaxU64 = 3
VIEW View
INVARIANTS
  TypeOK
  ReportsTheStake
  PendingIsRecorded
PROPERTIES
  RequestsKeepTheValue
  ImplementsYieldAdapter
