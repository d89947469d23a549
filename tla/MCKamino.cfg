SPECIFICATION Spec
CONSTANTS
  DefaultPubkey = DefaultPubkey
  u1 = u1
  u2 = u2
  usdc = usdc
  usdt = usdt
  klend = klend
  fake = fake
  spl = spl
  r1 = r1
  r2 = r2
  m1 = m1
  sol1 = sol1
  sol2 = sol2
  c1 = c1
  w1 = w1
  k1 = k1
  k2 = k2
  Users <- MCUsers
  Holders <- MCUsers
  Mints = {usdc, DefaultPubkey}
  Versions = {1}
  Programs = {klend, fake}
  TokenAccounts <- MCTokenAccounts
  TokenFacts <- MCTokenFacts
  InitialTokens <- MCInitialTokens
  Reserves <- MCReserves
  Used = {r1}
  ReserveFacts <- MCReserveFacts
  Accruals <- MCAccruals
  Losses = {1}
  Calls <- MCCalls
  Amounts = {0, 1, 2}
  Settles = TRUE
  SYSVAR = spl
  One = 2
  MaxSf = 4
  MaxU64 = 3
VIEW View
SYMMETRY Symmetric
INVARIANTS
  TypeOK
  ReportsWithinRounding
  FundedPositionsAreSound
PROPERTIES
  WithdrawalsPay
  MovesOnlyTheOwnersCollateral
  ImplementsYieldAdapter
