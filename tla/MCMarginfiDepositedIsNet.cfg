SPECIFICATION Spec
CONSTANTS
  DefaultPubkey = DefaultPubkey
  u1 = u1
  u2 = u2
  usdc = usdc
  mfi = mfi
  fake = fake
  g1 = g1
  g2 = g2
  a1 = a1
  b1 = b1
  b2 = b2
  o1 = o1
  v1 = v1
  Users <- MCUsers
  Mints <- MCMints
  Versions <- MCVersions
  Programs <- MCPrograms
  Groups <- MCGroups
  Oracles <- MCOracles
  Accounts <- MCAccounts
  AccountFacts <- MCAccountFacts
  Banks <- MCBanks
  BankFacts <- MCBankFacts
  BankSettings <- MCBankSettings
  ShareValues <- MCShareValues
  Slots <- MCSlots
  Calls <- MCCalls
  Amounts = {2, 3}
  DirectShares = {}
  One = 4
  MaxU64 = 3
  MaxShares = 8
  MaxOut = 1
INVARIANT
  DepositedIsNet
