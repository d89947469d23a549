# A verification project for solYield

solYield is a set of Solana programs that route deposits, withdrawals and value
queries of yield positions through a governed registry of adapters.  This directory
holds TLA+ models of its programs and of its deployment scripts, TLC configurations that
check them on small instances, and TLAPS proofs of the same properties, all but the one
that is liveness, for every instance.

## 1. Inventory

| Component | State it keeps | Operations | Talks to |
|---|---|---|---|
| Registry (`programs/registry`) | one `RegistryConfig` (authority, count), one `AdapterEntry` per (program, mint, version) | initialise, propose, approve, pause, unpause, deprecate, update metadata, transfer governance | read by the dispatcher; events read by indexers |
| Dispatcher (`programs/dispatcher`) | none: only the running transaction | deposit, withdraw, current_value (and an event-only `initialize`) | reads an entry, calls the entry's adapter, reads its return data |
| Adapter template (`programs/adapters/adapter-template`) | configuration per (mint, version), position per (configuration, owner) | initialise adapter / position, deposit, withdraw, current_value | called directly or by the dispatcher |
| Maple Syrup adapter (`programs/adapters/maple-syrup`) | position; vault token account owned by the position's address | the template's five | token program, Chainlink feed (a ring buffer of another program) |
| Drift insurance fund adapter (`.../drift-insurance-fund`) | position with a pending withdrawal | the template's five; withdrawal only *requests* | Drift: the owner's stake, the market's insurance vault |
| MarginFi adapter (`.../marginfi-usdc`) | position | the template's five | MarginFi: account and bank (I80F48 fixed point) |
| Kamino adapter (`.../kamino-usdc`) | position; the owner's collateral token account | the template's five | Kamino Lend: reserve; token program |
| Jupiter LP adapter (`.../jupiter-lp`) | position; the owner's JLP token account | the template's five | Jupiter Perpetuals: pool AUM and JLP supply; token program |
| TypeScript SDK (`sdk/ts`) | none | builds instructions; reads a simulated event | dispatcher |
| Deploy and verify scripts (`scripts/deploy-devnet.ts`, `verify-devnet-registry.ts`) | `deployments/devnet` manifest | check, initialise, write the manifest; verify and repair it | RPC node, registry |
| Fork tooling, examples, tests | files | clone accounts, run suites | RPC node |

### What is hard about each, and what makes it correct

* **Registry.** Transactions signed under one authority land under another; the
  same proposal lands twice; the count sits at its limit; metadata grows in an
  account that cannot grow; indexers know only the events.  Correct means: one
  governor at a time, no adapter comes back from `Deprecated`, the count is the
  number of accounts, every entry is where the dispatcher will look for it, and
  the events alone determine the accounts.
* **Dispatcher.** It acts on an entry it checked earlier, on return data that other
  programs can also set, and on a position account it does not check at all, inside
  transactions of several instructions that may fail at any point while others
  run.  Correct means: only an approved adapter is ever called, the announced value
  is that adapter's, and positions equal what committed events say.
* **Template.** Three fields that must stay equal through checked arithmetic.
* **Protocol adapters.** State of another program that is read before a call and has
  changed after it; accounts named once, unchecked, and kept for good; token accounts
  that the owner or others move, share and hand over between two instructions;
  rounding in opposite directions, zero supply, fixed-point products; withdrawals in
  two steps; a ring-buffer cursor; bookkeeping with saturating subtraction.  Correct
  means: what is reported is what the protocol holds right then, to a stated
  rounding; tokens move only for the owner and only within the bound the adapter
  asked for; a booked amount moves only by its owner's announced instructions.
* **Scripts.** Check-then-act against a chain others write to, crashes between a
  transaction and the file that records it, confirmations that never arrive, two
  scripts over one file.  Correct means: retrying ends in a registry and its
  manifest, and a manifest never runs ahead of the registry it is of.

`PROJECT.json` lists the hazards one by one, at the lines where they bite, with the
properties that guard them.

## 2. Modules

| Module | What it is |
|---|---|
| `Allowlist` | abstract: a list with one governor; items are proposed once, admitted and suspended at will, retired for good |
| `Registry` | the registry program, one action per instruction, plus the clock |
| `AdapterTemplate` | the template's instructions: two actions that create accounts, the others as a condition and a result on one position |
| `Dispatcher` | composes `Registry` (as `R`) and `AdapterTemplate` (as `T`) with transactions in flight |
| `YieldAdapter` | abstract: what every adapter promises; amounts booked per position move only by announced instructions of the owner.  `Settles` says whether a withdrawal takes its amount off at once (all but Drift) |
| `AdapterAccounts` | the accounts, checks and writes that the protocol adapters have in common, and their refinement of `YieldAdapter` |
| `SplTokens` | extends it with token accounts and what users do with them (external) |
| `FixedPoint` | the I80F48 product and its floor, over a unit `One` that stands for 2^48 |
| `MarginfiUsdc` | the MarginFi adapter over the lending protocol, which is external |
| `MapleSyrup` | the Maple adapter over vaults and a Chainlink ring |
| `KaminoUsdc` | the Kamino adapter over reserves with fractional debts and fees |
| `JupiterLp` | the Jupiter adapter over the JLP pool |
| `DriftInsuranceFund` | the Drift adapter over stakes and insurance vaults |
| `Deployment` | extends `Registry` with the two scripts, the manifest file, and failures |
| `MCRegistry`, `MCDispatcher`, `MCMarginfi`, `MCMaple`, `MCKamino`, `MCJupiter`, `MCDrift`, `MCDeployment` | instances for TLC |
| `RegistryProofs` (with the scripts), `DispatcherProofs`, `AccountsProofs` (what the four adapters share), `MarginfiProofs`, `MapleProofs`, `KaminoProofs`, `JupiterProofs`, `DriftProofs` | theorems |

### Registry

`config` and `entries` are the accounts, `slot` the clock, `event` the last event.
An entry's address is the triple of its seeds (distinct seeds, distinct derived
addresses; the bump is part of the derivation and left out).  A text is a record of
what the validators look at: whether it is blank once trimmed and its length in
bytes.  A failed transaction changes nothing, so it is no step.  The four status
instructions share `ChangeStatus`; each passes the statuses it accepts, the one it
sets and its event.  `has_one` plus `Signer` is `Governs(signer)`; every key but the
default one may sign.  `replayed` is a history variable: `emit` folds each event
into what a reader who sees only events would believe.

`ImplementsAllowlist` is the refinement `Abstract!Spec`: the governor is the stored
authority, the actor is the `governance_authority` of the last event, proposed items
are the entry addresses, admitted ones the `Approved`, retired ones the `Deprecated`.

### Dispatcher

A transaction holds the entry it reads, the position it writes, a working copy of
that position, the instruction under way, the return data and what it has announced.
Each instruction takes three steps (`Enter`: the checks before the call; the call,
`CallTemplate` or `CallOther`; `Finish`: what follows it), so a transaction's steps
interleave with other transactions, with `Governance` (any registry instruction) and
with `Direct` calls to the template.  `Commit` installs the copy and the
announcements; any failed check goes through `Abort`.

Modelled from how Solana runs the programs, and therefore an assumption:

* an account named writable by a running transaction is written by nobody else, one
  named read-only is not written at all (`WriteLocked`, `ReadLocked`).  The position
  is taken as writable for the whole transaction, also when it only holds queries;
* a transaction takes effect completely or not at all;
* `invoke` starts with empty return data; the called program, or one below it,
  may set it.

An adapter other than the template (`CallOther`) may fail, answer nothing, or leave
return data of any program and of right or wrong length; it cannot write accounts
the template owns.  A transaction is restricted to one entry and one
position and holds no instruction of the registry: a deposit with a pause of the same entry
behind it, signed by governance too, would commit with the entry paused, and
`RoutedMovesAreApproved` does not speak of it.

### MarginFi

`config` and `position` are the adapter's accounts, `bank` and `account` MarginFi's.
`event` is the event of the last step, also of a query.  `net` and `low` are history:
deposits less withdrawals of a position, and the lowest they have been.  The accounts
an instruction is given are one record, `call`; what never changes of an account or a
bank (its program, mint, group, vault) is a constant, `AccountFacts` and `BankFacts`.
Each instruction is one action: checks, then the protocol's call, then `Record`, which
reads shares and share value after the call and writes the position and the event.
The adapter is atomic here because a transaction holds its accounts; what comes
between its instructions is every action of `Marginfi`: owners and liquidators change
balances (`UseMarginfi`), authority over an account moves, a share gains or loses
value, governance reconfigures a bank.

Assumed of MarginFi, from how the adapter uses it: both calls require the account's
authority to sign, accrue interest to some share value not below the present one,
round shares bought down and shares sold up, use the bank's active balance slot or a
free one, and close a balance that falls to zero while leaving its bytes.  Deposits need an
operational bank, withdrawals also pass for a reduce-only one.

Left out: amounts that overflow a u128 before the u64 check overflow that check too,
so there is one bound, `MaxU64`; the byte offsets of external accounts; a signed
share value below zero, which MarginFi does not store.  `MaxOut` cuts off withdrawals that
exceed deposits by more than that.

### The other protocol adapters

`MarginfiUsdc` has its own accounts; the other four share `AdapterAccounts`.  A
position's `place` is what `initialize_position` stores in it: the vault (Maple), reserve
and collateral account (Kamino), pool, custody and JLP account (Jupiter), market and
stake (Drift).  `RecordDeposit`, `RecordWithdraw` and `Report` are the ends of the
instructions: the u64 conversions, the writes and the event.  An instruction is one
action: its checks on the record `call` of accounts it is given, in one conjunct per
validator of the source, then the external call, then the end, which reads the primed
state of the protocol exactly where the code reads an account again after its call.
Any user signs any call, with right accounts or with one wrong.

*Maple.*  `feed` is Chainlink's ring; `Submit` writes at `cursor` and advances it, and
the adapter reads the slot before.  `latest`, history, is the last answer given.
`tokens` holds amount and owner of each token account; a user can give tokens to a
vault, hand an account over to a position's address, and open positions that name
the same vault.  Nobody can sign for such an address but the adapter.

*Kamino.*  A reserve holds whole available liquidity and debts and fees in fractions
of `One` (2^60 in the code).  Assumed of Kamino: a call first accrues the interest due,
mints and pays at the exact rate rounded down, one to one if the supply or the worth
is zero, and pays only what is available.  A reserve in `Used` is also
deposited to, redeemed from, borrowed from, repaid and written off without the
adapter.  `Computes` is that no `checked_sub` of the total supply fails: a reserve worth
exactly nothing redeems one to one, what it still holds may then be less than its fees, and
the adapter's instructions fail until it has recovered.

*Jupiter.*  Assumed of the perpetuals program: only that it keeps to the bound it is
given.  It mints any number of JLP not below the minimum, burns exactly what it was
told, and states any AUM afterwards; the AUM also changes between calls.
All JLP holders are modelled, so that the supply is the sum of what they hold.  The u128
products of the conversions overflow only when the quotient exceeds a u64, or with an
AUM no pool can have.  `tokens` are accounts of the token program: the movements check that
of the JLP account, `current_value` only its mint and owner fields, and the value it reports
is that of such an account.

*Drift.*  A market has a vault and total shares, a stake its shares and at most one
request with its value when asked.  `pending` is the position's
`pending_withdraw_amount`; `asked`, history, is the request that is open on a stake and
the position it came through.  Assumed of Drift: no deposit while a request is open,
one request at a time, shares round down, a request's value is capped and leaves at
least one in the vault, the owner collects or cancels it without the adapter.
Cooldown is time passing before that: the step may come at any moment.  Two
configuration versions give an owner two positions on one stake.  Rebasing of shares
is left out, and stake shares stay within a u64 (a u128 in Drift), so that the conversion of
shares to the u64 of a position and its event (`drift-insurance-fund/src/lib.rs:179`,
`240`, `274`) never fails here; that of a value does.

### Deployment

`step` says where each script is; what a script keeps in memory is `signature`
(deploy: whether this run initialised), `previous` (both: whether the manifest it read
names a transaction), `options` and `onChain` (verify).  Each read of the chain or the file
and each write is a step of its own.  A manifest says which registry it is of: `Ours`, the
one modelled, or one elsewhere, whose account is any of `OtherConfigs`.  The first manifest may
be of one elsewhere, as the committed `deployments/devnet/registry.json` is when
`REGISTRY_PROGRAM_ID` names a new registry.  Verify looks at either registry,
by `--registry-program-id`, the manifest or the environment, and may be given a
signature (`--init-signature`), which goes before that of the manifest; `initSignature` tells
whether a manifest names a transaction, not which.  `Die` kills a script anywhere,
`LoseConfirmation` lets the transaction land and the script fail, `UseRegistry` is any
instruction of `Registry` by anyone, which includes an initialisation between the deploy
script's look and its own.  Writing the file is one step (`writeFileSync` of a few hundred
bytes).  Left out: the flags that skip a step or name another file, the deploy script run for a
registry elsewhere, the fields that are copied or stamped and nothing else (program data,
`deployedAt`, `verifiedAt`, `notes`), `--rpc-url` (both scripts see one cluster), and the
comparisons of the verify script, which only set its exit code.

## 3. Runs

| Run | Instance | What it shows |
|---|---|---|
| `registry` | 2 keys and the default key, programs {p1, default}, 1 mint, versions {0, 1, 65535}, texts of 20..257 bytes and a blank one, `MaxCount` 2, `MaxSlot` 2 | four invariants and the refinement |
| `dispatcher` | 2 users, 2 transactions, the template and one other adapter, 2 mints, at most 2 positions, `MaxU64` 2, `MaxIx` 2, `MaxCount` 1 | five invariants, and that a commit changes only what was approved for the position's own mint |
| `marginfi` | 2 users, 1 account with 2 balance slots, 2 banks, programs {MarginFi, another}, lists of accounts that are right or have one flaw, `One` 4, `MaxU64` 2, `MaxShares` 8, share values 1 and 1.75, `MaxOut` 2 | four invariants, an action property, the refinement of `YieldAdapter` |
| `marginfi_net` | the same, amounts 2 and 3, `MaxU64` 3, no direct use | `DepositedIsNet` fails (findings) |
| `marginfi_floor` | the same as `marginfi` | `ValueIsFloored` fails (findings) |
| `maple` | 2 users, 3 token accounts, 1 configuration, a ring of 2, answers 0, 1 and 3, `Scale` 2, `MaxU64` 2 | two invariants beside the types, an action property, the refinement of `YieldAdapter` |
| `kamino` | 2 users, 2 reserves of which one is used, 2 collateral accounts, `One` 2, `MaxSf` 4, `MaxU64` 3 | values within the roundings, withdrawals that pay, sound positions, only the owner's collateral moves, the refinement |
| `kamino_withdraw` | the same | `WithdrawalReturnsAmount` fails (findings) |
| `jupiter` | 2 users, 2 JLP accounts and one of another mint, AUM 0 or 2, `MaxU64` 3 | the pool's rate, the distance to the quote, only the owner's JLP moves, the refinement |
| `drift` | 2 users, 1 market, 2 configuration versions, `MaxU64` 3 | the stake's part of the vault, requests stay recorded and keep the value, the refinement (unsettled) |
| `deployment` | both scripts, 2 keys, 1 entry address, `MaxFailures` 2, a registry elsewhere that is there or not | a manifest of the registry never runs ahead of it; eventually there are both |
| `deployment_count` | the same | `AdapterCountIsRead` fails (findings) |

* `MaxCount` stands for `u64::MAX` of `adapter_count`: three addresses can be
  proposed, so the third proposal meets the overflow check.  In `dispatcher` it is 1:
  either adapter can be the registered one, and a request for the other is refused.
* `MaxSlot` 2 lets an entry be created, approved and paused in different slots or
  in the same one.
* `MaxU64` stands for `u64::MAX` of amounts: two deposits of two overflow, and
  a withdrawal may be partial, exact or too large.
* `MaxIx` 2: a transaction's second instruction can fail after the first succeeded,
  and a query can follow a deposit.  Two transactions are what locks are about.
* `dispatcher` has two mints, so that the entry, the request and the position's
  configuration may each name another, and explores states of at most two positions
  (`TwoPositions`): of one user or of both, under one configuration or one of each mint.
  More would be positions that no transaction in flight holds.
* It uses symmetry of users, transactions and mints (no property names one) and a view
  without `slot`, `event` and `replayed`, which no step reads except to copy them and no
  property of that run mentions; `MaxSlot` is 0 there.
* In `marginfi`, direct use leaves 0.75 or 1.75 shares, so that shares and values are
  fractions, that 1.75 at 1.75 meets the lost carry of the product, and that a
  withdrawal may exceed the deposits; 2 shares at 1.75 are worth more than a u64 holds
  (`MaxU64` 2).  A bank may be operational, reduce-only or without an oracle.  A
  configuration may name a program that owns no bank, so its positions stay empty.
  Symmetry of users and of banks is sound: initial states, calls and facts treat them
  alike and no property names one.
* `maple`: two slots in the ring, so that it wraps and is first read before it is full;
  a zero answer stands for all that are not positive, `Scale` 2 makes the others worth
  0.5 and 1.5 a unit.  Three token accounts, one of another mint.
* `kamino`: with `One` 2 a scaled 1 is half a unit; `MaxSf` 4 holds debts of two units
  with fees of a half on them, so the four floors differ from the exact worth and the
  supply and the worth each come to zero with the other left.  `r2` has another mint.
* `jupiter`: AUM 0 or 2 and up to 3 JLP: rates below and above one, a pool worth
  nothing with JLP out, an empty one that still states an AUM.
* `drift`: with `MaxU64` 3 a share may be worth a fraction, a request may be
  capped, and a second position can act while the first one's request is open.
  `Openings` lets one user open positions and both act.
* `deployment`: `MaxFailures` 2 is a crash or a lost confirmation in two runs, or one in
  each script.  The count goes to 1; the registry elsewhere has 2 adapters, more than a manifest
  of this one may ever tell of.
* Views (`kamino`, `jupiter`, `drift`) leave out `shares` and `last_value` of a position,
  which the adapters write and never read; `kamino` keeps whether they were ever not zero,
  which a property asks.  Users (and Maple's two vaults) are symmetric in the initial
  states, facts and calls of the runs that use symmetry, and no property names one.

Deadlock is checked in every passing run: the governor can always transfer
governance, the protocols can always move on.

Liveness is claimed of the scripts only, since nothing in the programs obliges anyone
to submit a transaction.  `Fairness` is weak: a running script takes its next step, and
whoever deploys starts the deploy script again as long as the manifest is not of this registry.
Weak fairness is enough because nothing disables a running script's next step but
its own death, and there are at most `MaxFailures` of those; without that bound
nothing would be guaranteed, and nothing is by the code either.

## 4. Proofs

TLAPS proves every property that a passing run checks except `DeploymentIsRecorded`, which
is liveness, for all values of the constants that satisfy the named assumptions
(`RegistryConstants`: the default key is a key,
versions are u16, texts are texts, bounds are naturals; `DispatcherConstants`: the
template is a program, the bounds are naturals; `FixedPointConstants` and
`MarginfiConstants`: `One` is positive, share values, slots and amounts are naturals,
calls name a user, an account and a bank; `AccountsConstants`, `SplTokensConstants` and
`MapleConstants`: the bounds are naturals, amounts too, answers are integers, scale and ring
are not empty, and no user has the key of a position's address; `KaminoConstants`: the unit
is positive, the fees on some interest are no more than the interest, interest and losses
are not negative; `JupiterConstants`: an AUM is a natural and may be zero;
`DriftConstants`: amounts are u64s; all three: calls are signed by users and name accounts
there are; `DeploymentConstants`: the wallet may sign, failures are
bounded, what is elsewhere are configuration accounts).

* `RegistryProofs`: `TypeCorrect`, `CountCorrect`, `WellFormedCorrect`,
  `SlotsCorrect`, `ReplayCorrect`, `RegistryImplementsAllowlist`.  `StepCases`
  reduces a step to the clock, initialisation, a proposal, a handover, or an update of
  one existing entry; the lemmas `...Effect` say what each leaves in the accounts.
  `SlotsCorrect` (slots are in order, the last event carries its entry's slot) is proved
  only; a slot that is not recorded is what `ReplayMatchesChain` finds in the run.
  `CountCorrect` needs that the set of entries is finite and that nothing exists
  before initialisation.  The refinement goes action by action, after
  `GovernorActs` has shown that every step but the founding one is by the governor.
  `AllowlistConsistent` is about the abstract list alone; `RetirementIsTerminal` brings
  what it guarantees back to the accounts: nothing takes an entry out of `Deprecated`.
  Of the scripts, `DeploymentIsARegistry` says that a behaviour of `Deployment` is one of
  `Registry`, so that all of these theorems hold there, and `ManifestCorrect` that no
  manifest of the registry is ahead of it: it exists and has the adapters counted, whatever
  stood in the file before.  The latter is not inductive: `DeployInv` adds that a
  deploy script about to write has seen the registry, and that what the verify script has
  read of it was true; `RegistryGrows` says that neither the registry nor an adapter of its
  count goes away.
* `DispatcherProofs`: `TypeCorrect`, `CallsApproved`, `BooksCorrect`,
  `QuoteCorrect`, `UpdatesKept`, all from one inductive invariant `IInv`.  None
  of the five is inductive alone: that a committed balance matches the events needs
  that the working copy differs from it by what the transaction has announced plus
  what the call under way has done (`Accounted`, `Outstanding`); that needs that two
  transactions never share a position (`Exclusive`); that an announced quote is right
  needs that the return data is (`Answered`).  `TransactionOK` says all this of one
  transaction over the accounts it reads; `AdvanceKeeps` reduces its own steps to
  its record, `OthersKeep` and `Undisturbed` show that steps of others cannot
  matter because they respect the locks.  `RegistryBesideDispatcher` refines the
  composition to the registry alone.  From it and `IInv` follows `RetiredIsNeverCalled`,
  which neither part has alone: from the moment an entry is deprecated it is never called
  through again, by the transactions in flight either.  `RoutedMovesApproved` is the action
  property of the run; no program checks what it says in one place.  It needs
  `Backed` (a copy that differs from the committed position was moved by the position's owner
  through an entry for its mint, which the lock keeps `Approved` until the commit) and
  `Named` (a configuration account has the mint its address is derived from, and a
  position's configuration exists): the dispatcher holds the request's mint against the
  entry, the template against the configuration.  `RoutesStep` carries both beside `IInv`.
* `MarginfiProofs`: `TypeCorrect`, `ReportsCorrect`, `FundedCorrect`,
  `BookingCorrect`, `OnlyTheOwnersBalance` and `MarginfiImplementsYieldAdapter`, from
  one invariant `IInv`: the four invariants of the run and two more.  The adapter
  reads the first balance slot of a bank, MarginFi moves its active one, so that what
  is reported is what is held needs `OneBalancePerBank`; that the signer is the owner
  the abstract specification speaks of needs `OwnersMatch` (the owner stored in a
  position is the one in its address).  `MovementEffect` is what deposits and
  withdrawals share.  `ProductWithinOne` is arithmetic for every unit: the adapter's
  product is the floored product or one below it.
* `AccountsProofs`: what is common to the protocol adapters.  An `AccountStep` is
  something elsewhere, one of the two creations, a movement or a report by the
  position's owner.  `AccountStepKeeps`: it keeps the types, `OwnersMatch`, and never moves or
  closes an account; `AccountStepMaps`: it is a step of `YieldAdapter`.  `Floored` and
  `RoundedUp` are the arithmetic of all conversions.
* `MapleProofs`: `TypeCorrect`, `ReportsCorrect`, `CoverCorrect`, `PaymentsCorrect` and
  `MapleImplementsYieldAdapter`, from `IInv`: the types, `OwnersMatch`, `LastAnswer` (the slot
  before the cursor holds the last answer, for a ring of any length:
  `LatestIsWritten`) and `VaultCoversDeposits`.  That a vault covers what is booked is
  inductive because two funded positions cannot have the same vault (each would have to
  own it), and an account owned by a derived address is debited by `withdraw`
  alone: `UsersCannotTake`, `CallIsTheOwners`.  With `StepsAreAccountSteps` the
  refinement comes from `AccountsProofs`.
* `JupiterProofs`: `TypeCorrect`, `ReportsCorrect`, `TradesCorrect`, `OnlyTheOwnersLp` and
  `JupiterImplementsYieldAdapter`.  The types are enough of an invariant: an announcement is
  made from what the token account and the pool hold after the call, whatever the call
  did.  `ValueIsFloored` is the conversion's arithmetic; `MinimumNearQuote` and
  `BurnNearQuote` add up the roundings of the quote and of the basis points.
* `KaminoProofs`: `TypeCorrect`, `ReportsCorrect`, `FundedCorrect`, `PaymentsCorrect`,
  `OnlyTheOwnersCollateral` and `KaminoImplementsYieldAdapter`.  `TotalNearExact`: the
  floored debts lack less than a unit, each of the three floored fees adds less than one;
  `ValueWithinRounding` carries that through the value's own floor.  `PaymentsCorrect` is about
  two rates, the adapter's before the call and Kamino's after it has accrued interest:
  `AccrualsGain` (a reserve's worth does not fall, as fees are no more than the interest),
  `LeastThatCovers` and `CoverPays`.  `FundedCorrect` is
  inductive beside the types (`FundedStaySound`): places and configurations never change.
* `DriftProofs`: `TypeCorrect`, `ReportsCorrect`, `PendingCorrect`, `RequestsCorrect` and
  `DriftImplementsYieldAdapter`.  Even the types are not inductive: that a removal never takes
  more from a market than there is needs that a market's shares are those of its stakes.
  A sum over stakes would be a recursive definition; `SharesAreOwned` states it as the size
  of the set `Units` of numbered shares that the stakes own (`UnitsGrow`, `UnitsShrink`).  `PendingIsRecorded` is
  inductive with `AskedOK`, `RequestsAreHeld` and the fact that Drift takes no deposit while
  a request is open, the one instruction that would clear it.  `SumOfParts` and `SplitInTwo` are the
  arithmetic of a value in two floored and capped parts.

Only model-checked: `DeploymentIsRecorded`, which is liveness under fairness and out of
this prover's reach, and the four violations, which are counterexamples.

### Findings

* **`deposited_amount` is not the net deposit** (`marginfi_net`).  `withdraw` subtracts
  with saturation (`marginfi-usdc/src/lib.rs:215`): deposit 2, withdraw 3 with
  interest, deposit 2 books 2, where deposits less withdrawals are 1.  The adapter's README
  (line 19) says "net deposited amount".  `BookedFromTheLow` says what it is instead.
* **A value may be one unit below its floor** (`marginfi_floor`).
  `fixed_mul_floor_to_u64` (line 845) floors the cross terms and the product of
  the fractions separately: 1.75 shares at 1.75, for example, give 2, not 3.  The integration notes
  (lines 78-79) say the product is floored.  `ReportsWhatIsHeld` and
  `ProductWithinOne` bound the error by one unit.
* **A Kamino withdrawal may pay less than its amount** (`kamino_withdraw`).  The total
  supply floors debts and three fees one by one (`kamino-usdc/src/lib.rs:823-841`); floored
  fees make the reserve look worth more than it is, and the collateral sized with it
  (line 858) redeems for less.  Nothing compares what arrived.  `SPEC.md:367` says a withdrawal
  "must atomically return `amount`".  `WithdrawalsPay` is what holds: it pays if no fee
  has a fraction, and never takes more collateral than the least that would.
* **The manifest's count is not read from chain** (`deployment_count`).  The deploy script
  writes `adapterCount: 0` (`deploy-devnet.ts:101`) also when it finds a registry in use;
  `deployments/README.md:26` says it is read from chain.

Divergences in prose that no run is about: Maple's README (lines 79, 85, 99) says that amounts are
not USDC units where the code reports `value` in them; `docs/DEVNET_REGISTRY_DEPLOYMENT.md:33`
says the verify script checks `programDataSlot`, which `buildChecks` does not; the deploy
script records its own wallet as `governanceAuthority`, also over a registry that another key
governs (`deployments/README.md:25`).  Both scripts carry `initSignature` over from whatever
manifest they find (`deploy-devnet.ts:105-108`, `verify-devnet-registry.ts:306-307`), also from one
of another registry, where `deployments/README.md:30` means the transaction of this one.

## 5. Not modelled, and why

The SDK derives addresses, encodes instructions and decodes the event of one simulation; it
keeps no state between calls, and the instructions it builds are those of `Dispatcher`.
The dispatcher's `initialize` emits an event and touches no account.  Fork tooling,
examples and tests are sequential plumbing around the programs.  Of the deployment only
the two scripts' order of effects is modelled (section 2).  Derived-address
cryptography, account rent, byte offsets of external accounts and serialisation beyond
sizes are left to the runtime; the protocols are modelled from how the adapters use
them.

Three hazards have no property, for want of a promise to hold the code to: a bad
price answer blocks Maple withdrawals too; Drift's `pending_withdraw_amount`
keeps its value once the owner has collected; the two scripts at once may lose the
signature of the initialisation from the manifest, or the manifest to another registry's.

## 6. Plan

Every program and both scripts are modelled; every safety property, action property and
refinement that a passing run checks is proved.  What could follow:

1. The template as a `YieldAdapter`: in `Dispatcher` its positions move by whole
   transactions, so that a step there is several steps of the abstract adapter; the
   refinement needs the announcements of a commit one by one.  `BooksBalance` and
   `RoutedMovesAreApproved` say of it what the refinement would.
2. Retirement across the scripts and the dispatcher at once: with `DeploymentIsARegistry`
   and `RegistryBesideDispatcher` both are registries; a module that composes the
   three would say so in one theorem.
