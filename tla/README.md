# SparkLend v1 core: TLA+ models, model checking and proofs

This directory specifies the lending pool of `contracts/protocol` (SparkLend v1,
a fork of Aave V3.0) in TLA+, together with the program that tests it: the
scenario engine, the independent calculations of expected values and events, and
the signing helpers of `test-suites`. TLC checks the specification on small
instances; TLAPS proves the theorems for every number of assets and users, every
scale and every risk parameter the configurator accepts.

Contents: [1 the system](#1-the-system), [2 the modules](#2-the-modules),
[3 abstractions](#3-what-is-abstracted), [4 properties and runs](#4-properties-and-runs),
[5 proofs](#5-what-is-proved), [6 findings](#6-what-the-code-does-and-its-texts-deny),
[7 not modelled](#7-not-modelled), [8 plan](#8-plan).

## 1. The system

Users supply assets to a pool and get interest-bearing *aTokens*; against them
as collateral they borrow, at a variable or a stable rate. When a position's
health factor falls below one, anybody may repay part of its debt and take
collateral with a bonus. The contracts are behind one `Pool`; a transaction is
atomic and a failing one leaves no trace. There is no scheduler, no thread and no
message between contracts: what makes the system hard is that every account may
call every operation in any order, on its own and on other accounts' positions,
while prices, interest and the risk state move in between and an admin lists,
drops and reconfigures reserves under them; that one balance exists in two units
(scaled and with interest) and is rounded at each conversion; that one operation
writes the user's bitmap, balances and counters in an order that later steps of
the same operation depend on; and that a flash loan lets its receiver call back
while the funds are out.

The tests are a second program over the same chain: a scenario engine tells
stories, awaits one transaction after the other, computes with its own formulas
what the contracts should store, and puts the chain back by snapshots. Here time
passes between two awaits, the network may fail at any of them, and a
signature may be used by somebody else before it is sent.

| Component | State | Operations | What makes it correct |
|---|---|---|---|
| `Pool`, `PoolStorage` | reserves, user bitmaps, eMode categories | entry points; dispatch to the libraries | each entry point validates before it changes |
| `SupplyLogic` | aToken balances, collateral bits, liquidity | supply, withdraw, finalizeTransfer, setUserUseReserveAsCollateral | no call takes collateral from under a debt; isolation stays exclusive |
| `BorrowLogic` | debt tokens, borrowing bits, isolation counter | borrow, repay, repayWithATokens, swapBorrowRateMode, rebalance | no debt without its bit; silo, ceiling, eMode respected |
| `LiquidationLogic` | all of the above, of two users and the treasury | liquidationCall | takes no more than debt, balance and bonus allow |
| `EModeLogic` | category per user | setUserEMode | debts are of the category; leaving keeps the position healthy |
| `IsolationModeLogic` | `isolationModeTotalDebt` | called on repay and liquidation | counter within the ceiling, lowered with the debt |
| `GenericLogic`, `ValidationLogic` | none | account data, health factor, guards | evaluated on the right intermediate state |
| `ReserveLogic` | indices, rates, treasury share | updateState, updateInterestRates, cumulateToLiquidityIndex | indices never fall; no accrual underflows; claims are covered |
| `PoolLogic` | reserve list | mintToTreasury, initReserve, dropReserve | an id is reused only when nothing is claimed under it, nor owed as far as the totals of the debt tokens tell |
| `AToken`, `VariableDebtToken`, `StableDebtToken`, bases | scaled balances, allowances, nonces | mint, burn, transfer, approveDelegation, permit | sums are preserved; rounding never loses a whole repayment; events tell it all |
| `FlashLoanLogic`, `BridgeLogic` | in-flight funds, unbacked | flashLoan, mintUnbacked, backUnbacked | funds return with the premium; unbacked within its cap |
| `PoolConfigurator` | risk parameters | setters with constraints | changes keep the meaning of user bits |
| `ReserveConfiguration`, `UserConfiguration` | one word per reserve and user | setters, getters, questions about a whole word | a word says what a record and two sets would say |
| `L2Pool`, `CalldataLogic`, `L2Encoder` | a packed call on its way | encode, decode | the call does what was asked for, whatever was listed meanwhile |
| rate strategy, `MathUtils` | none | rates from utilisation, interest factors | rates after an operation are those of the state it leaves |
| addresses provider, proxies, `VersionedInitializable` | addresses, code behind proxies, revisions | create, upgrade, replace, initialize | only an upgrade initialises; the parts of a market belong together |
| `PoolAddressesProviderRegistry`, `ACLManager` | markets, roles | administration | lists and indices agree |
| `AaveOracle`, `PriceOracleSentinel` | sources, grace period | prices, borrow and liquidation switch | no zero price; grace period after downtime |
| scenario engine, `make-suite` | snapshot id, place in the suites, chain | stories, hooks | suites start from the deployed chain; a passing story happened as told; the run ends, and puts the chain back unless its own hooks are refused |
| test actions, `calculations`, `tokenization-events` | readings before and after | send, read, compare | what is expected is what the contracts do |
| signing helpers | signatures on their way | permit, delegationWithSig | accepted once, in order, for what was signed |

Interactions: `Pool` calls the libraries on its storage; the libraries call the
three tokens of a reserve; an `AToken` transfer calls back `Pool.finalizeTransfer`
after the balances have moved; `flashLoan` calls an arbitrary receiver;
`PoolConfigurator` reads a configuration, checks it against suppliers or
borrowers, and writes it back through `Pool`; the oracle and the sentinel are read
in each validation. The test actions read through the data provider, send
through the users' signers, and compare with `calculations`. PROJECT.json lists
each component with its status, and under `hazards` the places where this code
can go wrong in a way a unit test hardly reaches, with the properties that guard
each.

## 2. The modules

| Module | Models | Extends |
|---|---|---|
| `WadRayMath` | `libraries/math/WadRayMath.sol`, `PercentageMath.sol` | Integers |
| `PoolStorage` | state; token views; `UserConfiguration`; `GenericLogic` | WadRayMath |
| `Pool` | one action per entry point, with its validation and token calls, over all reserves; environment; properties | PoolStorage |
| `PoolConfigurator` | `PoolConfigurator.sol` with the parts of `PoolLogic`, `ConfiguratorLogic` and `ReserveLogic` it calls: listing, dropping, setters | Pool |
| `MathUtils` | `libraries/math/MathUtils.sol`: linear and compounded interest | WadRayMath |
| `StableDebtToken` | `tokenization/StableDebtToken.sol`, the rebalance of `BorrowLogic`, a clock | MathUtils |
| `InterestRates` | `DefaultReserveInterestRateStrategy.sol` | MathUtils |
| `Reserve` | one reserve with clock, indices and rates: `ReserveLogic`, the user operations, bridge, flash loans | StableDebtToken, InterestRates |
| `TokenizationEvents` | the events the tokens emit, beside those `tokenization-events.ts` expects | Reserve, BigNumberMath |
| `BigNumberMath` | `test-suites/helpers/utils/wadraymath.ts` | WadRayMath |
| `Calculations` | `test-suites/helpers/utils/calculations.ts` | BigNumberMath, InterestRates |
| `Actions` | `test-suites/helpers/actions.ts`: read, send, mine, read, compare | Reserve |
| `ScenarioEngine` | `scenario-engine.ts`, `make-suite.ts`, `scenario.spec.ts`: suites, hooks, stories, snapshots, network errors | |
| `SuiteRuns` | what `makeSuite` promises | |
| `Permits` | `permit`, `delegationWithSig`, `supplyWithPermit`, `repayWithPermit`, the signing helpers | |
| `AddressesProviderRegistry` | `configuration/PoolAddressesProviderRegistry.sol` | |
| `ProviderIds` | what the registry promises, as one injective map | |
| `Upgradeability` | `PoolAddressesProvider.sol`, the proxies, `VersionedInitializable.sol`, the parts of `ConfiguratorLogic` that create and upgrade tokens | |
| `Administration` | registry and market beside each other, neither touching the other | AddressesProviderRegistry, Upgradeability |
| `EVMWord` | words of 256 bits as sets of bit positions, with the operators the code uses on them | |
| `UserConfiguration` | `libraries/configuration/UserConfiguration.sol` | EVMWord |
| `UserFlags` | what that word stands for: two sets of reserves | |
| `ReserveConfiguration` | `libraries/configuration/ReserveConfiguration.sol` | EVMWord |
| `ReserveParameters` | what that word stands for: a record of parameters | |
| `L2Pool` | `misc/L2Encoder.sol`, `CalldataLogic.sol`, `pool/L2Pool.sol` | EVMWord |
| `PackedWords` | the three modules of words beside each other; a behaviour is of one of them | UserConfiguration, ReserveConfiguration, L2Pool |
| `MC...` | the instances TLC checks, each of the module of the same name | |
| `Arithmetic_proofs` | facts about rounding, and about sums over finite sets | WadRayMath |
| `Pool_proofs` | the liquidation arithmetic; `TypeOK`, one lemma per action; the safety theorems for a constant listing; health | Pool, Arithmetic_proofs |
| `PoolConfigurator_proofs` | the safety theorems while reserves come, go and change | PoolConfigurator, Pool_proofs |
| `Reserve_proofs` | compound interest, the stable debt token, the reserve, its rates and events | TokenizationEvents, Arithmetic_proofs |
| `PackedWords_proofs` | words of users and reserves implement sets and records; packed calls | PackedWords |
| `Permits_proofs` | signatures: order and grants | Permits |
| `ScenarioEngine_proofs` | stories as told, refinement of `SuiteRuns` | ScenarioEngine, Arithmetic_proofs |
| `Administration_proofs` | registry (list, mappings, refinement) and market | Administration |

The contracts are modelled at two grains. `Pool` has all reserves, positions,
prices and flags, and leaves interest to the environment. `Reserve` has one
reserve, with the arithmetic of indices and rates, and leaves the collateral to
the environment. Rounding and amounts are exact in both.

**`Pool`.** `aTokenBalance` and `variableDebt` are the scaled balances of
`ScaledBalanceTokenBase`; `stableDebt` is `StableDebtToken.balanceOf`;
`collateral` and `borrowing` are the two bits per reserve of `_usersConfig` as
sets; `liquidity` is the underlying that lies in the aToken contract; `wallet`
is what users hold of it; `configuration`, `eModeCategories`,
`usersEModeCategory` and `isolationModeTotalDebt` are the mappings of the same
name. Every action is one transaction: its conjuncts without primes are the
validations and the reverts of token calls, in the order-sensitive cases
(transfer, liquidation, withdrawal) evaluated on the state between two writes
that the code reads, which is why `GenericLogic` takes an explicit position.
A revert is a disabled action. The actions: `Supply`, `Withdraw`, `Transfer`,
`SetUserUseReserveAsCollateral`, `Borrow`, `Repay`, `RepayWithATokens`,
`SwapBorrowRateMode`, `ApproveDelegation`, `LiquidationCall`, `SetUserEMode`,
`MintToTreasury`, and for the environment `Accrue` (time), `SetPrice`,
`SetSentinel`.

**`PoolConfigurator`** adds the variables that only listing changes:
`reservesList`, `reservesCount` and the id stored in each reserve (`reserveId`) as
in the code, `initialized` (a reserve has tokens), `holdings` (wallets of assets
that are not listed) and `stableTotalIsZero` (the ids whose stable debt token stores a
total of zero, which is what `validateDropReserve` and `_checkNoBorrowers` read). The `Assets` of `Pool` are here the reserve *ids*, as the
bits of a user's bitmap are, so that a dropped id can be given to another asset
while the bits stay. One action per admin call.

**`StableDebtToken`** holds one token contract as a record: per user principal, rate
and timestamp (`_userState`, `_timestamps`), and `_totalSupply`,
`_avgStableRate`, `_totalSupplyTimestamp`. Its operations are operators from
record to record, so that the rebalance, a burn and a mint in one transaction,
is their composition, and `Reserve` can use them inside its own actions.

**`Reserve`.** `reserve` is `ReserveData` (indices, rates, last update, unbacked,
treasury share); `aToken` and `variableDebt` are scaled balances with the index of
the holder's last operation; `stable` the token above; `available` the underlying
in the aToken. Each action is `updateState`, the change, `updateInterestRates`, the
transfers, in the order of the library, with the cached totals and those returned
by `mint` and `burn` as the code hands them on. `loans` is a stack of flash loans
that are out: `FlashLoan` takes the funds, any operation may follow, as the receiver
is called in the same transaction (time stands), and `FlashLoanRepayment` settles
the last one. `NextBlock` moves the clock.

**`TokenizationEvents`** adds to every step of `Reserve` the events of the tokens, in
the order they are emitted; when a helper of `tokenization-events.ts` sends the
transaction, the reading before it and the receipt are kept and the expected
events are computed from them with the formulas of the file.

**`Actions`** has a program counter over one call of an action: `Read` (the data before),
`Mine` and `Execute` or `Reverted` (the transaction and its block), `Travel`
(a story's time travel, by which another block passes), `Calculate` and `Compare`.
`Calculations` holds the calcExpected functions; the comparison is key by key, as
`expectEqual` does it.

**`ScenarioEngine`**: `at` and `phase` are where mocha is, `snapshots` and the two ids
those of hardhat, `chain` the transactions mined. Each action of a story either
behaves as the chain says, or the network fails before or after it is mined
(`NetworkFails`), after which only hooks run. So does each hook: its call may be rejected, before
or after the chain has done it (`HookThrows`), after which mocha goes on with the hooks that close
what was opened, and `rejected` keeps which ones these were. `SuiteRuns` is the abstract
specification: suites in their order, each from the chain as deployed, none after
a failure of a test or a hook; a suite that passes leaves the chain as deployed. `KeepsPromise` is the refinement.
Snapshots are numbered from the first one of a hook: one that the deployment may
take before them is not modelled, and matters only to the `evm_revert('0x1')` that follows a rejected first hook.

**`Permits`**: nonces, allowances and domains per token, a set of signatures that exist
and may be submitted by anybody at any time, one pending `...WithPermit` request
that holds a signature which others can see, and a fork of the chain that gives
it a new id.

**`UserConfiguration`, `ReserveConfiguration`**: `userData` and `reserveData` are the 256-bit
words of the code, one action per setter. The masks, first bits and largest values of
`ReserveConfiguration` are written down field by field as the constants in the code are, and the
setters and getters, which all have one of two forms, are one operator each over the fields.
The abstract modules are what `PoolStorage` and `Pool` work with: sets and records.

**`L2Pool`**: a client encodes a call with the ids of the moment (`Encode`), the pool decodes and
executes it later (`Execute`); in between the configurator lists and drops (`InitReserve`,
`DropReserve`). The positions of the fields are written down twice, as in the code: once for
the encoder, which also checks widths and replaces the largest number, once for the decoder.
`PackedWords` puts the three modules side by side; they share no step.

**`Upgradeability`**: each proxy has an admin, an implementation and a storage, of which the
last initialised revision and the pool that a configurator keeps are modelled; implementations
have a storage of their own. `UpdateImpl` and `SetAddress` are the owner's calls to the
provider, `InitReserve`, `DropReserve` and `UpdateToken` those to any configurator that was
ever created, and `Initialize` is everybody's, with any argument, on proxies and on the code behind
them. Creation and initialisation, and upgrade and initialisation, are one transaction each.

**`AddressesProviderRegistry`** has the four storage variables of the contract under
their names and one action for each of its two operations.

## 3. What is abstracted

* **Scales.** RAY, WAD and PERCENTAGE_FACTOR are even parameters: 2, 100 and 10
  for TLC in `Pool`, anything even in the proofs. RAY = 2 makes rounding happen with
  single digits: an index of 3 is 1.5, so that conversions lose and gain units. In
  `Reserve` RAY is 10000 and a year has four time units, so that rates of a few percent
  are distinct numbers and interest of one block exceeds a unit.
* **Time.** In `Pool`, `updateState` brings stored indices up to the present at the
  start of each operation, so the model keeps only the present ones. `Accrue` lets
  any of them grow when there is debt that bears interest, adds interest to stable
  debts and a share to the treasury; every choice of rates is a choice of `Accrue`.
  `Reserve` computes them. The over-approximation in `Pool` is deliberate: its safety
  properties do not rest on how much interest accrues.
* **Stable debt** is, in `Pool`, the balance with interest. The total that a stable debt token
  stores drifts from the sum of these, and a repayment that exceeds it, or takes the whole average
  rate, sets it to zero while others still owe (`StableDebtToken.burn`, lines 189-205). The two
  checks of the configurator that read it ask only whether it is zero; so `PoolConfigurator`
  keeps that (`stableTotalIsZero`): a loan makes it more than zero, any repayment may make it zero or not
  (`StableTotalsFollow`), and what is left to the stable borrowers of a dropped reserve goes
  with its token. In `Pool` two guards still read the sum
  in the place of the total: the borrow cap, and the subtraction from the liquidity in the rates of a
  withdrawal to the aToken contract; each may accept or refuse an amount at the edge that the code does not. Rates,
  timestamps, average rate and stored total are in `StableDebtToken` and `Reserve`.
* **Collateral in `Reserve`.** Health is not represented: borrowing is limited by the
  liquidity, and a user may borrow in one reserve against collateral in others.
* **Width.** Naturals are unbounded; subtraction below zero is a revert in the
  code and the type invariants show that none is left unguarded. `MaxUint` and
  `MAX` stand for the "all of it" argument and the health factor without debt. Casts to
  128 bits, which revert on overflow, are modelled in `L2Pool` only. In the modules of words
  all 256 bits are there.
* **Risk parameters** are constant in `Pool`, and arbitrary among those
  `PoolConfigurator` accepts as far as the properties depend on it; they change in
  the module `PoolConfigurator`. Which role may make an admin call is left out.
* **External tokens** are standard ERC20s without hooks or transfer fees; oracle, sentinel
  feeds, block timestamps and chain id are the environment's.
* **Cryptography.** A signature is its digest and its signer; nobody forges one.
* **Texts.** Names, wording of errors, units of display and referral codes are left out. Why an
  action of a story reverts is left out too, as the engine compares revert messages
  with nothing (`actions.ts:978` hands them to `expect` as a text for the failure).

## 4. Properties and runs

Each run is a cfg of its MC module, checked with `tlc -config <cfg> <module>`.

| Run | Module, cfg | Checks |
|---|---|---|
| `positions` | `MCPool`, `MCPool_positions.cfg` | `IsolatedCollateralExclusive`, `DebtCeilingRespected`, `EModeBorrowsConsistent`, `LiquidationWithinBonus`, `ATokensBacked`, `HealthyUnlessMarketMoves` |
| `listing` | `MCPoolConfigurator`, `..._listing.cfg` | `TypeOK`, `DebtImpliesBorrowingFlag`, `SiloedBorrowingKept`, `ListingConsistent`, `ClaimsInReserves`, `CountedUnderACeiling` |
| `debt` | `MCStableDebtToken`, `MCStable_debt.cfg` | `StableTypeOK`, `RebalanceKeepsDebts` |
| `reserve` | `MCTokenizationEvents`, `..._reserve.cfg` | `ReserveTypeOK`, `FullExit`, `AccrualNeverUnderflows`, `RatesAreCurrent`, `Solvent`, `IncomeNeverFalls`, `EventsAsExpected`, `BalancesFromEvents` |
| `stories` | `MCActions`, `..._stories.cfg` | `ReserveDataAsExpected`, `UserDataAsExpected` |
| `suites` | `MCScenarioEngine`, `..._suites.cfg` | `PassedAsTold`, `KeepsPromise`, `RunEnds` |
| `permits` | `MCPermits`, `..._permits.cfg` | `AcceptedInOrder`, `SpentWithinGrants` |
| `packed_words` | `MCPackedWords`, `..._packed_words.cfg` | `PackedTypeOK`, `QuestionsOfTheSets`, `ActsAsRequested`, `ImplementsFlags`, `ImplementsRecord` |
| `markets` | `MCAdministration`, `..._markets.cfg` | `AdministrationTypeOK`, `ListConsistent`, `MapsInverse`, `OneMarket`, `ImplementsProviderIds`, `InitializedByUpgradesOnly` |
| `isolated_debt` | `MCPool`, `MCPool_isolated_debt.cfg` | `IsolatedDebtUpdatedOnRepayOrLiquidation`, expected to fail |
| `burn_returns` | `MCStableDebtToken`, `MCStable_burn_returns.cfg` | `BurnReturnsTotalSupply`, expected to fail |
| `deposit_with_debt` | `MCActions`, `MCActions_deposit_with_debt.cfg` | `DepositAsExpected`, expected to fail |

### Positions of users (`positions`)

The initial state chooses one of four instances, each with a borrower and an LP who is
also the liquidator, no interest, and the moves and prices that its questions need:

* *isolation*: ETH with a debt ceiling, USD without; the LP may supply isolated collateral
  for others; ETH may fall, so that liquidations in aTokens reach the flag path;
  withdrawals to the aToken contract itself are among the recipients.
* *market*: two collaterals with different thresholds and a debt asset, three ETH prices,
  credit delegation: positions on both sides of the threshold, mixed collateral, calls
  by the other user.
* *liquidation*: three units of each asset per user, a protocol fee, one price fall: both
  branches of the collateral computation, both ways of payment, self-liquidation and
  the clamp of the fee.
* *emode*: a category with its own price source and a siloed asset inside it, a borrowable
  asset outside, the sequencer oracle going up and down.

What is checked, and what could break it:

* `IsolatedCollateralExclusive`: a global exclusivity that the code derives from "exactly
  one bit is set", on five paths, of which the model has four: tokens minted unbacked are in
  `Reserve`, where there is one reserve and no bit.
* `EModeBorrowsConsistent`: the comment in `_getConfigurationData` that a debt is
  always of the category, on which the price of the debt rests.
* `DebtCeilingRespected`: the counter is raised and lowered by different operations
  with truncated amounts. It bounds the counter, not the debt: the first finding of
  section 6 and interest make the two differ.
* `LiquidationWithinBonus`: what a liquidator gets is worth at most debt and bonus,
  up to the rounding of one unit of debt and one of collateral, in both branches.
* `ATokensBacked`: without interest, no operation creates aTokens or a share of the
  treasury (self-transfer, self-liquidation, fee). With interest, each conversion may round in the user's
  favour, so an exact inequality does not hold; `Solvent` is its counterpart.
* `HealthyUnlessMarketMoves`: an action property over every position: the exceptions
  are prices, interest, entering a category from none (which the code does not
  check) and any rise of the worth of the position's collateral. The last is there for a real effect of
  truncation: `avgLiquidationThreshold` is a truncated weighted average, so that a
  gift of low-threshold collateral can cost more than it brings. The exception is wider than
  that effect, as it does not ask for the threshold.

### Reserves that come, go and change (`listing`)

Two listed reserves, ids 0 and 1, a third asset, two users with one unit of each. A
*scope*, chosen in the initial state, says what moves; the admin makes up to 4 calls:

* *interest* and *rates*: the indices of one reserve grow from 1 to 1.5 and its debts with
  them, with repayment with aTokens, liquidation and the treasury: the steps at which
  a rounded burn could take too much or leave a remainder. *interest* is of variable
  loans; in *rates* loans of both kinds are drawn and swapped, everyone repays his own
  debts, and a liquidation is of one unit and received in aTokens.
* *drift* (1 call): loans at both rates with interest on the debts alone, so that the stored
  stable total may be zero over a debt when the one reserve is dropped or siloed: both happen
  with a stable debt outstanding.
* *listing* (4 calls): dropping and listing again, under the free id of another asset, and
  switching reserves off, with one user who also withdraws to the aToken contract.
* *ceilings*, *siloed*, *switches* (pause, freeze, caps, fee, all reserves at once) and
  *risk* (collateral parameters, categories): 2 or 3 calls of each group, enough
  to take a parameter away and give it back around a user's position.

Properties:

* `TypeOK`: an unguarded subtraction. Tokens burn a *rounded* scaled amount; it
  must not exceed the balance in any of the eight places that burn or move.
* `DebtImpliesBorrowingFlag`: the bit is cleared when displayed debts sum up to the
  payment, while the debt is stored scaled: a remainder would be invisible. Here it is
  also checked across listing: an id is freed and reused while bits stay.
* `SiloedBorrowingKept`: that a siloed debt is the only one is derived from "exactly one bit
  is set" at each borrow. It is about debts, as the premise of the same
  statement about bits is too weak: a partial repayment of less than a scaled unit
  can leave a bit whose debt is gone, and `setSiloedBorrowing` asks for debts. It is an action property,
  as the exclusivity can be lost in one way: `_checkNoBorrowers` reads a stable total of
  zero while somebody owes the asset at the stable rate. Who is affected is exactly who owes it
  then; nobody else gets there by any later call.
* `ListingConsistent`: list, stored ids and tokens tell of the same reserves; id 0 is
  both the first reserve's and that of every asset not listed.
* `ClaimsInReserves`: nobody's supply or variable debt is in a reserve that is gone, no claim in one
  that is inactive. (Debt without supply is possible: a withdrawal to the aToken
  contract burns aTokens and moves nothing. A stable debt which the total of its token does
  not show is no obstacle to `dropReserve`, and is lost with the token.)
* `CountedUnderACeiling`: what was counted under an old ceiling is not counted under
  a new one.

Not claimed under reconfiguration: `DebtCeilingRespected`, as a ceiling may be lowered
below the count; `EModeBorrowsConsistent`, as `setAssetEModeCategory` moves an asset out of
the category while it is owed; `IsolatedCollateralExclusive`, as `repayWithATokens` may
burn a whole balance and leave its collateral bit, so that a ceiling introduced
when nobody supplies meets a bit that is set. They are effects of calls by trusted
roles. Deadlock is not checked: when all is paused and the admin's calls are used up,
no step is left.

### One stable debt token (`debt`, `burn_returns`)

Two borrowers, rates of 4% and 12% per time unit, two time units, five operations: loans at
different rates and moments, partial and full repayments that exceed the total. The
failing run takes rates of 10% and 50% and one time unit.

* `StableTypeOK`: the total stable supply is a second account with a rate of its own.
  The clamps of `burn` are all that keeps a repayment from reverting when the
  total is lower than the debt.
* `RebalanceKeepsDebts`: anybody may rebalance a borrower; nobody's debt changes.

That the total stays within the debts it stands for is not claimed: a repayment by
the borrower with the *lower* rate, after the total has drifted, can leave a tiny
total with an average rate of several hundred percent, which then outgrows the debts.

### One reserve with interest, and its events (`reserve`)

Amounts of 80, and of 4, which is little more than the interest; up to five operations
over up to three blocks; two users, interchangeable. Three scopes: borrowing,
repaying, swapping and rebalancing at both rates; bridges and flash loans, at most two
at a time (`MaxLoans`), of either user (`FlashBorrowers`), with every operation of the
scope while they are out; and the helpers of `tokenization-events.ts`.

* `FullExit`: whoever leaves with the whole balance leaves no scaled unit and is not refused.
* `AccrualNeverUnderflows`: `_accrueToTreasury` subtracts a total of before, put together
  from two tokens and three timestamps, from one of now; mint, burn and transfer subtract
  balances at two indices.
* `RatesAreCurrent`: rates are computed before the transfers and from totals the tokens return;
  afterwards they are those of the state. Not while a flash loan is out, nor with no
  aTokens.
* `Solvent`: claims of suppliers and treasury are covered by liquidity, funds of receivers,
  unbacked amounts and debts, but for `MaxRounding` (3) scaled units: what up to five
  operations lose by rounding. This is the property which a wrong liquidity rate, fee or
  premium violates.
* `IncomeNeverFalls`: the worth of a scaled token never falls at any step, neither by time nor
  by an operation that stores the index or adds a premium to it.
* `ReserveTypeOK`: every amount stays natural, also inside flash loans.
* `EventsAsExpected`: the formulas of the helpers give events which the tokens emit. Excepted is
  the burn that drops the rest of the stable total (second finding of section 6).
* `BalancesFromEvents`: at each step the events tell every holder what its balances of aTokens and variable
  debt move by, up to one rounding (half a scaled unit at the index and the halves of two balances, `Rounding`),
  and what its stable principal moves by, exactly. Somebody who is told interest twice, or not at all, is off by more.

### What the tests expect (`stories`, `deposit_with_debt`)

Three stories over two users, who are interchangeable: depositing, borrowing for oneself and
for another, repaying, withdrawing and swapping; stable loans beside variable debt,
rebalanced once and again; unbacked tokens lent out and backed with a fee. At each place a
story may have any action of a few kinds, with amounts of 2000 and 4000 and, for
deposits, 8000. `ReserveDataAsExpected` and `UserDataAsExpected` compare every key to
within 3 units (`Tolerance`), as `almostEqual` does, after every action: the
contracts and the calculations group, round and cache differently, and an
error of one action would be read back as the starting point of the next.

The preconditions `ReserveCalculable` and `UserCalculable` name the cases in which the
calculations are not right; they are those of section 6.

### The scenario engine (`suites`)

All runs of a suite with one or two stories of one or two actions and of a second
suite, with and without a spec's own snapshots, over actions that succeed, that are to
revert, and that lack an argument, with an error of the network at any place,
the hooks included: 152,977 states.

* `PassedAsTold`: a story that passes has happened as it is told, and saw no transaction of
  another suite.
* `KeepsPromise`: the refinement of `SuiteRuns`, in which there are no snapshots.
* `RunEnds` (liveness): the run ends, whatever fails, and with the chain as deployed unless a call of
  the hooks of `makeSuite` itself was rejected: after a rejected `evm_revert` nothing puts the chain back
  (`make-suite.ts:188-190`), and after a rejected `evm_snapshot` (184-186) `after()` reverts to the id of an earlier
  suite. A spec's own `evmSnapshot` and `evmRevert` may be rejected without harm. `Spec`
  has `WF_vars(Next)`: mocha runs the next hook or test as soon as one has ended, every
  step of a test awaits a promise, and the chain answers each call, if only
  with an error. Deadlock is not checked, as the run is to end.

### Signatures (`permits`)

One owner, one other user, the pool; the test token and a debt token; two signatures
made at any time, with values 1 and 2, a deadline in the present of block 0; a fork
of the chain. Signatures are submitted by anybody, again, out of order, late, to the
wrong token and on the other branch, beside `Approve` and `Spend`.

* `AcceptedInOrder`: none twice, and none after a later one; only for its token and chain,
  until the deadline: the cached domain separator must not be used on a branch with another
  id.
* `SpentWithinGrants`: what is taken of an owner is at most what the owner has signed or approved.

Deadlock is not checked: at the end of time, with all signatures used, nothing need
happen.

### Packed words (`packed_words`)

A behaviour is of one of three scopes. *User*: the reserves 0, 1, 2, 64 and 127, all
1024 words over them, and the index 128, which is refused. *Reserve*: up to two of
the nineteen parameters at a time are not zero (`MaxSet`), each with zero, one, the largest value
of every width in use (8, 16, 36 and 40 bits, of which the wider are refused by the
narrower) and one beyond all of them. Two at a time are enough, as a setter that touches another
parameter shows it on a pair of them. *Call*: each of the eleven calls with amounts, modes, deadlines and addresses at
and beyond the ends of their fields, three assets for two ids, and any listing and
dropping before and after the call is encoded.

* `PackedTypeOK`: no bit is in use that stands for nothing, such as 252 to 255 of a reserve's word.
* `ImplementsFlags`: a setter changes one flag of one reserve in two sets, and nothing else.
* `QuestionsOfTheSets`: isolation, siloed borrowing and "is anything borrowed" are asked of the
  whole word, by a decrement, a complement and a loop of shifts; they are what the sets
  say. `Pool` relies on it, as its exclusivities are derived from these questions.
* `ImplementsRecord`: setting a parameter sets it in the record and touches no other.
* `ActsAsRequested`: a call that was encoded for listed assets, none of which was dropped since,
  is executed with the arguments its client asked for. (A call for an asset that is not
  listed is packed like one for the asset with id zero; a call whose asset was dropped may
  reach the asset that has the id now. Both are left to the client.)

`IL2Pool.sol` says of `supply`, `supplyWithPermit` and `borrow` too that `type(uint128).max` is
expanded to `type(uint256).max` (lines 15, 26, 51). `CalldataLogic` expands it only for
withdrawals, repayments and liquidations (`ExpandsMax`), and the property is stated for that.

### Markets and their parts (`markets`)

*Registry*: four providers, four ids and the id zero: the gap before, at and behind the entry
that fills it, ids given again. `ListConsistent`, `MapsInverse`, `ImplementsProviderIds`: the same set
is held four times; the abstract map says what a caller sees of it. The zero address is not among
the providers: the owner could register it, and its id would then count as free.

*Market*: up to four proxies, two revisions of each component, a pool built for another market
and tokens built for either of two pools; strangers call `initialize` on every proxy and on one
implementation.

* `InitializedByUpgradesOnly`: a proxy is initialised by the transaction that gives it its
  code and by no other. It rests on three things: creation and upgrade revert if the
  initializer does, the revision must grow, and the initializer compares its argument with
  immutables. It is about the storage of proxies: an implementation has one of its own, which
  a stranger can initialise, and does in the run; no proxy reads it.
* `OneMarket`: the configurator's pool, read once, stays the one the provider names, and the
  tokens in a pool's books run code built for it, although each is upgraded and replaced on
  its own, by former configurators too. Hard replacements by the owner are excepted for the
  first.
* `AdministrationTypeOK`: the types of both.

### Bounds, fairness, mutants

Bounds are constants of the modules (`Amounts`, `Recipients`, `Delegations`, `Prices`,
`IndexValues`, `MaxStableDebt`, `TreasuryAccruals`, `MaxTime`, `MaxStableBalance`,
`MaxLoans`, `MaxSignatures`, `InitialWallet`, `MaxSet`, `MaxReserves`, `Requests`, `MaxProxies`,
`Called`) or, in the MC modules, fields of a scope, an
instance or a story (operations, blocks, calls). They bound the guards of actions; no
state constraint is used. In `Reserve` the number of operations must be bounded, because
rounding gives indices and rates a new value with nearly every one. Users are declared
symmetric in `listing`, `reserve` and `stories`, where no operator or scope tells them apart
(a scope of one user exists for each); not in `positions`, where roles differ.

The contracts have no fairness and no liveness property: a contract acts only when
someone calls, and nothing in the code obliges anybody to repay or liquidate.

Each property comes with a mutant in the module, a plausible slip in one mapped
definition (a missing guard, a stale balance, copies instead of in-place
writes), which makes TLC report the property violated in the same run.

## 5. What is proved

`tlapm` proves what follows for all values of the constants that satisfy the
assumptions below: any number of users, assets, proxies, signatures or stories,
any amounts, and all even scales. `tlapm Pool_proofs.tla`, and the same for the other
seven proof modules, check all of it; `(I)` marks a theorem whose property is
inductive as it stands, given the types.

**Assumptions**, each named in the module that declares the constants and evaluated by TLC
in every run of the module. Scales are even and positive, and a ray is a
whole number of wads (`ScalesAreEven`, `WadRayRatioIsExact`, `YearHasSeconds`). Prices are positive
and risk parameters as the configurator accepts them: bonus above 100% wherever
a threshold is set, protocol fee at most 100% (`InitialValues`, `Bounds`). Parameters of rates, fees and caps
are numbers in their ranges (`StrategyParameters`, `ReserveParameters`, `StableBounds`). Users are finitely
many, as balances are summed (`UsersAreFinite`, `BorrowersAreFinite`), and so
are assets, as the worth of a position is (`AssetsAreFinite`). Reserve ids are
0 to n - 1 and the reserves listed at the beginning differ (`ReserveIds`, `InitialReserves`). The remaining ones say
of what kind the constants are (`ZeroIsNobody`, `PermitsAssumption`, `RunsAreLists`, `IdsAreNumbers`,
`MarketAssumption`, `IndicesAssumption`, `ValuesAssumption`); `RequestsAssumption` says that clients hand over
arguments of the types in the signatures of `L2Encoder`, and that there are at most 128 reserves.
Theorems about the maps of the registry have the hypothesis that the zero address
is not among the providers.

**Rounding and sums** (`Arithmetic_proofs`). `RayDivOfRayMul`: `rayDiv(rayMul(x, i), i) = x` for an index of
at least one ray, and `RayDiv` is monotone; so an amount up to the displayed balance
converts to at most the scaled balance, and the whole of it to the whole. Sums are folds
over finite sets; what holds of them (`SumUpdated`, `SumIsMonotonic`) is shown by taking a least
set for which it would fail (`LeastSubset`).

**Positions** (`Pool_proofs`; listing constant)

* `TypeCorrect` (`TypeOK`, I), from what a rounded burn takes. Liquidations need
  `AvailableCollateralBounds`: collateral plus fee is at most the balance, fee at
  most the bonus, and the debt at most what was offered.
* `NoHiddenDebt` (`DebtImpliesBorrowingFlag`, I): when the bit is cleared the payment
  equals both displayed debts together; since it is at most the debt of the mode
  burnt, the other is zero, so its scaled value is zero, and the burnt one
  is zero by `RayDivOfRayMul`.
* `SiloedExclusive`, `IsolatedExclusive`, `EModeConsistent`. The lemmas
  `BorrowingSteps`, `CollateralSteps` and `EModeSteps` say once how any step of
  `Next` can change the bits: by removing some, or by adding one whose validation held.
* `DebtCeiling`: `CounterSteps` says that a step raises a counter only through a
  validated borrow.
* `LiquidationBounded` (`LiquidationWithinBonus`): true in every
  state of the right type, from `AvailableCollateralBounds`, by integer division alone.
* `Backed` (`ATokensBacked`). Inductive as `Covered`, whose condition is that both indices of an asset
  are one ray; indices never fall, so a step that starts with another index cannot reach the
  condition, and where it holds no conversion rounds. Each action moves the
  same amount on both sides; a liquidation is followed through its four transfers, of which
  two may be from a user to the same user.
* `HealthKept`: what users do to each other's positions, and to their own with `withdraw`,
  `transfer`, `setUserEMode`, `setUserUseReserveAsCollateral`, `repay` and `liquidationCall`, makes nobody
  liquidatable who was healthy, with every rounding of prices, shares and
  averages. The steps fall into those that take nothing (`NothingTakenKeeps`: the collateral counted is
  the same to the unit, as it may not grow, and the debt no larger, so the health factor is no lower: `HealthOfWorth`),
  and those that check; these evaluate the position that the step leaves, although they do it in the middle
  of it (`CheckedKeeps`, `WithdrawIsChecked`, `TransferIsChecked`, `SetUserEModeIsChecked`). Its exceptions (`MayTurn`) are those of `HealthyUnlessMarketMoves`, and three operations on the
  own position which convert a debt and round it anew: `borrow`, `swapBorrowRateMode` and `repayWithATokens`.

**Reserves that come, go and change** (`PoolConfigurator_proofs`). One inductive invariant (`IInv`) for five
theorems, since the properties lean on each other: `ListingKept`
(`TypeOK`, `ListingConsistent`), `NothingLeftBehind` (`ClaimsInReserves`), `CountsStartFromZero`
(`CountedUnderACeiling`), `DebtsKeptInOrder` (`DebtImpliesBorrowingFlag`, `SiloedBorrowingKept`), `BackedThroughout`
(`ATokensBacked`). It adds `UnlistedIsEmpty`: the configuration behind a free id reads as
zeros, so that no step of a user passes its validation there. The setters are all of one shape, a
reconfiguration that keeps the meaning of what users have (`ReconfigurationKeeps`); listing and dropping
have their own lemmas; `NoSuppliersNoClaims` and
`NoBorrowersNoDebts` say what the checks of the configurator establish: the latter that nothing is owed at the
variable rate, and of stable debt no more than that the stored total is zero. `SiloedBorrowingKept` is an action
property, shown for one user and one asset at a time (`AdminKeepsSiloed`, `NextKeepsSiloed`), since the debts of
others may be among the exceptions. Steps of users are those of `Pool`, whose lemmas are cited.

**One reserve with interest** (`Reserve_proofs`)

* `CompoundAtLeastLinear`: the binomial approximation never charges less than linear
  interest, so no balance falls below its principal.
* `StableTypeCorrect` (`StableTypeOK`): inductive together with "no timestamp of the
  token is ahead of the block" (`ClocksBehind`), without which interest would be
  counted over a negative interval. A burn stays natural in three cases: covered,
  clamped by the total, clamped by the average rate.
* `RebalanceNeutral` (`RebalanceKeepsDebts`): after the full burn the balance is zero,
  so the mint writes the debt as principal of this moment, which bears no interest
  yet. It holds in spite of what the clamps do to the total.
* `ReserveTyped` (`ReserveTypeOK`), `AccrualInOrder` (`AccrualNeverUnderflows`), `ExitsAreFull` (`FullExit`) and
  `IncomeGrows` (`IncomeNeverFalls`), from `ReserveIInv`: besides the types, the clock of the
  token is not ahead of that of the reserve, which is not ahead of the block; indices are at least one
  ray; and no holder has seen an index that is ahead of the one of its token
  (`NotAhead`). That last conjunct is what `mint` and `burn` rely on when they subtract two balances,
  and for the aToken it is about the *normalized* income, as `mintToTreasury` mints at that
  without storing it. Each operation brings indices up to the present
  (`UpdatedState`), changes tokens (`TokenWritten`) and takes new rates (`RatesTaken`); `OperationKeeps`
  is what they leave behind together.
* `RatesStayCurrent` (`RatesAreCurrent`): rates are taken before the transfers, of totals that the tokens
  return, and the code passes them on in four different ways. They are nevertheless those of the state after
  every operation, and after a flash loan with everything its receiver did, *unless* a burn
  of stable debt drops what is left of the total (`RemainderDropped`, the second finding of section 6). Then
  the rates are of the total that burn returned. That is a hypothesis about the behaviour, and the theorem says that
  this branch is the only place where the two part. The invariant (`RatesInv`) lets the rates be
  anything only before the first supplier (`Fresh`), which `mintToTreasury` and a
  transfer that rounds to nothing must not end. Taking the rates twice gives the same (`RatesTakenTwice`).
* `EventsMatch` (`EventsAsExpected`): each helper of `tokenization-events.ts` computes the events from two
  readings; it is shown for each operation that the tokens emit them, with their amounts, increases and indices. They
  work from other readings than the contracts: the interest of a holder from the balance *after* the transaction
  (`InterestOfMint`, `InterestOfBurn`), a stable debt from principal, rate and time with a compound interest of their own
  (`CompoundedAsCalculated`, `DebtAsCalculated`). It needs, besides
  `ReserveIInv`, that a stable debt has a timestamp (`Stamped`), since the calculations leave a debt with the
  timestamp zero without interest.
* `BalancesAreTold` (`BalancesFromEvents`): the sums of the events follow the balances. What an amount adds to a
  balance, in scaled units that were rounded, differs from it by at most half a unit at the index and the roundings of
  two balances (`SharesRound`, `RoundingBounds`); that is the whole of what an event may be off, because
  the interest that a Mint or Burn contains is the difference of the balances of before and after without the amount
  (`NearRaised`, `NearLowered`, `NearKept`). A mint or burn is a pair of events of which the first counts for nobody
  (`PairTells`), an operation a list of such pairs and payments (`AddedUp`, `PartsTell`), and each
  operation is compared with what it moves (`Follow`), among them a transfer to oneself, a burn of less than the interest,
  which mints, and a rebalancing, which burns and mints all of a debt. The inductive part is small: what is
  added up are integers (`Ledger`); nobody is paid at the zero address (`ZeroIsNobody`).

**Signatures** (`Permits_proofs`). `InOrder` (`AcceptedInOrder`) is inductive with `Used`: an accepted signature has a
nonce below its owner's. `WithinGrants` (`SpentWithinGrants`) is inductive as `Allowed`: spent plus what may still be spent
is at most what was granted. Both hold although `permit` *sets* an allowance, and a
signature may be used by somebody else before the call it was made for.

**The scenario engine** (`ScenarioEngine_proofs`). `StoriesAsTold` (`PassedAsTold`) and `EngineImplements` (`KeepsPromise`), from
`Position` (where the run is, and which phases can have failures), `SnapshotsKept` (while nothing has failed, the
suite's snapshot lies below the test's, each with what it was taken of) and `Telling` (what was mined
since the story started is what its actions up to here tell). A revert deletes
the snapshots above the one it returns to, so the order of the two ids matters.

**Registry and market** (`Administration_proofs`)

* `ListCorrect` (`ListConsistent`, I): `RemoveKeepsList` splits on
  whether a provider or an entry is the one that moved. `MapsCorrect` (`MapsInverse`) and
  `RegistryImplements` (`ImplementsProviderIds`) rest on it.
* `Together` (`OneMarket`) and `OnlyUpgradesInitialize` (`InitializedByUpgradesOnly`), from `MarketIInv`: what the provider
  names was created with code of the right kind; the revision stored in a proxy is that of its code;
  a configurator knows its pool; tokens run code built for the pool whose books they are in.
* `AdministrationTyped` (`AdministrationTypeOK`): the types of both, side by side.

**Packed words** (`PackedWords_proofs`)

* `WordIsTwoSets` (`ImplementsFlags`): a setter writes one bit (`BitWritten`), and 2i and 2i + 1 differ for all i.
* `WordAnswersRight` (`QuestionsOfTheSets`), in every word of the right type: the word before another has all its bits
  but the lowest (`BitsBefore`), so having none in common is having a single one; and the loop
  of shifts counts up to its reserve (`ShiftsCountTheId`).
* `WordIsRecord` (`ImplementsRecord`), `SpareBitsUnused`: masks, first bits and largest values describe the same
  nineteen fields (`HolesAreFields`, `LargestValues`), no two of which overlap (`Layout`); so a value that passes
  the require fits into its field (`ValidFits`).
* `CallsActAsRequested` (`ActsAsRequested`), for all arguments of the types in the signatures. Fields of
  one word lie apart (`Layouts`, over the eleven calls), so
  their sum is their union (`SumOfFields`, by taking a least set for which it would not be), and
  shifting and cutting gives each field back (`FieldRead`). On the way the invariant is `InFlight`: the message still
  tells the ids at which its assets were listed, and unless one was dropped they are still there
  (`IdsKept`, `InFlightKept`), because listing takes a free id. A word of zeros is the id 0, not
  the absence of one (`WordTellsId`).
* `WordsTyped` (`PackedTypeOK`): of the three modules side by side.

**Only model-checked**

* `HealthyUnlessMarketMoves` for `borrow`, `swapBorrowRateMode` and `repayWithATokens`: a debt that is minted
  or burnt is rounded once more after the check, or weighed against collateral that goes with it; for the
  instances no such unit decides, for all scales and prices it may.
* `RatesAreCurrent` where a burn drops the rest of the total, which the rates of the run do not reach.
* `Solvent`: up to a rounding error that grows with the number of operations, which the runs bound
  (`MaxRounding`); no constant is enough for all behaviours. A bound for each step, as for the events, would
  have to follow the rounding of the rates as well, which is multiplied by the totals and by the time.
* `ReserveDataAsExpected`, `UserDataAsExpected`: equal up to tolerances that hold for the
  amounts of the instances; and in `Actions` a transaction that reverts is one that is not `ENABLED`.
* `RunEnds`: liveness, which TLAPS cannot prove; and the three expected violations.

## 6. What the code does and its texts deny

`IsolationModeLogic.sol:23` describes `updateIsolatedDebtIfIsolated` as having
"updated the isolated debt whenever a position collateralized by an isolated asset
is repaid or liquidated". `executeLiquidationCall` clears the collateral bit first
when all the collateral is taken; the update then finds no isolated position and
changes nothing. Run `isolated_debt` shows it in seven states. The consequence is a
counter that stays too high (less can be borrowed against the asset), never
too low: `DebtCeilingRespected` holds nevertheless.

`StableDebtToken.burn` sets `_totalSupply` to zero when the repayment takes the whole
average rate with it (lines 201-205). `IStableDebtToken.sol:81` says that burn returns "the
total stable debt"; it returns the total of before that write, and the callers compute
the next interest rates with it (run `burn_returns`). The comment on these lines has
the last user repaying in mind; debts with a higher rate outgrow the weights of the average, so
any borrower with such a rate can take the branch while others owe. The total of zero is then what
`dropReserve` and `setSiloedBorrowing` read: both may pass with a stable debt outstanding, which is lost with
the token in the first case and is owed beside other assets in the second (scope *drift* of run `listing`).

`calculations.ts` expects, after a deposit of a user who owes variable debt, that debt as
the principal of the stable debt (lines 74-79; run `deposit_with_debt`); the comparison of
`actions.ts:205` then fails although the contracts are right. The preconditions of the
run `stories` exclude this case and those of the same kind: stable principal and balance
swapped when variable debt is repaid (763-764), the scaled debt of the reserve in the place
of the user's (675), an average rate from an amount in ray and a total in wad
(1137-1150). No story of the repository has two debts in one reserve, so the suites
do not meet them.

## 7. Not modelled

* **Roles** (`ACLManager`): administration by trusted accounts, behind no state of the pool.
* **In `PoolAddressesProvider`**: the market id and the addresses of oracle, sentinel, roles and data
  provider, which are written and read by their names. `setAddressAsProxy` is the update
  of `UpdateImpl` for other ids. Nested initializers and constructors that initialise,
  which only mocks have.
* **Oracle sources and the grace period**: prices are positive and change at any time; the
  sentinel is a boolean that changes at any time, which covers every grace period.
* **In `PoolConfigurator`**: reserve factor, unbacked mint cap, flash loan flag and
  premiums, bridge fee (constants of `Reserve`), new rate strategies.
* **Flash loans of several reserves** in one call: each reserve settles on its own as in
  `Reserve`; that the call reverts as a whole is the transaction's. Loans turned into
  debt are refused by this fork (`FLASHLOAN_INTO_BORROW_DEPRECATED`).
* **ERC20 details**: `increaseAllowance`, `decreaseAllowance`, the incentives callback,
  `rescueTokens`.
* **Data providers** (no state),
  `DelegationAwareAToken` (one external call), third-party dependencies, mocks and
  deployment scripts, type declarations and network settings.
* **Parameters of the swap and liquidity adapters** in `contracts-helpers.ts`: the adapters are
  not in this repository.

## 8. Plan

All components that carry the pool's logic are modelled, and what is proved of them
is in section 5. What is left:

1. `Solvent` with an error that follows the operations so far, their totals and the time in the place of a
   constant one; it may then be inductive.
2. How much of the health factor a single rounding can cost, which would extend `HealthKept` to the three
   operations that it excepts.
