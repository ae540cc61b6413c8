# Portfolio Pilot: TLA+ models and proofs

Portfolio Pilot invests a user's EGLD on MultiversX by a list of weighted
entries. Two Rust contracts do the work: the **deployer** keeps the lists an
admin publishes and sells each user a smart account; the **smart account** wraps
a deposit and walks the list at pairs, farms and staking contracts. A NestJS
service beside them (API, cache warmer, transactions processor, queue worker)
serves what users look at.

This directory holds the TLA+ modules of that system, the TLC runs that check
them on small instances, and TLAPS proofs of what holds for every instance.
In paths below, `deployer` is `smart-account-deployer/src`, `account` is
`smart-account/src`, `service` is `mx-portfolio-pilot-service`.

    tlc -config MCStrategies.cfg MCStrategies.tla
    tlapm SmartAccountProofs.tla

## 1. Inventory

| part | state | operations | modelled by |
|---|---|---|---|
| strategy book (`deployer/strategies.rs`, `config.rs`) | `strategies[epoch][risk]`, `lastStrategyEpoch`, `adminAddress` | `setStrategiesPerEpoch`, `setAdminAddress` | `Allocation`, `Strategies` |
| smart account (`account/*.rs`) | risk, strategy, portfolio, its tokens | `setupSmartAccount` and every external call it makes | `Allocation`, `SmartAccount` |
| deployer (`deployer/lib.rs`, `config.rs`) | `userSmartAccount`, template, staking addresses, fee | `deploySmartAccount`, `upgradeSmartAccount`, `initializeSmartAccount`, `updateSmartAccountTemplate`, `setFarmStakingAddressForToken` | `SmartAccountDeployer`, refining `PortfolioService` |
| cache of the examples and cache warmer | process memories, Redis, subscriptions and events under way | `getAllExamples`, cron refresh, `deleteCacheKeys`, start of the listener | `CacheWarming`, refining `ServedLists` |
| reading of the examples | none of its own | `getExamples` (search, paging), `getExample` | `Examples`, over `ServedLists` |
| transactions processor | `lastProcessedNonce` per shard in Redis, the lock | cron walk and its three callbacks | `TransactionsProcessor` |
| `userPositions` query and its guards | a field in each native guard, identity on the request | `canActivate`, `userPositions` | `PositionsQuery`, `PositionsApi` |
| positions in the GraphQL schema | none of their own | sample positions, `resolveType`, nullable fields, `formatError` | `PositionsAnswer`, `PositionsApi` |
| queue worker | Bull queue in Redis | cron producer, consumer | `QueueWorker` |
| users and tokens | MongoDB documents | create, find all, find one, remove | `Documents` |
| contract queries, DEX client | the directory of ABIs | queries of bridge contracts and pairs, each with its failures | `UpstreamQueries` |
| factory query, strategy maintainer, metrics, health, configuration | none of their own | one request each | no |

How they interact. A user calls the deployer, which reads its own book and calls
the account *synchronously* inside the user's transaction; the account calls
pairs, farms and staking contracts and reads the deployer's storage for the
staking address of a token. Any failure reverts the whole transaction. The
service's processes share Redis: as a cache, as the carrier of the events that
empty the memories of other processes, and as the memory of the processor. The
contracts and the service do not share state.

Where it is hard:

* **partial failure**: the account stores level and plan before its first
  external call, and any of up to fifteen calls may fail;
* **arithmetic**: each share is rounded down on its own, a paired share is halved
  and the half used twice, and the balance check that would notice an error is
  commented out; the percentages are added up in a `u64` that wraps around;
* **order and history**: entries of one plan and deposits after one another share
  tokens, pairs and farms; token order differs from pair to pair; a list is read
  by `lastStrategyEpoch`, which moves for all levels at once;
* **a changing environment**: admin and staking addresses change between a user's
  transactions, and so does the template, which anybody may set to any contract;
* **interleaving and loss** in the service: a write and a deletion started
  together, requests that read before a refresh and store after it, lost events
  and late subscriptions, restarts between a callback and its bookkeeping or between
  a job and its end, pages of one walk from different lists, a guard field that
  lives over an `await`;
* **what libraries make of the code**: fields without a value in a GraphQL answer,
  filters by paths a schema does not have, replies with data and errors in one.

`hazards` in `PROJECT.json` lists them one by one with line and property.

## 2. Modules

| module | about |
|---|---|
| `Allocation` | the entry type, limits, and the arithmetic both contracts use; no variables |
| `Strategies` | the book over block epochs |
| `SmartAccount` | one `setupSmartAccount` transaction at a time over ledgers of EGLD and tokens |
| `PortfolioService` | abstract: what a user is promised, without calls, journals and epochs |
| `SmartAccountDeployer` | `Strategies` and `SmartAccount` composed with the registry; `Service` maps it to `PortfolioService` |
| `ServedLists` | abstract: what the caches of the examples promise their readers |
| `CacheWarming` | caches, warmer, events and deployments; its `Served` maps it to `ServedLists` |
| `Examples` | searching, paging and lookup over lists that come and go as `ServedLists` lets them |
| `TransactionsProcessor` | walk over the shards with its callbacks |
| `PositionsQuery`, `PositionsAnswer`, `PositionsApi` | the GraphQL query: guards and resolver; the answer; both composed |
| `QueueWorker` | producer and consumer over Bull |
| `Documents` | the REST endpoints of users and tokens over MongoDB |
| `UpstreamQueries` | what the service asks of contracts and of the DEX |
| `MC*` | instances for TLC; `MCEndpoints` holds those of `Documents`, `Examples` and `UpstreamQueries` |
| `FoldProofs` | lemmas: induction over finite sets and numbers, sums, folds of sequences |
| `SmartAccountProofs`, `SmartAccountDeployerProofs`, `PositionsApiProofs`, `QueueWorkerProofs`, `TransactionsProcessorProofs`, `CacheWarmingProofs`, `EndpointsProofs` | theorems; `EndpointsProofs` those about `Documents`, `Examples` and `UpstreamQueries` |

Operators that say "Mutant" are variants of a definition with a plausible
mistake in it. No specification uses them; each is there to show that a property
notices the mistake.

### Allocation

A list has at most five entries wherever it is added up, so sums and
concatenations are written slot by slot (`PercentageBefore`, `Kept`): no
recursion, which keeps them open to proof. `WrappedTotal` is the contract's
`total_percentage`, taken modulo `U64` because the contract is built with
`overflow-checks = false`; amounts are `BigUint` and unbounded. `Kept` is the
list that is stored: void entries are skipped by the loop but counted by the
limit on the list's length. `TransferAmount` is what one transfer carries and
`EntryAmount` what all transfers of an entry do.

### Strategies

One action per endpoint, the `require!`s as guards: a failed one leaves no
step. The chain's epoch is external and only grows. `Offer(risk)` is what
`initializeSmartAccount` reads.

Correct means: every stored list is a complete allocation (`ListsAreComplete`);
the pointer is the newest epoch with a list (`PointerIsNewest`); a published
list is final (`ListsAreFinal`); a level goes off offer only because a newer list
of another level came (`OffersLapseOnlyByNewerList`).

### SmartAccount

`call` is the transaction in flight: arguments, place in the loop (`pc`, `step`),
what the last external call returned, and a *journal*, its own copy of ledgers
and portfolio. `Return` commits the journal, `Fail` drops it, as the VM does.
Each external call is an action:

| action | code |
|---|---|
| `SetupSmartAccount` | the call by the deployer, payment credited |
| `CallWrapEgld` | `call_wrap_egld` and the checks that follow |
| `CallPairSwap` | share, halving, `call_pair_swap` |
| `CallFarmStakingStake` | address lookup, `call_farm_staking_stake` |
| `CallPairAddLiquidity` | token order, `call_pair_add_liquidity` |
| `CallEnterFarm` | `call_enter_farm` |
| `Return`, `Fail` | end of the endpoint, revert |
| `ChangeStaking` | the owner's `setFarmStakingAddressForToken` at the deployer, between two calls |

`user_risk_tolerance().set` and `user_strategy().set` come before the loop in the
code; nothing reads them until the transaction is over, so the model writes them
with the journal in `Return`. Pairs, farms, staking contracts and the wrapper
are external: they take what they are given, refuse what is void, not covered
or in the wrong order, and hand back any amount in `Yields` and `Rewards`. A pair
that adds liquidity uses one payment whole and any part of the other.
`sent` is history: the WEGLD transferred so far in this call.

Correct means: each transfer is paid for by the deposit of the same call, never by
WEGLD left from before (`DepositCoversTransfers`); what is not invested is
bounded by one unit for every entry and one more for each paired one, minus one
(`DustIsBounded`); every liquidity is in the pair's order, not void, and in hand
(`LiquidityIsAccepted`); an entry never consumes a position opened before it
(`EarlierPositionsSurvive`); a plan the market can execute is executed to the
end, or failed by somebody else (`ExecutablePlansComplete`). The staking contract
of a token may be another one for the next deposit; positions with the old one stay.

### SmartAccountDeployer and PortfolioService

All endpoints are one step but `initializeSmartAccount`, which opens a call and
lasts until the call ends; meanwhile nothing else moves, as a shard executes one
transaction at a time.

`code` is the template an account was last copied from, and an account does what the
code it has does. Anybody may make any contract the template
(`updateSmartAccountTemplate` has no check but that it is one). `SmartAccountCode` is the
contracts whose code is that of `account/lib.rs`; what any other does is external: it
refuses, and the transaction reverts, or it accepts, keeps a deposit in the account
(`CallOtherCode`) and leaves the smart account's storage alone. `init` of a smart account
stores its deployer (`Initialized`), and only `init` does: an account that was opened with
other code has no such address after an upgrade either, does not find the wrapper, and
every deposit fails (`CallSetup`).

Correct means: the registry is one to one and loses no account
(`EveryAccountHasItsUser`); no transaction leaves EGLD in the deployer or in an account
that runs smart-account code (`NoEgldStaysBehind`); the admins have received one fee for each
account (`OneFeePerAccount`); the level and the plan an account stores belong
together (`StoredPlanWasPublished`); the plan in flight is a complete allocation,
which the account relies on and does not check (`PlanInFlightIsOnOffer`).

`PortfolioService` says the same to a user: `Publish`, `Open`, `Invest`. What code an
account runs shows in it as little as may be: `genuine` (the template is a smart account),
`foreign` (users whose account is none), `strangers` (users whose account was none when it
was opened). `Invest` is for users who are neither; a `foreign` user's deposit may stay in
his account (`HandOver`). Both sets grow only by a step of the user himself, `Open` or
`Upgrade`, while the template is another contract, and `strangers` never get out: their
account never invests (section 6).

The mapping takes the offers from the last epoch with a list, a
user's portfolio from the storage of his account, and his funds and what is
invested from the committed ledger. So a call in flight is invisible until it
returns, a failed one is invisible altogether, and `ImplementsService` is the
claim that nothing else ever shows. The abstract service knows changes of admin and
staking address and the passing of epochs only as stuttering.

### CacheWarming and ServedLists

The list of examples is a literal in the code, so the list a process would
produce is the build it runs. `getOrSet` is split where it waits (memory, Redis,
write, store). A cron tick starts the write and the deletion together. Processes
are redeployed at any point on the same or a newer build; events and writes get
lost; an API process answers requests before its subscription (`Subscribe`), which
`main.ts` does not wait for. Redis, its pub/sub and the `CacheService` of the SDK
are external.

`ServedLists` has one variable, the builds whose list is about in some cache, some
request or the code of some process. A list comes up with a deployment to a process
that ran an older one or the same; one that is gone for good does not come back. The
abstract module is what `Examples` is written against, so that a walk through
pages need not know of caches.

### Examples

`GetExamples` is the search and then `slice`, with JavaScript's rule for negative
positions; `GetExample` the lookup by id. `Filter` is JavaScript's, written as a fold,
which proofs can open. A client walks page by page, each page cut
from any list that is about at that moment. `ExampleModule`, with these endpoints,
is in the source but the API's `EndpointsModule` does not import it at this commit.

Correct means: pages of one list fit each other, for every size and search
(`UndisturbedWalksAreComplete`); through a deployment, each place holds what one of
the lists has there (`PlacesAreKept`); no page is longer than asked for, wherever it
is cut (`PagesHaveAtMostSize`).

### TransactionsProcessor

The walk belongs to the SDK and is external: rounds over the shards, one block of
each shard a round, `getLastProcessedNonce`, `onTransactionsReceived`,
`setLastProcessedNonce` in this order, and giving up what is more than
`maxLookBehind` behind. A walk may be aborted between any two callbacks and a key
lost at any time. `handed` and `skipped` are history.

### PositionsQuery, PositionsAnswer, PositionsApi

A request passes `JwtOrNativeAuthGuard`, which makes a native and a JWT guard for
each request; the native one writes the address to act for into a field, awaits
the validation of the token and reads the field afterwards. The JWT guard
accepts nothing, since its body is commented out. The validation itself (signature,
origin, expiry) is the SDK's and external; response headers are left out.

`PositionsAnswer` is what comes of a selection of fields: the four sample positions,
each a class and for each field the fields its token has values for; the union's
`resolveType`; and the rule of graphql-js, which is external, that a missing value
takes with it what encloses it up to the first nullable field. A token's only
interesting trait is which of its fields are set: a selected one is given or null. `FormatError` is `formatError`:
path and code are kept, the rest is dropped. `PositionsApi` composes the two: a
guard's last step refuses the whole query, the resolver's step executes it.

### QueueWorker

Jobs sit in slots, one for each tick whose jobs are still in the queue. `StartJob` and
`Add` are the cron and its loop, one `add` a step; `DelayOver`, `Fetch`, `Complete` and
`MoveStalled` are Bull, which is external: delay, concurrency, the lock of an active
job, the check for stalled ones. `OnNftCreated` is the handler. Processes stop at
any point and Redis refuses single commands, up to `MaxFaults`. The handler only logs and
never throws, so `timeout` has nothing to act on; but an attempt also fails when Redis
refuses to record the end of a handled job. Bull then tries the job again without a stall,
as often as `attempts` allows, and if the record of the failure is refused as well the
lock runs out (`RefuseComplete`, `TryAgain`). `Scheduled` is the import of the
`ScheduleModule`, without which no cron fires. The app at this commit lacks it: run
`unscheduled` has the app's own imports, and what run `queue` shows is of the app with
that module added.

Correct means: a job runs once for each time it is taken out, and is taken out again or
given up only after stalls and failed attempts, each of which took a stop or a refused
command (`QueueInv`); what is queued is handled in the end or given up
(`QueuedJobsAreHandled`).

### Documents

A document is a function from paths to values. The schema says what is saved
(`Saved`: other paths are left out; `Required`), the filter says what is matched
(`Cast`: passed on whole). Each request is one operation at the database, which may
fail before or after it takes effect. None of the modules is imported by the API at
this commit.

Correct means: a list has every user whose POST was answered before it was asked for and
whom no DELETE names (`AnsweredCreatesAreListed`; `removed` is the history of DELETEs);
and "not found" is said of nobody who is there (`NotFoundMeansAbsent`), which the code
violates (section 6).

### UpstreamQueries

A contract query reads the ABI from a file, runs the query and uses the first
value (`GetSmartContract`, `GetGenericData`, `Use`); each stage may fail, and the file
may be missing. `ToHex` and `PadHex` turn bytes into the text of an address. A request
to the DEX may come back with pairs, errors or both.

Correct means: an address reads back as its bytes (`AddressesReadBack`); a failure is
never given as an answer of a contract, a token is said to stand for no universal one
only if it stands for none, and pairs beside errors are not passed on
(`OnlyWholeAnswersAreData`). A DEX reply without errors and without edges is passed on as
an empty answer, as `dex.service.ts:67` has it; the property does not speak of it.

## 3. Runs

| run | configuration | what it shows |
|---|---|---|
| `strategies` | `MCStrategies.cfg` | the properties of the book |
| `smart_account` | `MCSmartAccount.cfg` | the account's, and the inductive invariant of the proof, with a staking contract that changes between deposits |
| `deployer` | `MCSmartAccountDeployer.cfg` | the composition's, and the refinement of `PortfolioService` |
| `cache_warming` | `MCCacheWarming.cfg` | the caches agree after a rolling deployment, and refine `ServedLists` |
| `transactions` | `MCTransactionsProcessor.cfg` | nothing lost, order kept, repeats paid for by faults, catching up |
| `positions` | `MCPositionsApi.cfg` | identities are never mixed up, every request ends, types are the classes', nulls without an error are missing nullable fields of tokens |
| `queue` | `MCQueueWorker.cfg` | with the `ScheduleModule`: jobs are repeated or given up only for a fault, and what is queued is handled or given up |
| `endpoints` | `MCEndpoints.cfg` | answered creates are listed, pages of a walk fit each other, addresses read back, no failure is taken for data |
| `portfolio`, `wrapping` | `MCPortfolio.cfg`, `MCWrapping.cfg` | counterexamples to two sentences of the repository's README, see section 6 |
| `unscheduled`, `users` | `MCUnscheduled.cfg`, `MCUsers.cfg` | counterexamples to a sentence of the service's README and to a message of the API, see section 6 |

`endpoints` has three parts in one run. They share no state, so nothing one of them does
is seen by another, and the run has each move alone while the others stand where they
begin; the theorems about them are of each part's own specification.

Deadlock is checked in every run but `unscheduled`, where the system stops: that is the
finding. Each reachable state of each instance has a
successor even at the bounds: the owner may set the admin again, a deposit of
nothing may be tried, a cron tick or a request may come.

Bounds, and why they are enough:

* `U64 = 32768` stands for 2^64: larger than any honest total of five entries
  tried, so that it wraps only where a list really overflows; the overflowing list
  of `MCWrappingSubmissions` adds up to `U64 + 10000`, as 2^64 + 10000 would.
* Submissions: none, one, a list with void entries, five, six of which one is void,
  and one that is short: each guard of the endpoint is met from both sides.
  `RiskInputs` = {0, 5, 6} are both ends and one beyond.
* `MaxEpoch` = 2 (book) gives three epochs: a list replaced twice, and an epoch
  without a list between two with one. The composition runs with two.
* Account: deposits 0, 5 and 7 with the plans of `MCPlans` make odd shares,
  shares of one unit and shares that round to nothing, at both token orders, with
  entries that share pair, token and farm; plus a token without a staking contract
  and one the pair does not trade. Two deposits fit the funds, so the second starts
  from dust and positions of the first. `Yields` = {1, 2} lets a swap return
  less or more than its input and a pair use part of either side. Two staking
  contracts for one token, so that a second deposit may go elsewhere than the first.
* Composition: two users, two accounts, two admins (symmetric in each), fee 1,
  deposits 1 and 2 out of funds of 3: after the fee a user has two deposits of 1 or one
  of 2. The template is the smart account, another contract (the staking contract), or the
  attempt with an address that is none, and changes at any point between opening,
  upgrading and depositing, so that accounts are opened, upgraded and paid under either
  code. One pair and one staking contract; the list on offer is a pair's position alone,
  or a staking entry, a void one and a swap, and one list is short. The markets are those
  of the account's own run.
* Caches: two API processes (one to fill Redis while another reads) and two
  builds; five disturbances are three redeployments, a loss and one more.
* Examples: three builds, one with an id twice, one with an example put in front, one
  shorter; `from` and `size` on both sides of zero and past the end.
* Processor: two shards of four blocks with `maxLookBehind` 2, so that the walk
  can be too late; two faults let a lost key follow an aborted walk.
* Query: two requests with a token of an admin or of a user, naming each address or
  none; selections of fields that are nullable or not, with token fields that have a
  value in all tokens, in some, in none.
* Queue: two processes with one job at a time, two ticks of two identifiers, and two
  faults, which is one more than Bull's `maxStalledCount` of 1 forgives. `attempts` is 3 in
  the code and 2 here, so that two faults can also use them up; the theorem is for any
  number. Jobs of overlapping ticks compete and may be given up either way.
  `unscheduled` has the code's own numbers: five identifiers, concurrency 4, attempts 3.
* Documents: two requests over two ids (symmetric in both), users with names and without,
  tokens with and without identifier and with a path the schema does not have.
* Upstream: two callers (symmetric), tokens of both chains with bytes below and above 16,
  one of them of no universal token, each combination of ABI files, replies of the DEX with
  pairs, errors and both.

Fairness, where a run has a liveness property:

* `WF(Proceed)` in the account and the deployer: the VM executes the transaction it
  is in; only `Fail` may come in between. Nobody is obliged to begin one.
* `WF` of the cron tick, of the write, of the event's way through Redis, of its
  delivery and of `Subscribe` in `CacheWarming`: a cron fires again and again and Redis
  answers. None on requests or expiry. Lost events and writes are possible up to `MaxFaults`.
* `WF(Walk)` in the processor: the cron fires and an SDK call returns or throws.
  Faults are bounded, and `LoseKey` and `AbortRun` have no fairness.
* `WF(Serve(r))` in `PositionsApi`: Node runs every callback in the end, and the
  validation of a token settles.
* `QueueWorker`: `WF` of the start of a process (it is restarted), of its cron, of each
  turn of the loop, and of what Bull does with a job; `SF` of fetching a job, because
  Bull takes jobs of one priority first in, first out, so that one is not overtaken for
  ever while workers come and go. Faults are bounded and have no fairness.

## 4. Proofs

Assumptions on constants are named in the modules and evaluated by TLC in the
runs: `U64Assumption`, `StrategiesAssumption`, `LedgerAssumption` (who is who),
`MarketAssumption` (a pair has two different tokens, receipts are never WEGLD),
`DeployerAssumption` (users are neither admins nor contracts, some template is a
contract, not all need be smart accounts) and `PlansAssumption` (the account is passed complete allocations). The
composition does not use the last: there `PlansOnOffer` proves it of the plan in
flight. For the service: `QueueAssumption`, `ProcessorAssumption` and
`WarmingAssumption` (bounds are positive numbers, the value for "nothing" is
none of the others), `QueryAssumption`, `NullAssumption` (null is no value of a field, selections are of a token's fields),
`ExamplesAssumption` (lists are sequences) and `UpstreamAssumption` (addresses are
sequences of bytes, undefined is no answer of a contract). Sets that are summed over
(`Users`, `Admins`, `Shards`) are finite.

* **FoldProofs**: the lemmas on sums and folds that the other modules need; the
  argument is below.
* **SmartAccountProofs**: `KeptKeepsTotal` (what is stored of a list has the same
  total, no void entry and is no longer), with the lemmas on shares and sums;
  `InvariantHolds` for `SmartAccountInv`, and from it
  `DepositsCover`, `DustStaysBounded`, `LiquidityAccepted`, and with a second
  invariant on top `PositionsSurvive`, for every deposit, plan, market and number of
  accounts.
* **SmartAccountDeployerProofs**: of the book, type correctness,
  `ListsStayAsPublished`, `PointerCorrect`,
  `OffersLapse`, and `ListsComplete` under `NoOverflow`: no list that may be
  submitted adds up beyond `U64`. The hypothesis is needed, as the `wrapping` run
  shows. Of the composition, `DeployerInvariant`, and from it type correctness,
  `RegistryOneToOne`, `EgldGoesAllTheWay`, `OneFeeEach`, `StoredPlansPublished`,
  `PlansOnOffer`, `DepositsCoverInFlight`, and `Refinement`: the contracts implement
  `PortfolioService`. All under `NoOverflow`, as they rest on complete lists.
* **PositionsApiProofs**: `IdentitiesKept` for any number of requests, and
  `ApiIdentitiesKept` with the answers composed. The invariant
  adds to the property that a guard's field holds its own request's header while
  the request waits (`FieldIsOwnHeader`) and that the identity is right from the
  validation on (`ResolvedAsOwed`). Of the answers, `TypesKept`, `TokensFailAlone` and
  `NullsExplained`, for every selection of fields.
* **QueueWorkerProofs**: `QueueInvariant`, for any number of workers, ticks,
  identifiers and attempts, and any imports (without the `ScheduleModule` the queue stays
  empty).
* **TransactionsProcessorProofs**: `ProcessorInvariant`, and from it `NoBlockIsLost`,
  `BlocksInOrder`, `SkipsHaveCause`, for any number of shards, blocks and failures; and
  `FaultsPayForRepeats`.
* **CacheWarmingProofs**: `RedisInSync`, and `CachesImplementServedLists`: the caches
  implement `ServedLists`, for any number of API processes and builds.
* **EndpointsProofs**: of users and tokens `AnsweredCreatesStay`; of
  contract queries `AddressesSpelt`, for addresses of any length, and
  `WholeAnswersOnly`; of the examples `WalksComplete`, `PlacesKept` and `PagesShort`, for
  all lists, searches and page sizes.

The argument for sums and folds. The library's induction theorems take an operator,
which the installed provers cannot instantiate. `FoldProofs` does induction with sets
instead: a finite set of finite sets has a minimal member (`MinimalSet`, from the
library's theorem that the strict subsets of a finite set are well founded), so a set of
counterexamples that is not empty has one whose smaller sets are none; `LeastNumber` is
the same for numbers. With this a fold is shown to exist and to be the only one
(`FoldExists`, `FoldsAgree`), so that the `CHOOSE` in the community modules' folds can be
replaced by the equations it satisfies: `SumChangesAt` and `SumAtMost` for
`SumFunctionOnSet`, `FoldLeftExists` and `FoldLeftGoesOn` for `FoldLeft`.

The argument for the account. None of the properties is inductive: that the
wallet covers the next transfer depends on all percentages still to come. The
invariant counts in units of 1/10000 of the deposit. `BudgetKept`: 10000 times what
is sent or due is at most the deposit times the percentages up to this entry.
`LossBounded`: it falls short of that by at most 9999 for each entry and another
10000 for each paired one. `DepositInWallet`: what was sent and what is in the
wallet add up to what was there before and the deposit, at least. With
`TotalPercentage = 10000` the first and the third give `DepositCoversTransfers`;
the second, at the end of the list, gives `DustIsBounded`, where the last unit
of rounding is saved because amounts are whole. `OutputInHand` records between
calls that what the swap returned is in hand, is not WEGLD and belongs to the pair,
which gives `LiquidityIsAccepted`; `ArgumentsChecked` is what lets the sums be
bounded at all. `PositionsSurvive` needs `EarlierPositionsSurvive` at every step of an
entry, not only between entries: `PositionsInWallet` has, token by token, what was there
before, one unit for each finished entry, and on top what the entry has in hand,
so that a call which spends what is in hand cannot touch the rest.

The argument for the composition. `DeployerInv` joins the invariants of the book and
of the account with the registry. What has to be added is where the money of a
call in flight is: the journal differs from the committed ledger by one deposit, taken
from the user the account belongs to and now with the account or the wrapper
(`DepositInFlight`). So committing a journal moves the deposit from that user to
the wrapper and dropping it moves nothing. `NoEgldStaysBehind` is an action property: an
account may hold EGLD that it was sent while it ran another contract's code, but no step
changes what the deployer or an account running smart-account code holds
(`NothingStays`, over `Passing`). The lemma that carries most of the proof is
`CallStepShape`: a step of a call goes on with the same arguments and
commits nothing (`GoesOn`), returns, or fails. A call in flight belongs to an account that
runs smart-account code and knows its deployer (`Works`), and no template changes under it.
The refinement needs three facts more: that an account nobody has bought is empty
(`UnusedAreEmpty`), or `Open` would show an old portfolio; that the pointer is the newest
epoch, so that a list written to another epoch is the first there and starts the next
edition of `Publish`; and what a step does to the code (`CodeSeen`): opening an account or
upgrading it gives it the template's, where other code hands a deposit over without
investing it (`InitializeCases`, `UpdateSeen`, `UpgradeSeen`, `HandOverSeen`).

`OneFeeEach` needs no more than that a step which registers an account hands one fee to
one admin, who is not among the users, and that no other step moves an admin's EGLD:
`SumChangesAt` turns this into the sum over all admins, also when the admin changes.

The argument for the queue. The invariant is one of single jobs (`JobOK`, and
`ByJob` shows that it says the same): a job was handled no more often than it stalled
and its attempts failed, and once more after its handler; a job whose worker is gone has a
fault to its name before it is counted as stalled, and an attempt fails only with a refused
command. So a step of one job leaves all others alone, and only a stop
touches several: each of those it holds pays with the same fault, which is why the
bound is by job. `AddedInTurn` keeps a tick from adding what another left in its slot.

The argument for the processor. Up to the block in hand nothing is missing
(`NothingBeforeHand`), and it is recorded only after it was handed over
(`RecordsTheReceived`), which carries `NoBlockIsLost` over a restart between the two.
For `BlocksInOrder` one has to know how far back a walk may begin. `ReceivedIsReached`
says that every block received is at most one past the key, or no later than where a
walk begins that gives up what is `MaxLookBehind` behind, so that a walk begins no
earlier than at the last one; a lost key makes the walk begin at the tip, and
`Height` says that the tip is no lower. `SkippedIsBehind` and `NoKeyNoBlocks` are
needed while nothing has failed: what was passed over is behind the walk for good.

`FaultsPayForRepeats` is about a sum over all blocks of all shards, and a fault is paid for
before anything is repeated. So what a block has cost (`Cost`) is how often it was handed
over again, and one more while it may come again as things stand (`MayComeAgain`: it is
received and not recorded, or not before where the next walk would begin). A fault lets
at most one more block come again (`SumAtMost`); handing it over again then changes no
cost.

The argument for the caches. A request writes to Redis only what its own build produces
(`WritesOwnList`), and it does not outlive a restart: so once every process runs the
newest build, no write under way is of an older one. What requests read and store
meanwhile goes to memories only. For the refinement it is enough that no step but a
deployment puts a list anywhere that was nowhere (`NoListComesUp`), and that a
deployment brings up its own only (`DeploymentsBringUpTheirOwn`).

The argument for the answers. Which position comes where is decided by the code alone:
the four sample positions are fixed, so the proofs go class by class. A field is null
only if its token is, and a token only if it lacks a value that was selected of it, which
leaves an error with that path; what lacks a value that is not nullable reaches the next
nullable field or the whole list (`Completed`, `CompletedList`). The exception is a token's
field that is nullable itself: it is null without an error, and nothing around it is
(`LackingIsMissing`, `CompletedValues`).

The argument for users and tokens. No step makes the set of stored users smaller, as
no removal names the one path they have (`RemovalsMatchNone`), so acknowledged
users are stored ones (`UsersStay`) and what a request holds at each stage stays true
whatever others do (`FitsStays`).

The argument for pages. `WalkFits` is `PlacesAreKept` and, for a walk that has ended, that
it has reached the end of the matches of one of its lists, which is the list itself when
there is one only. `PageFromStart` is what a slice from the length of the walk on gives.
`SliceIsShort` goes through the signs of both ends.

The argument for addresses. `Spells` says of the text after each byte that it has two
digits for each byte so far; `FoldLeftGoesOn` gives that text for every length, and
`LeastNumber` the induction.

Model-checked only: liveness (`ExecutablePlansComplete`, `CachesConverge`, `CatchesUp`,
`EveryRequestEnds`, `QueuedJobsAreHandled`), which with
`ENABLED` is out of the prover's reach. Every other property of the passing runs is
a theorem.

## 5. Not modelled

* `strategy.maintainer.service.ts`: an empty cron job no module provides.
* Factory query: a constant.
* `getFarmsRaw` of the DEX client: nobody calls it.
* Metrics, health check, configuration, bootstrap: no state, or wiring. What the
  wiring means for listeners, crons and restarts is part of `CacheWarming` and
  `QueueWorker`.
* `call_pair_remove_liquidity` and `call_exit_farm`: nobody calls them.
* Gas, storage costs and code metadata: a lack of gas is one of the reasons of `Fail`.
* `upgrade` of the deployer, which has an empty body. The account's is empty too; that the
  account has other code after it is part of `UpgradeSmartAccount`.

## 6. Findings

With a run:

* `save_user_position` (`account/lib.rs:223-233`) pushes onto a copy that is never
  stored: `user_portfolio` stays empty, where the README says it "maintains the
  list of active positions". Run `portfolio`.
* The total of the percentages wraps (`deployer/strategies.rs:55`): a list that adds
  up to 2^64 + 10000 is stored, where the README says "total allocation must equal
  100%". Run `wrapping`.
* The queue worker's app does not import the `ScheduleModule`
  (`service/apps/queue-worker/src/app.module.ts:12-21`), so its cron never fires, no job is
  queued and no identifier is ever served, where the service's README (line 39) says of the
  queue worker "This is used for concurrently processing heavy jobs." Run `unscheduled`.
* Users are looked up by `{ where: { id } }`
  (`service/libs/database/src/repositories/user.repository.ts:22`), which names no path of
  theirs: whoever is stored is reported as "User not found"
  (`service/apps/api/src/endpoints/users/user.controller.ts:30`). Run `users`. For the same
  reason a DELETE is answered 200 and removes nobody: it goes by `{ id }` (`:29`), which is
  not MongoDB's `_id`. `AnsweredCreatesAreListed` leaves the users a DELETE names out.

Observed while modelling, each plain from the line named, and part of the models as
it is:

* Level 0 is accepted (`deployer/strategies.rs:33-36`), where the README says "risk
  tolerance levels from 1 to 5". `RiskLevels` has it.
* Anybody may set any contract as the template (`deployer/lib.rs:35-45`). An account that is
  opened meanwhile runs that contract's `init`; an upgrade gives it the account's code later,
  but not the deployer's address, which only `init` stores (`account/lib.rs:42`; `upgrade`,
  `:48`, is empty). Without it the account does not find the wrapper
  (`account/egld_wrapper_actions.rs:31`) and every deposit fails for ever. `PortfolioService`
  says it: such an account never invests.
* The columns of a user are declared by another library's decorators
  (`service/libs/entities/src/schemas/user.schema.ts:11`): his names are not stored.
* A negative `size` reaches `slice`
  (`service/libs/services/src/example/example.service.ts:22`): -1 is all but the last.
* The literal list of examples has ids twice (`example.service.ts:47`, `:59`); the second
  example with an id cannot be looked up.
* The sample tokens have no `decimals`, those of pairs no `name`
  (`service/libs/services/src/smart-account/smart.account.user.service.ts:25`), and both
  are declared not nullable: a client that selects them of a pair's token gets no
  positions at all, only the error.

## 7. Plan

Done: the contracts and every part of the service that keeps state or decides
anything; every safety property of the runs is proved. Left, in this order:

1. The part of liveness that needs no `ENABLED`: that a call in flight whose entry the
   market can execute meets the guard of its next step, and that every step of a call
   brings it nearer to its end; the same for a request and its guards.
2. What `Filter` keeps of a list, element by element, so that `WalksComplete` can be
   stated without the fold.
3. One composition of API, caches and pages, in which the walks of `Examples` run over
   `CacheWarming` itself; today `ServedLists` stands between them.
4. `save_user_position`, once the contract stores what it pushes: the portfolio as the
   list of `PositionsInWallet`.
