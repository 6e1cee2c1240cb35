# Formal models of KazSmartChain

TLA+ models of the smart contracts, services and pages of KazSmartChain: what they promise, stated as
invariants, action properties, liveness properties and abstract specifications, model-checked with
TLC on small instances and, for the central ones, proved with TLAPS for every value of the constants.

Everything is read from the code under `src/`. What is not in the repository is modelled from the way
the code here uses it: OpenZeppelin's ERC20 (`ERC20.tla`), the external biometric service (in
`SessionPolling`), FireFly as an executor of token transfers (in `TokenTransfer`).

## 1. The system

| part | state it keeps | operations | interacts with |
|---|---|---|---|
| NU stablecoin (`contracts/NUStablecoin.sol`; `BCCStablecoin.sol` is the same text) | balances, supply, allowances; reserves; daily limits and counters with the day of their last reset; audit trail; frozen and blacklisted accounts | mint, batchMint, burn, the ERC20 and ERC20Burnable calls, freeze/unfreeze, blacklist/unblacklist, setDailyLimits, setReserveAccount | holders, minters, burners, a compliance officer, an admin |
| KSC token v2 (`contracts/KSCTokenV2.sol`) | balances, supply; stakes and their total; validators; proposals and votes; emission of the year; rates; pause flag | payGasFee, stake, unstake, registerValidator, distributeValidatorReward, createProposal, vote, mint, resetYearlyEmission, setters, pause/unpause, the ERC20 calls | holders, stakers, validators, voters, the owner; its own account holds every stake |
| KSC token v1 (`contracts/KSCToken.sol`) | balances, supply, pause flag | mint, burn, pause, unpause, permit, the ERC20 calls | holders, the owner, FireFly |
| Custody service (`contracts/CustodyService.sol`) | customer registry (address and id), token balances per customer, NFT records, transaction records, daily withdrawal limits and counters, pause flag | registerCustomer, deactivateCustomer, deposit and withdraw for ERC20 and ERC721, setters, pause/unpause | token contracts it calls with transferFrom and transfer |
| Diploma registry (`apps/api/.../diplomas`, `solana`) | diploma rows (status, mint address, hashes), the NFT registry | sync from e-diploma, verify, read private data, revoke | IPFS, FireFly, Solana mock, audit log; several requests at once |
| Login: page (`apps/web/components/auth/LoginForm.tsx`, `lib/auth/api.ts`) | status, session, widget, timer, script elements, tokens in localStorage | Start, Cancel, events of the widget, timers, answers | the browser, the API, the widget |
| Login: polling (`apps/api/.../biometric`) | none between requests | poll a session up to 15 times, decide | the biometric service, the page's 60 seconds |
| Login: tables (`apps/api/.../auth`, `users`) | users, role assignments, refresh tokens | find or create the user, assign a role, store a token | the database; several logins at once |
| Token transfers (`apps/web/app/orgs/[id]/tokens`, `apps/api/.../tokens`) | the page's form; nothing in the API | read the balance, compare, transfer; timeout and retry | FireFly, KSC token v1, other callers of the token |
| FireFly gateway (`apps/api/.../firefly`, `apps/mocks/firefly`) | buffer of events; audit rows | post an operation, log it; keep an event until it is read | API, relay |
| Relay (`apps/relay`) | a counter of events | poll every 3 s, count | the gateway |
| Certificates, roles, audit, metrics, orgs, IPFS, PKI | rows | create, toggle, assign, list | the database |
| Other pages, documentation, scripts, vendored SDK | none | | |

What makes them hard, and the properties that would make each one correct:

- **Contracts.** Transactions are atomic and serial, so the difficulty is the *order* of calls by many
  actors: inherited entry points that bypass a bookkeeping update, counters that are reset lazily by
  the next call and not by midnight, rounding in the division of fees, one account (the contract's
  own) that mixes stakes, fees and undivided remainders. Correct means: the supply is the sum of the
  balances; reserves cover the supply; restricted accounts do not move; limits hold per calendar day;
  every stake and deposit can be returned; every token issued is accounted for and capped.
- **Services.** Requests run concurrently and yield at every `await`: a row is read, external services
  are called, and the row is saved. Correct means: a revoked diploma stays with the organization that
  may revoke it and its NFT follows; a person has one role and gets one; a transfer that passed its
  check is executed, once; an audit row tells of something that happened.
- **Time and messages.** The server polls longer than the page waits; a transfer that timed out may
  still be executed; the gateway forgets events when it is asked for them; polls overlap. Correct
  means: everything begun ends, nothing happens twice, and what is lost is the only thing missing.
- **The login page** is a small distributed system of its own: answers, timers and events of widgets
  arrive in any order, and Cancel aborts none of them.

`PROJECT.json` lists each hazard at its line, with the properties that cover it.

## 2. Plan

| | modules | checked | proved |
|---|---|---|---|
| 1 | `BalanceSheet`, `ERC20` and their theorems: totals beside mappings; the OpenZeppelin base | through the contracts | yes |
| 2 | `NUStablecoin` implementing the abstract `BackedSupply` | yes | yes, the refinement too |
| 3 | `KSCTokenV2` | yes | yes |
| 4 | `CustodyService` implementing the abstract `SegregatedVaults` | yes | yes, the refinement too |
| 5 | `Diplomas`: sync and revoke as processes that interleave at each await | yes | yes |
| 6 | `SessionPolling`: retries against two timeouts | yes, with liveness | safety |
| 7 | `BiometricLogin`: concurrent logins on three tables | yes, with liveness | safety |
| 8 | `LoginPage` | yes, with liveness | safety |
| 9 | `TokenTransfer` over `KSCToken` over `ERC20` | yes, with liveness | safety |
| 10 | `FireFlyGateway` implementing the abstract `EventFeed` | yes, with liveness | safety, the refinement too |

Worth doing next: the life cycle of a diploma that the serial runs of `Diplomas` implement.

## 3. Modules

Two modules of theorems each extend several specifications (`LoginProofs`, `FireFlyProofs`). Those
carry a prefix in the names that every specification has: `PageSpec`, `TransferSpec`, `GatewaySpec`,
`LoginTypeOK`, `PollingTypeOK`.

### `BalanceSheet.tla`, `BalanceSheetTheorems.tla`

`SumsTo(f, n, s)`: the column `f[1..n]` adds up to `s`, stated by the existence of its running
totals. There is no recursion in it, so that TLC evaluates it and TLAPS reasons about it at any
length. `TotalOf` names the total, for a specification that needs it as a value. The theorems are the
arithmetic every balance sheet needs: every column has one total (`TotalExists`, `TotalIsUnique`), a
column of zeros, adding two columns, a term is at most the total, moving an amount between two entries
(or in or out of the sheet).

### `ERC20.tla`, `ERC20Theorems.tla`

`Update` (`_update`), `SetAllowance` (`_approve`) and `SpendAllowance` (`_spendAllowance`) of
OpenZeppelin 5.x. A uint256 is a number up to `MaxUint`; a call that reverts is a disabled action.
The theorems: an `Update` keeps the types, the supply and the sum of the balances in step
(`UpdateSound`), and no account holds more than the supply (`BalanceBound`).

### `NUStablecoin.tla`, `BackedSupply.tla`, `NUStablecoinProofs.tla`

One action per external function of the contract, one transaction each. `mintHistory` and
`burnHistory` keep the amount the audit records carry for each day. The lazily reset counters are
modelled as the code computes them (`SinceReset`, `ResetDay`). Roles are not guards: the admin holds
them all and may always call. `whenNotPaused` is not one either: no function of the contract ever
pauses it, so `mint` and `burn` cannot be stopped by a pause (the contract inherits `Pausable`
without exposing `pause()`).

`BackedSupply` is the promise: tokens are issued with their reserve, a reserve is released only with
tokens, and tokens may be forfeited. `ImplementsBackedSupply` maps `totalSupply` and `totalReserves`
to it.

### `KSCTokenV2.tla`, `KSCTokenV2Proofs.tla`

One action per external function. A fee (`PayGasFee`) is one action with the net effect of its
transfers: debit of the payer, burn, shares of the validators, remainder left in the contract.
Emission is checked against the cap by `CanMint`, exactly as the code does, including its answer
once the year is over. Owner functions are always callable. Products inside `canMint` are not
bounded by `MaxUint`; sums that the code stores are.

`payGasFee` takes any payer, the contract's own account included, and such a fee is burnt and divided
out of the stakes. `drained` is history: what those fees took. `StakesCovered` says that the contract's
balance and `drained` together cover the stakes: nothing else takes from them, no rounding and no
order of calls. Without such fees the contract can return every stake; with them it cannot.

Reading the code also showed what the model leaves out: `Unstaked` always reports 0 because the
stake is deleted before the event reads it; a validator's stake is never returned; `executed` and
`rewards` are never written again; `unstake` of a stake whose lock ends beyond the range of a uint256
reverts for ever.

### `CustodyService.tla`, `SegregatedVaults.tla`, `CustodyProofs.tla`

One action per external function; the admin holds every role, so that roles are not guards. `held`
and `heldNFTs` are the contract's holdings in the token contracts; what is not held is outside, where
operators take deposits from and withdrawals go to. A withdrawal may name the contract itself as its
recipient (`toSelf`): the customer's balance falls and the contract keeps the tokens, which nobody is
owed any more. Tokens and NFTs also arrive without a deposit (`ReceiveTokens`, `ReceiveNFT`).

`assets` holds the NFT records whose owner is not zeroed. The key of a record is a hash that contains
the block's time, so that a second deposit in one block revives the key and one in a later block adds
another: `depositedAt` keeps the two apart. `transactions` keeps the ids of the current block only,
since an older id cannot be written again. `limitedToday` is history: what the day's withdrawals under
a limit add up to. The code counts a withdrawal only while a limit is set (line 323), and the counter
is compared with that.

`SegregatedVaults` is the promise: a vault for each customer and token, a box for each NFT, changed
only with a receipt in the customer's name. The contract has one pooled holding, records and a log.
`ImplementsVaults` maps the balances to the vaults, the owner of an NFT's record (`OwnerOf`, 0 if it has
none) to whose the box is, the ids of the block's transactions to the receipts, and what the contract
holds beyond the total of the balances (`Spare`) to the tokens in no vault: a withdrawal to the
contract itself and a direct transfer add to them, and nothing takes from them.

Read in the code, with no run of its own: the number of signatures a large withdrawal needs is set and
never compared with any; a customer who is deactivated and registered again is
counted twice by `getCustomerCount`; two equal transactions in one block share an id, so that the
record of the first is lost; withdrawals while no limit is set are not in `dailyWithdrawn`; an NFT
withdrawn to the contract itself, or sent to it without a deposit, cannot be withdrawn by anybody.

### `Diplomas.tla`, `DiplomasProofs.tla`

Requests are processes. The server is a single thread that runs one request until it awaits
something, so each action is the code from one await to the next: `SyncFind` (the query and the object
built from it), `SyncPublish` (IPFS and FireFly), `SyncMint`, `SyncSave`; `RevokeFind`, `RevokeSave`,
`RevokeNFT`. `local[r]` is the variable `diploma` of the request: a copy of the row that grows old
while the request waits. `save` compares that copy with the row as it is by then and writes every
column that differs, so it writes back what other requests changed meanwhile; inserting a copy that
was created is refused if the row exists, because `ediplomaId` is unique. Every call may throw: the
code catches some (`SyncMint`, `RevokeNFT`) and ends the request on others (`Throw`). The process may
crash at any point (`Crash`).

`disturbed` is history: it becomes true when requests overlap, a call fails, the process crashes or
somebody changes NFTs through the Solana endpoints. `MintedOnceUndisturbed` and
`RevocationReachesNFT` are conditional on it, because without the condition they do not hold
(`DiplomaMints` shows it for the first); `RevokedByOwnOrganization` and the proved
`OrganizationKept` hold in every interleaving.

Read in the code, with no run of its own: the audit event of a first issue says `diploma.updated`,
since the id is assigned by then; `verify` compares a full IIN with a masked one stripped of its
stars, so a correct IIN is refused; `updateMetadata` makes a revoked NFT `updated`; a sync of a revoked
diploma sets its status back to issued and leaves the date of revocation.

### `SessionPolling.tla` (proofs in `LoginProofs.tla`)

One `POST /biometric/verify`: `getSessionResult` polls the biometric service, and the page waits for
the server with an `AbortController`. Time is in seconds and jumps to the next deadline (`Tick`); what
is due happens before time goes on. `StartFetch` chooses how long a fetch takes, `FetchAnswer` and
`FetchError` are its ends, `Retry` and `Return` the code's. `Ready` and `Valid` are `getReadyStatus`
and `validateResult` over the fields they read. `session` is what the service knows and changes at any
time (`Report`). `Respond` is the service's side of a fetch: at some moment it answers with what it
knows then, or with empty objects, and the session may change before `answer` arrives. `spent` and
`failedFirst` are history: the seconds given to fetches, and whether the session had failed when the
last fetch began.

### `BiometricLogin.tla` (proofs in `LoginProofs.tla`)

What a verified login does to the tables: each step of `Login(r)` ends in one query, and the steps of
several requests interleave. `loaded[r]` is the list of roles that a request read with its user. `save`
compares the user with what the database has by then: rows of its list that are not bound are bound, and
bound rows that are not in its list are detached (TypeORM sets their `userId` to null, the default for
a OneToMany whose orphans are not deleted). `users.iin` is unique, so that the second of two first
inserts is refused; `role_assignments` has no such constraint. Any query may fail and the process may
crash (`Crash`). `overlapped` and `failed` are history.

### `LoginPage.tla` (proofs in `LoginProofs.tla`)

The state of `LoginForm.tsx` and everything that can arrive at it: the answer to a request for a
session, the `load` and `error` of a script element, the timer of 200 ms, finish events of widgets and
answers to verifications. A finish event that is taken waits two seconds (`waits`) before its request
is sent (`SendRequest`); Cancel stops neither. `Render` is the effect that runs after a change of state. `widgets` are the
widgets that were started and may still finish; Cancel removes the container and not the widget.
`overlap` is history: Start was pressed while an earlier press was still pending.

### `KSCToken.tla`, `TokenTransfer.tla` (proofs in `FireFlyProofs.tla`)

`KSCToken` is the v1 contract, one action per function. `TokenTransfer` runs it under the web site:
`Check` (the balance is read, rounded by `Shown` and compared), the POST to FireFly, `Deliver` (FireFly
accepts), `Mine` (the contract executes or reverts), `Answer` and `Timeout` in the API, and `Ask`,
`LosePage`, `Retry` and `Close` on the page. Amounts are floating-point numbers of KSC: what the API
posts for one, `Math.floor(amount * 1e18)`, and what it reads as a balance may each be off by
`ConversionError` wei (`Near`): 1.1 KSC are posted as 1100000000000000128 wei. `order[r].wei` is what is
posted, the same when it is asked for again. A page shows an error, and lets its form be submitted
again, when the API says so or when its own fetch is rejected (`broken`) while the API goes on; a reply
that is lost is a fetch that broke just before. `TokenCall` is any call of the token by anybody.
`order[r].first` names the request a chain of retries began with; `disturbed` is history, and holds the
transfers that another call overtook between check and execution, or that were posted for more than
the sender had, by no more than half a cent and two conversions account for (`Slack`). One page stands
for several: a page that is closed and opened again has two requests under way. `MCTokenTransfer` gives
the page its organization.

### `EventFeed.tla`, `FireFlyGateway.tla` (proofs in `FireFlyProofs.tla`)

`EventFeed` is the promise of a relay: an event that was published is delivered at most once or lost,
and none is made up. `FireFlyGateway` is the API that posts an operation and then writes its audit row,
the gateway that keeps an event until it is asked for events, and the relay that asks every three
seconds whether or not it has been answered. Posts, answers and polls are lost or late, and each of the
three processes may restart. `ImplementsFeed` maps executed operations to published events and counts
to deliveries. The creation of a pool (`PoolRequest`) leaves no event. `Receive`, `Audit` and `Reply` are the
same three steps of all handlers that log (`firefly.controller.ts:53-91`). There is one gateway, as the
seed and the compose files configure it.

## 4. Runs

| run | question | result |
|---|---|---|
| `NUStablecoin` | Do mint, batch, burn, holder burn, allowances, restrictions and limit changes keep reserves, counters and the audit trail consistent across midnight? Can any path move a restricted account's tokens? Does the contract implement `BackedSupply`? | consistent; no; yes |
| `KSCTokenV2` | Can the contract always return every stake, and is every issued token counted, and capped in the year? | but for what fees charged to its own account took; yes |
| `KSCEmission` | Does the cap hold past the first year? | no: not until the owner resets the counter |
| `Custody` | Is everything customers are owed held, tokens and NFTs? Do limited days stay within their limit across midnight? Do the ids of active customers lead to them? Does the contract implement `SegregatedVaults`? | yes |
| `Diplomas` | What do sync and revoke guarantee, one after the other, and in every interleaving with failures and crashes? | the three properties hold |
| `DiplomaMints` | Is a diploma minted once, whatever overlaps or fails? | no |
| `BiometricLogin` | Which roles do overlapping, failing and lost logins leave? Does a verified person get one? | one without overlap; yes unless something fails |
| `SessionPolling` | How long does the server poll, when does the page give up, which answer logs somebody in, do both end? | within the bound of the constants; only on slow fetches; one given after the last fetch began; yes |
| `LoginPage` | Does the page verify the session whose widget finished? Does it ever wait for nothing? | yes, unless Start overlapped or the widget was cancelled; no |
| `WidgetStart` | Is the widget of the session on the page started? | no: not of the second, when Start is pressed twice |
| `TokenTransfer` | Why can a transfer that passed the check be refused? How often are the tokens moved? Does what succeeded happen? | another call, or rounding by half a cent and two conversions at most; once, and once per timeout and broken fetch; it is executed or refused |
| `FireFlyGateway` | Is an event delivered at most once and eventually, and is the audit trail true? | yes, unless lost; yes |

**Findings.** Each of the three runs that end in a violation quotes, in `PROJECT.json`, the line of the
repository that says otherwise. Met while reading and modelling, with no run:

- `NUStablecoin.sol:17` says "1:1 backing", while a holder's own `burn` leaves its reserve behind; a
  blacklisted account can still spend an allowance others gave it.
- The documentation calls the supply of KSC fixed, and the contract mints; it lets staked tokens vote,
  and the contract weighs the unstaked balance only; tokens that voted vote again from another account.
- `payGasFee` takes any payer: a fee charged to the contract's own account is paid out of the stakes.
- Custody never compares the signatures a large withdrawal is said to need with anything.
- A sync over a revoked diploma makes it issued again.
- Two overlapping logins of one person can detach its role, until the next login; a failure between
  the queries leaves a user without one.
- After the last attempt the polling returns an answer that is still in progress, and logs in if its
  fields are complete; the page gives up after 60 seconds, while the constants let the server poll for
  more than eight minutes.
- A verification of a cancelled session begins if a widget had finished less than two seconds before
  Cancel was pressed.
- The wei of an amount come from a floating-point product: a sender of exactly 1.1 KSC passes the check
  for 1.1 KSC, and the contract refuses the 128 wei too many.
- A page whose fetch breaks shows an error of a transfer that succeeds, and its form moves the tokens
  again; the reads of balances have no timeout.
- A success of a transfer is shown when FireFly has accepted it, not when it was executed.
- Two toggles of a certificate at once leave the effect of one.
- `mint-direct.js` mints to another address of the second university than the other scripts
  use.

**Bounds.** Every bound is a constant of a cfg. Two accounts show every relation between two parties
(spender and owner, sender and recipient); the KSC run has a third, the contract. Amounts up to 2 to 4 are the least that distinguish a
limit, a sum just below and one just above it, and a division with a remainder; custody divides
nothing, and its one unit, withdrawn, deposited and withdrawn again, is enough to exceed a limit of 1. Two days (`MaxDay = 1`,
`DayLength = 1`) contain one midnight, the only event the lazy resets react to; a year of two ticks ends
within `MaxTime = 2`, leaving room for calls before the end, between the end and the reset, and after
it. One proposal is enough, since proposals do not share state. Where a bound cuts a counter
(`MaxUint`), it does so where the contract's checked arithmetic reverts; `MaxDrained` bounds what fees take
from the contract's own account, which is as much as a stake. The custody run has two customers and two
registrations, so that one can be registered again, one token and one NFT: no variable relates two
tokens. Its limits are 1 and 0, which is none, so that a limit is set, cleared and set again within a day. Three requests on one diploma, or of two persons, contain every pair of overlapping requests
followed, or preceded, by a third. `SessionPolling` keeps the code's delays and timeouts and three of
its fifteen attempts: with 30-second fetches three already outlast the page (5 + 3·30 + 2·3 = 101
seconds against 60); the theorems are for any number. Three presses of Start contain one that
overlaps, one that was cancelled and one after both. Two transfers are a race, or a transfer and its
retry. A cent of three wei and an error of one are the least that tell half a cent, an error and both
apart from a whole cent; the supply is the amount that is asked for, one wei less than may be posted
for it; three operations are two with events and one without, and two polls are what it takes to
overlap.

**Fairness.** A contract does nothing by itself, and `Diplomas` is asked for safety only: no fairness
there. Where liveness is asked, each step that the runtime takes by itself is weakly fair: the next
step of a request the server has begun (a query ends, and so does a fetch that has a timeout, with an
answer or an error), a timer, the answer to a browser's request, the load or error of a script, the relay's interval. A
person (Start, Cancel, Ask, Retry, Close, the finish of a widget), the biometric service and any other
caller of a token owe nothing. The reads of balances in `transferKSC` have no timeout and are not fair:
`PostEnds` speaks of requests that got as far as their POST. `LoginPage` takes the verification's 60
seconds (`lib/auth/api.ts`) as its end; the timer is cleared before the body of the answer is read, which
is assumed to arrive. FireFly is assumed to execute what it has accepted (`Mine`), which is
what its answer says; it need not accept anything. Failures, losses, restarts and crashes are never
fair, and `EventsDrain` and `VerifiedGetsRole` are conditional on them.

**Deadlock.** It is checked for `TokenTransfer`, where somebody can always call the token, and for
`FireFlyGateway`, where the relay always polls. The other runs may stop: a contract whose bounds are
used up, a server without further requests, a page that shows its result.

## 5. Proofs

The theorems hold for any number of accounts, customers, tokens, requests, sessions or attempts, any
limits, days, delays, rounding and width of the integers. The assumptions (`ERC20Assumption`, `NUAssumption`,
`KSCAssumption`, `KSCTokenAssumption`, `CustodyAssumption`, `PollingAssumption`, `AnswerAssumption`,
`PageAssumption`, `TransferAssumption`, `GatewayAssumption`) state the types of the constants and restrict
no caller. `Diplomas` and `BiometricLogin` need none. Every inductive invariant was model-checked on the small instance of its
run before it was proved.

The type invariants of the contracts, `Diplomas`, `BiometricLogin` and `SessionPolling`, the supply of
the KSC tokens (`SupplyIsSumOfBalances`), `EveryBalanceRedeemable`, `CountIsNumberOfValidators`,
`InactiveUntouched`, `OrganizationKept`, `DecidedOrLast` and the type invariant of `TokenTransfer` are in
no run: the proof of each covers what a run could show.

`BalanceSheetTheorems`, `ERC20Theorems`: the arithmetic of totals, used by every proof about a contract.
The library's induction theorems take an operator as a parameter, which the provers cannot
instantiate; induction is stated for sets instead, from the well-foundedness of the naturals: a set of
naturals has a least element (`LeastNatural`), and a set that contains 0, and k whenever it contains
k - 1, contains everything up to n (`UpTo`). That running totals grow (`TotalsGrow`), that a total is
unique and that it exists follow from these.

`NUStablecoinProofs`: every property of its run, the refinement of `BackedSupply` included. The
argument rests on one inductive invariant, `NUInvariant`: the types, the balance sheet, the cover and
the counters together. The cover alone is not inductive: the guard of `Burn` speaks of a balance, so
that the step needs to know that a balance is at most the supply, which is the balance sheet. The limit
on a day alone is not inductive either: the code compares its counter, and only `CountersMatchAuditTrail`
says that the counter is the day's record. Each action has a lemma; those that move tokens share
`UpdateSound`.

`KSCTokenV2Proofs`: every property of its run, the balance sheet and the types. `KSCInvariant` adds
that no stake starts later than now (`StakesStarted`), without which a reward could be negative. The
payers are any accounts, so that `StakesCovered` carries what fees charged to the contract took.
`PayGasFeePreserves` is the heart: the shares of the validators are the
membership column times one number (`SumOfMultiples`), the column adds up to `validatorCount`
(`CountIsNumberOfValidators`), and the rounded division takes no more than what is left of the fee
(`FeeParts`); so the supply, the shares and the remainder balance, and nothing comes out of the stakes unless the
contract is the payer, which is then recorded.
`StepIssues` says of every step that it issues nothing, or an amount that the cap allows and the
counter records; both properties of emission follow.

`CustodyProofs`: every property of its run. `CustodyInvariant` has one part per group of variables
(`RegistrySound`, `LimitsSound`, `SettingsSound`, `TokensSound`, `NFTsSound`, `LogSound`). An action
disturbs one to three parts, each with a lemma, and frames the others. What had to be added to the
properties: a counter is never reset ahead of the clock (`lastResetDay[c] <= today`), without which the
lazy reset would not be a reset at midnight. That a balance never exceeds the supply is not checked by
the code anywhere; it follows from `OwedCovered` and `TermBound`. `ImplementsSegregatedVaults` is the
refinement, one lemma per action that is not a stutter. What is spare is defined by a choice of a
total; since a total is unique (`TotalIsUnique`), it changes by what enters or leaves the holding
outside of the balances (`SpareAfterMove`). Whose an NFT is, is defined by a choice of a record; since
an NFT has one record at most (`RecordsCovered`), it changes with that record only (`OwnerKept`).

`DiplomasProofs`: every property of the run `Diplomas`. `CopiesSound` holds in every interleaving: the
copy a request carries, however old, is of the row's organization, and a copy with the status
"issued" can be saved only while there is no row. `SerialSound` is the proof outline of the serial
case: for each step a request can be at, how the row, its copy and the NFT relate.

`LoginProofs`: every safety property of the three runs about the login.

- `BiometricLogin`: `TablesSound` relates tables and steps in every interleaving, `SerialSound` follows
  the one login of a person that never overlapped, and `RolesKept` is the strengthening of
  `RoleOrRepair`: a save of stale roles is always followed, in the same request, by a look for a role.
- `SessionPolling`: `ClockSound` accounts for every second: a deadline is the initial delay, the
  fetches and the delays so far. `LoginIsCurrent` needs that what the service knows only grows, and
  `AnswerSound`: an answer on its way is what the service knew since the fetch began, or empty.
- `LoginPage`: `VerifiesWhatItShowed` is not inductive, because it speaks of the moment a widget
  finishes and the harm is done earlier, when an answer replaces the session on the page.
  `PageInvariant` adds what holds until then: as long as no Start overtook another, a request for a
  session is alone and nothing else will start a widget meanwhile (`OneAtATime`), and every widget that
  may finish is the one on the page or was cancelled (`WidgetsAccounted`). `NoFinishAfterCancel` follows
  from a part of `WidgetSound` that holds with overlaps too: the session on the page is never one that
  was cancelled.

`FireFlyProofs`: every safety property of `TokenTransfer` and `FireFlyGateway`, the supply of the v1
token, and the refinement of `EventFeed`.

- `TransferInvariant` has three parts beside the types and the supply. `ChecksSound` follows a transfer
  from the check to the block: unless it was disturbed, the sender still has the wei that were posted
  (`RevertedOnlyIfDisturbed`); that the check lets through no more than `Slack` too much is the arithmetic
  of `ShownBounded` and `RoundingBounded`. `AnswersSound` says that a request fails without a POST or after
  a timeout, and `ChainsSound` that all but the last of a chain of retries have failed or lost their page
  and that the page shows the last, so that of two requests that moved the same tokens the earlier one
  timed out or lost its page (`MovedOncePlusLostAnswers`).
- `GatewayInvariant` says where a request is while its messages are under way (`RequestsSound`, of which
  `TrailIsTrue` is a part), that an event is in one place only (`EventsSound`) and in some place
  (`EventsPlaced`). `FeedStep` is the refinement, step by step: to execute is to publish, unless
  the operation creates a pool; to count an answer is to deliver; a lost answer, a lost poll and a
  restart lose what was waiting there; every other step is a stutter. That what is counted was still
  waiting, and is counted once, is where `EventsSound` is needed.

**Only model-checked.** Liveness under fairness is out of the prover's reach, so that eight properties
are checked by TLC only: `VerifiedGetsRole`, `VerificationEnds`, `CheckingEnds`, `CreatingEnds`,
`SuccessIsExecuted`, `PostEnds`, `EventsDrain` and `RequestsEnd`. So would be
`ENABLED` and what a recursive definition computes, which no property here needs. Every other property of a passing run is a theorem.

## 6. Not modelled

- Gas, events of contracts, roles as guards, `permit` signatures (the effect is that of `approve`);
  reentrancy and non-standard tokens (custody calls external contracts, assumed to be standard ones,
  which call nothing back).
- Reads: `verify` and private data of diplomas, lists, statistics, metrics, audit search; renewing an
  access token, which changes nothing stored.
- Certificates, roles, audit and metrics: one query per call. The toggle of a certificate is a
  read-modify-write that nothing orders, so that no property of two toggles at once could hold.
- IPFS, PKI and the PHP bridge call external services and keep nothing. Scripts are sequential and run
  by hand. The other pages show what the API returns.
- The vendored SDK (`src/SDK 2.0`). All C and C++ of the repository is there: the headers of OpenSSL and
  of the Kalkan library, prebuilt binaries and the vendor's sample programs. No build of the repository
  compiles any of it, and the PHP bridge loads its extension as a binary; headers declare constants and
  types, and contain no behaviour to model. The models are of the system's own code, which is Solidity,
  TypeScript and JavaScript; a share counted over lines of C is therefore zero and stays so.
