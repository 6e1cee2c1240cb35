---------------------------- MODULE NUStablecoin ----------------------------
(***************************************************************************)
(* contracts/NUStablecoin.sol (contracts/BCCStablecoin.sol is the same     *)
(* text): a stablecoin whose minters record a reserve of tenge for every   *)
(* token, with daily limits, an audit trail and a compliance list.         *)
(*                                                                         *)
(* One action per external function, each one transaction: the EVM runs    *)
(* them one at a time and undoes a transaction that fails a require, so a  *)
(* failing call is a disabled action.  The functions inherited from ERC20  *)
(* and ERC20Burnable are entry points of the contract like its own.        *)
(*                                                                         *)
(* The two arrays of the audit trail are kept as the amount they record    *)
(* for each day.  onlyRole is not a guard: the constructor grants every    *)
(* role to the admin, who may always call.  whenNotPaused is not one       *)
(* either: no function of the contract pauses it.                          *)
(***************************************************************************)
EXTENDS ERC20

CONSTANTS Limits,           \* values an admin gives the daily limits
          Spenders,         \* accounts that holders approve
          ApprovedAmounts,  \* allowances that holders grant
          Regulated,        \* accounts the compliance officer acts upon
          ReserveAccounts,  \* addresses an admin names as reserve account
          MaxDay            \* bound: the days 0..MaxDay are explored

ASSUME NUAssumption ==
    /\ Limits \subseteq Uint
    /\ Spenders \subseteq Account
    /\ ApprovedAmounts \subseteq Uint
    /\ Regulated \subseteq Account
    /\ ReserveAccounts \subseteq Account
    /\ MaxDay \in Nat

VARIABLES totalReserves,
          reserveAccount,
          frozenAccounts,
          blacklistedAccounts,
          dailyMintLimit,
          dailyBurnLimit,
          dailyMinted,
          dailyBurned,
          lastResetDay,
          mintHistory,      \* amount the MintRecords carry for each day
          burnHistory,      \* amount the BurnRecords carry for each day
          today             \* block.timestamp / 1 days

limitVars   == <<dailyMintLimit, dailyBurnLimit>>
counterVars == <<dailyMinted, dailyBurned, lastResetDay>>
auditVars   == <<mintHistory, burnHistory>>
reserveVars == <<totalReserves, counterVars, auditVars>>
listVars    == <<frozenAccounts, blacklistedAccounts>>
adminVars   == <<reserveAccount, limitVars>>
vars == <<erc20Vars, reserveVars, listVars, adminVars, today>>

Day == 0..MaxDay

TypeOK ==
    /\ ERC20TypeOK
    /\ totalReserves \in Uint
    /\ reserveAccount \in Account
    /\ frozenAccounts \in [Account -> BOOLEAN]
    /\ blacklistedAccounts \in [Account -> BOOLEAN]
    /\ dailyMintLimit \in Uint
    /\ dailyBurnLimit \in Uint
    /\ dailyMinted \in Uint
    /\ dailyBurned \in Uint
    /\ lastResetDay \in Day
    /\ today \in Day
    /\ mintHistory \in [Day -> Nat]
    /\ burnHistory \in [Day -> Nat]

\* The constructor, on day 0.
Init ==
    /\ ERC20Init
    /\ totalReserves = 0
    /\ reserveAccount \in ReserveAccounts
    /\ frozenAccounts = [a \in Account |-> FALSE]
    /\ blacklistedAccounts = [a \in Account |-> FALSE]
    /\ dailyMintLimit \in Limits
    /\ dailyBurnLimit \in Limits
    /\ dailyMinted = 0
    /\ dailyBurned = 0
    /\ lastResetDay = 0
    /\ mintHistory = [d \in Day |-> 0]
    /\ burnHistory = [d \in Day |-> 0]
    /\ today = 0

-----------------------------------------------------------------------------
(* The internal functions.                                                 *)

\* address(0) is on no list: freezeAccount and blacklistAccount reject it.
Unrestricted(a) ==
    a # ZeroAddress => ~frozenAccounts[a] /\ ~blacklistedAccounts[a]

\* Mutation: the recipient's status is not checked.
MoveChecksSenderOnly(from, to, value) ==
    /\ Unrestricted(from)
    /\ Update(from, to, value)

\* The _update override, reached by every transfer, mint and burn.
Move(from, to, value) ==
    /\ Unrestricted(from)
    /\ Unrestricted(to)
    /\ Update(from, to, value)

\* _resetDailyLimitsIfNeeded, as the values it leaves in the counters.
NewDay == today > lastResetDay
SinceReset(counter) == IF NewDay THEN 0 ELSE counter

\* Mutation: the reset forgets the day it was done on.
ResetWithoutDay == lastResetDay

ResetDay == IF NewDay THEN today ELSE lastResetDay

\* Mutation: the burn counter is carried into the new day.
CountMintKeepsBurned(amount) ==
    /\ SinceReset(dailyMinted) + amount <= dailyMintLimit
    /\ dailyMinted' = SinceReset(dailyMinted) + amount
    /\ lastResetDay' = ResetDay
    /\ UNCHANGED dailyBurned

CountMint(amount) ==
    /\ SinceReset(dailyMinted) + amount <= dailyMintLimit
    /\ dailyMinted' = SinceReset(dailyMinted) + amount
    /\ dailyBurned' = SinceReset(dailyBurned)
    /\ lastResetDay' = ResetDay

CountBurn(amount) ==
    /\ SinceReset(dailyBurned) + amount <= dailyBurnLimit
    /\ dailyBurned' = SinceReset(dailyBurned) + amount
    /\ dailyMinted' = SinceReset(dailyMinted)
    /\ lastResetDay' = ResetDay

Record(history, amount) == [history EXCEPT ![today] = @ + amount]

-----------------------------------------------------------------------------
(* Issue and redemption, by the holders of MINTER_ROLE and BURNER_ROLE.    *)

Mint(to, amount) ==
    /\ Unrestricted(to)
    /\ amount > 0
    /\ CountMint(amount)
    /\ totalReserves + amount <= MaxUint
    /\ totalReserves' = totalReserves + amount
    /\ mintHistory' = Record(mintHistory, amount)
    /\ Move(ZeroAddress, to, amount)
    /\ UNCHANGED <<allowances, burnHistory, listVars, adminVars, today>>

\* Mutation: the batch issues its tokens without their reserve.
BatchMintUnbacked(recipients, payout) ==
    /\ \A a \in recipients : Unrestricted(a)
    /\ \A a \in Account \ recipients : payout[a] = 0
    /\ \E total \in Uint :
          /\ SumsTo(payout, MaxAddress, total)
          /\ CountMint(total)
          /\ totalSupply + total <= MaxUint
          /\ totalSupply' = totalSupply + total
          /\ mintHistory' = Record(mintHistory, total)
    /\ balances' = [a \in Account |-> balances[a] + payout[a]]
    /\ UNCHANGED <<allowances, totalReserves, burnHistory, listVars, adminVars, today>>

\* payout[a] is what the batch mints to account a over all its entries, and
\* recipients the accounts it names, those with amount 0 included.
BatchMint(recipients, payout) ==
    /\ \A a \in recipients : Unrestricted(a)
    /\ \A a \in Account \ recipients : payout[a] = 0
    /\ \E total \in Uint :
          /\ SumsTo(payout, MaxAddress, total)
          /\ CountMint(total)
          /\ totalReserves + total <= MaxUint
          /\ totalSupply + total <= MaxUint
          /\ totalReserves' = totalReserves + total
          /\ totalSupply' = totalSupply + total
          /\ mintHistory' = Record(mintHistory, total)
    /\ balances' = [a \in Account |-> balances[a] + payout[a]]
    /\ UNCHANGED <<allowances, burnHistory, listVars, adminVars, today>>

\* burn(from, amount, reason)
Burn(from, amount) ==
    /\ balances[from] >= amount
    /\ amount > 0
    /\ CountBurn(amount)
    /\ totalReserves >= amount
    /\ totalReserves' = totalReserves - amount
    /\ burnHistory' = Record(burnHistory, amount)
    /\ Move(from, ZeroAddress, amount)
    /\ UNCHANGED <<allowances, mintHistory, listVars, adminVars, today>>

-----------------------------------------------------------------------------
(* The entry points inherited from ERC20 and ERC20Burnable.                *)

Transfer(sender, to, value) ==
    /\ Move(sender, to, value)
    /\ UNCHANGED <<allowances, reserveVars, listVars, adminVars, today>>

TransferFrom(spender, from, to, value) ==
    /\ SpendAllowance(from, spender, value)
    /\ Move(from, to, value)
    /\ UNCHANGED <<reserveVars, listVars, adminVars, today>>

\* ERC20Burnable.burn(value): a holder destroys tokens of its own.
BurnOwn(holder, value) ==
    /\ Move(holder, ZeroAddress, value)
    /\ UNCHANGED <<allowances, reserveVars, listVars, adminVars, today>>

BurnFrom(spender, from, value) ==
    /\ SpendAllowance(from, spender, value)
    /\ Move(from, ZeroAddress, value)
    /\ UNCHANGED <<reserveVars, listVars, adminVars, today>>

\* approve; permit has the same effect on the state modelled here.
Approve(owner, spender, value) ==
    /\ SetAllowance(owner, spender, value)
    /\ UNCHANGED <<balances, totalSupply, reserveVars, listVars, adminVars, today>>

-----------------------------------------------------------------------------
(* Compliance and administration.                                          *)

SetFrozen(account, status) ==
    /\ frozenAccounts' = [frozenAccounts EXCEPT ![account] = status]
    /\ UNCHANGED <<erc20Vars, reserveVars, blacklistedAccounts, adminVars, today>>

FreezeAccount(account)   == SetFrozen(account, TRUE)
UnfreezeAccount(account) == SetFrozen(account, FALSE)

SetBlacklisted(account, status) ==
    /\ blacklistedAccounts' = [blacklistedAccounts EXCEPT ![account] = status]
    /\ UNCHANGED <<erc20Vars, reserveVars, frozenAccounts, adminVars, today>>

BlacklistAccount(account)   == SetBlacklisted(account, TRUE)
UnblacklistAccount(account) == SetBlacklisted(account, FALSE)

SetReserveAccount(account) ==
    /\ reserveAccount' = account
    /\ UNCHANGED <<erc20Vars, reserveVars, listVars, limitVars, today>>

SetDailyLimits(mintLimit, burnLimit) ==
    /\ dailyMintLimit' = mintLimit
    /\ dailyBurnLimit' = burnLimit
    /\ UNCHANGED <<erc20Vars, reserveVars, listVars, reserveAccount, today>>

\* Midnight, as the block timestamps see it.
DayPasses ==
    /\ today < MaxDay
    /\ today' = today + 1
    /\ UNCHANGED <<erc20Vars, reserveVars, listVars, adminVars>>

-----------------------------------------------------------------------------
Issuance ==
    \/ \E to \in Account, amount \in Uint : Mint(to, amount)
    \/ \E recipients \in SUBSET Account, payout \in [Account -> Uint] :
          BatchMint(recipients, payout)
    \/ \E from \in Account, amount \in Uint : Burn(from, amount)

HolderCalls ==
    \/ \E sender, to \in Account, value \in Uint : Transfer(sender, to, value)
    \/ \E spender \in Spenders, from, to \in Account, value \in Uint :
          TransferFrom(spender, from, to, value)
    \/ \E holder \in Account, value \in Uint : BurnOwn(holder, value)
    \/ \E spender \in Spenders, from \in Account, value \in Uint :
          BurnFrom(spender, from, value)
    \/ \E owner \in Account, spender \in Spenders, value \in ApprovedAmounts :
          Approve(owner, spender, value)

Administration ==
    \/ \E account \in Regulated : FreezeAccount(account)
    \/ \E account \in Regulated : UnfreezeAccount(account)
    \/ \E account \in Regulated : BlacklistAccount(account)
    \/ \E account \in Regulated : UnblacklistAccount(account)
    \/ \E account \in ReserveAccounts : SetReserveAccount(account)
    \/ \E mintLimit, burnLimit \in Limits : SetDailyLimits(mintLimit, burnLimit)

Next == Issuance \/ HolderCalls \/ Administration \/ DayPasses

Spec == Init /\ [][Next]_vars

-----------------------------------------------------------------------------
(* Properties.                                                             *)

\* getReserveRatio "should always be >= 1.0": no order of mints, batches,
\* role burns and holder burns leaves a token without its reserve.
ReservesCoverSupply == totalReserves >= totalSupply

\* The "Insufficient reserves" check of burn never refuses a redemption: the
\* reserves cover whatever a single account can ask to redeem.
EveryBalanceRedeemable == \A a \in Account : balances[a] <= totalReserves

\* The daily counters are what the audit trail records for the day of the
\* last reset, never a day to come, and nothing is recorded for a later day.
CountersMatchAuditTrail ==
    /\ lastResetDay <= today
    /\ dailyMinted = mintHistory[lastResetDay]
    /\ dailyBurned = burnHistory[lastResetDay]
    /\ \A d \in Day : d > lastResetDay => mintHistory[d] = 0 /\ burnHistory[d] = 0

\* However mint, batchMint, burn and the reset interleave with midnight, what
\* the audit trail records for one calendar day is raised only up to the
\* limit in force at that moment.
DayWithinLimits ==
    [][\A d \in Day :
          /\ mintHistory'[d] > mintHistory[d] => mintHistory'[d] <= dailyMintLimit
          /\ burnHistory'[d] > burnHistory[d] => burnHistory'[d] <= dailyBurnLimit]_vars

\* Nothing moves the tokens of a frozen or blacklisted account: not a mint or
\* batch to it, a transfer by a spender, or a burn.
RestrictedBalancesFixed ==
    [][\A a \in Account : ~Unrestricted(a) => balances'[a] = balances[a]]_vars

\* The contract implements the abstract backed token.
Backed == INSTANCE BackedSupply WITH supply <- totalSupply, reserves <- totalReserves
ImplementsBackedSupply == Backed!Spec

=============================================================================
