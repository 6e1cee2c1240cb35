----------------------------- MODULE KSCTokenV2 -----------------------------
(***************************************************************************)
(* contracts/KSCTokenV2.sol: the KSC token with fee burning, staking,      *)
(* validators, token votes and capped emission, all in one contract whose  *)
(* own account (Self) holds every stake.                                   *)
(*                                                                         *)
(* One action per external function, each one transaction; a call that     *)
(* reverts is a disabled action.  A function that moves tokens more than   *)
(* once is one action with the net effect of its moves.  onlyOwner is not  *)
(* a guard: the owner may always call.  Percentages are in units of        *)
(* 1/BasisPoints, times in ticks of the block timestamp.  Fields that no   *)
(* function reads (rewards, totalRewards, lastRewardBlock, executed,       *)
(* gasFeeCollector, the texts) are left out.                               *)
(***************************************************************************)
EXTENDS ERC20

CONSTANTS Self,               \* address(this)
          Owner,              \* receives the initial supply
          InitialSupply,
          MinStake,           \* MIN_STAKE_AMOUNT
          MinValidatorStake,  \* MIN_VALIDATOR_STAKE
          VotingThreshold,    \* GOVERNANCE_VOTING_THRESHOLD
          BlockReward,
          GovernanceReward,
          VotingPeriod,
          Year,               \* YEAR_IN_SECONDS
          BasisPoints,        \* 10000
          BurnRates,          \* values of burnRate, the initial one included
          APYs,               \* values of stakingAPY
          Inflations,         \* values of maxAnnualInflation
          LockPeriods,        \* lock periods stakers choose
          FeePayers,          \* accounts charged by payGasFee, Self perhaps among them
          Fees,               \* gasAmount * gasPrice
          Spenders,           \* accounts that holders approve
          ApprovedAmounts,    \* allowances that holders grant
          MaxProposals,       \* bound on the proposals created
          MaxTime,            \* bound on the block timestamp
          MaxDrained          \* bound on what fees charged to Self take out of it

ASSUME KSCAssumption ==
    /\ Self \in Account /\ Owner \in Account \ {Self}
    /\ InitialSupply \in Uint
    /\ MinStake \in Uint \ {0} /\ MinValidatorStake \in Uint \ {0}
    /\ VotingThreshold \in Uint \ {0}
    /\ BlockReward \in Uint /\ GovernanceReward \in Uint
    /\ VotingPeriod \in Nat \ {0} /\ Year \in Nat \ {0} /\ BasisPoints \in Nat \ {0}
    /\ BurnRates \subseteq 0..BasisPoints
    /\ APYs \subseteq Nat /\ Inflations \subseteq Nat /\ LockPeriods \subseteq Nat
    /\ FeePayers \subseteq Account /\ Fees \subseteq Uint
    /\ Spenders \subseteq Account /\ ApprovedAmounts \subseteq Uint
    /\ MaxProposals \in Nat /\ MaxTime \in Nat /\ MaxDrained \in Nat

VARIABLES paused,
          burnRate,
          stakes,             \* stakes[a]: amount (0: no stake), lockPeriod, startTime
          totalStaked,
          stakingAPY,
          isValidator,        \* 1 for the members of validatorList, else 0
          validatorCount,     \* validatorList.length
          proposals,          \* proposals[id]: votesFor, votesAgainst, deadline
          hasVoted,           \* hasVoted[id]: the voters of the proposal
          proposalCount,
          maxAnnualInflation,
          currentYearEmission,
          currentYearStart,
          now,                \* block.timestamp
          drained             \* history: what fees charged to Self took out of it

stakeVars    == <<stakes, totalStaked, isValidator, validatorCount>>
voteVars     == <<proposals, hasVoted, proposalCount>>
emissionVars == <<currentYearEmission, currentYearStart>>
rateVars     == <<burnRate, stakingAPY, maxAnnualInflation>>
vars == <<erc20Vars, stakeVars, voteVars, emissionVars, rateVars, paused, now, drained>>

Holder   == Account \ {Self}
Proposal == 1..MaxProposals
Time     == 0..MaxTime

NoStake    == [amount |-> 0, lockPeriod |-> 0, startTime |-> 0]
NoProposal == [votesFor |-> 0, votesAgainst |-> 0, deadline |-> 0]

TypeOK ==
    /\ ERC20TypeOK
    /\ paused \in BOOLEAN
    /\ burnRate \in 0..BasisPoints
    /\ stakes \in [Account -> [amount : Uint, lockPeriod : Nat, startTime : Time]]
    /\ totalStaked \in Uint
    /\ stakingAPY \in Nat
    /\ isValidator \in [Account -> 0..1]
    /\ validatorCount \in Nat
    /\ proposals \in [Proposal -> [votesFor : Uint, votesAgainst : Uint, deadline : Nat]]
    /\ hasVoted \in [Proposal -> SUBSET Account]
    /\ proposalCount \in 0..MaxProposals
    /\ maxAnnualInflation \in Nat
    /\ currentYearEmission \in Uint
    /\ currentYearStart \in Time
    /\ now \in Time
    /\ drained \in Nat

\* The constructor, and the owner's first settings.
Init ==
    /\ balances = [a \in Account |-> IF a = Owner THEN InitialSupply ELSE 0]
    /\ totalSupply = InitialSupply
    /\ allowances = [o \in Account |-> [s \in Account |-> 0]]
    /\ paused = FALSE
    /\ burnRate \in BurnRates
    /\ stakes = [a \in Account |-> NoStake]
    /\ totalStaked = 0
    /\ stakingAPY \in APYs
    /\ isValidator = [a \in Account |-> 0]
    /\ validatorCount = 0
    /\ proposals = [p \in Proposal |-> NoProposal]
    /\ hasVoted = [p \in Proposal |-> {}]
    /\ proposalCount = 0
    /\ maxAnnualInflation \in Inflations
    /\ currentYearEmission = 0
    /\ currentYearStart = 0
    /\ now = 0
    /\ drained = 0

-----------------------------------------------------------------------------
(* Internal functions.                                                     *)

\* The _update override: ERC20Pausable refuses every move while paused.
Move(from, to, value) == ~paused /\ Update(from, to, value)

YearOver == now >= currentYearStart + Year

EmissionCap == (totalSupply * maxAnnualInflation) \div BasisPoints

\* Mutation: what was already emitted is not counted against the cap.
CanMintEachTime(amount) == YearOver \/ amount <= EmissionCap

CanMint(amount) == YearOver \/ currentYearEmission + amount <= EmissionCap

\* What a reward of this amount mints: nothing when the cap forbids it.
Granted(amount) == IF CanMint(amount) THEN amount ELSE 0

\* The checked addition reverts beyond a uint256.
Emit(amount) ==
    /\ currentYearEmission + amount <= MaxUint
    /\ currentYearEmission' = currentYearEmission + amount
    /\ UNCHANGED currentYearStart

CalculateStakingRewards(staker) ==
    (stakes[staker].amount * stakingAPY * (now - stakes[staker].startTime))
        \div (Year * BasisPoints)

-----------------------------------------------------------------------------
(* Fees.                                                                   *)

\* Mutation: the validators share the whole fee, its burnt part included.
PerValidatorOfAll(fee, burn) ==
    IF validatorCount = 0 THEN 0 ELSE fee \div validatorCount

\* What each validator gets of a fee, and all of them together.
PerValidator(fee, burn) ==
    IF validatorCount = 0 THEN 0 ELSE (fee - burn) \div validatorCount

Share(a, fee, burn) == PerValidator(fee, burn) * isValidator[a]

\* The fee goes to the contract, its burn part is destroyed, and the rest is
\* divided among the validators; what the division leaves stays in Self.  The
\* payer may be the contract, which then pays out of what it holds.
PayGasFee(payer, fee) ==
    LET burn == (fee * burnRate) \div BasisPoints
        paid == PerValidator(fee, burn) * validatorCount
    IN  /\ ~paused
        /\ balances[payer] >= fee
        /\ totalSupply' = totalSupply - burn
        /\ balances' =
             [a \in Account |->
                balances[a] - AtEnd(a, payer, fee)
                            + AtEnd(a, Self, fee - burn - paid)
                            + Share(a, fee, burn)]
        /\ drained' = drained + (IF payer = Self THEN burn + paid ELSE 0)
        /\ drained' <= MaxDrained
        /\ UNCHANGED <<allowances, stakeVars, voteVars, emissionVars, rateVars,
                       paused, now>>

SetBurnRate(rate) ==
    /\ burnRate' = rate
    /\ UNCHANGED <<erc20Vars, stakeVars, voteVars, emissionVars, stakingAPY,
                   maxAnnualInflation, paused, now, drained>>

-----------------------------------------------------------------------------
(* Staking and validators.                                                 *)

Stake(sender, amount, lockPeriod) ==
    /\ amount >= MinStake
    /\ stakes[sender].amount = 0
    /\ totalStaked + amount <= MaxUint
    /\ Move(sender, Self, amount)
    /\ stakes' = [stakes EXCEPT ![sender] =
                    [amount |-> amount, lockPeriod |-> lockPeriod, startTime |-> now]]
    /\ totalStaked' = totalStaked + amount
    /\ UNCHANGED <<allowances, isValidator, validatorCount, voteVars, emissionVars,
                   rateVars, paused, now, drained>>

\* Mutation: the total keeps a stake that was returned.
UnstakeKeepsTotal(sender) ==
    LET amount == stakes[sender].amount
        reward == Granted(CalculateStakingRewards(sender))
    IN  /\ amount > 0
        /\ now >= stakes[sender].startTime + stakes[sender].lockPeriod
        /\ ~paused
        /\ totalSupply + reward <= MaxUint
        /\ balances[Self] >= amount
        /\ totalSupply' = totalSupply + reward
        /\ balances' = [a \in Account |-> balances[a] - AtEnd(a, Self, amount)
                                           + AtEnd(a, sender, amount + reward)]
        /\ Emit(reward)
        /\ stakes' = [stakes EXCEPT ![sender] = NoStake]
        /\ UNCHANGED <<allowances, totalStaked, isValidator, validatorCount, voteVars,
                       rateVars, paused, now, drained>>

\* Returns the stake, and mints the reward if the cap allows it.
Unstake(sender) ==
    LET amount == stakes[sender].amount
        reward == Granted(CalculateStakingRewards(sender))
    IN  /\ amount > 0
        /\ now >= stakes[sender].startTime + stakes[sender].lockPeriod
        /\ ~paused
        /\ totalSupply + reward <= MaxUint
        /\ balances[Self] >= amount
        /\ totalSupply' = totalSupply + reward
        /\ balances' = [a \in Account |-> balances[a] - AtEnd(a, Self, amount)
                                           + AtEnd(a, sender, amount + reward)]
        /\ Emit(reward)
        /\ totalStaked' = totalStaked - amount
        /\ stakes' = [stakes EXCEPT ![sender] = NoStake]
        /\ UNCHANGED <<allowances, isValidator, validatorCount, voteVars, rateVars,
                       paused, now, drained>>

SetStakingAPY(apy) ==
    /\ stakingAPY' = apy
    /\ UNCHANGED <<erc20Vars, stakeVars, voteVars, emissionVars, burnRate,
                   maxAnnualInflation, paused, now, drained>>

\* A validator's stake is never returned: nothing removes a validator.
RegisterValidator(sender) ==
    /\ isValidator[sender] = 0
    /\ totalStaked + MinValidatorStake <= MaxUint
    /\ Move(sender, Self, MinValidatorStake)
    /\ isValidator' = [isValidator EXCEPT ![sender] = 1]
    /\ validatorCount' = validatorCount + 1
    /\ totalStaked' = totalStaked + MinValidatorStake
    /\ UNCHANGED <<allowances, stakes, voteVars, emissionVars, rateVars, paused, now, drained>>

\* Mutation: the block reward is not counted as emission.
DistributeUncounted(validator) ==
    /\ isValidator[validator] = 1
    /\ CanMint(BlockReward)
    /\ Move(ZeroAddress, validator, BlockReward)
    /\ UNCHANGED <<allowances, stakeVars, voteVars, emissionVars, rateVars, paused, now, drained>>

\* Beyond the cap the call succeeds and rewards nobody.
DistributeValidatorReward(validator) ==
    /\ isValidator[validator] = 1
    /\ CanMint(BlockReward)
    /\ Move(ZeroAddress, validator, BlockReward)
    /\ Emit(BlockReward)
    /\ UNCHANGED <<allowances, stakeVars, voteVars, rateVars, paused, now, drained>>

-----------------------------------------------------------------------------
(* Governance.                                                             *)

CreateProposal(sender) ==
    /\ proposalCount < MaxProposals
    /\ balances[sender] >= VotingThreshold
    /\ proposalCount' = proposalCount + 1
    /\ proposals' = [proposals EXCEPT ![proposalCount + 1] =
                       [votesFor |-> 0, votesAgainst |-> 0, deadline |-> now + VotingPeriod]]
    /\ UNCHANGED <<erc20Vars, stakeVars, hasVoted, emissionVars, rateVars, paused, now, drained>>

\* The vote weighs what the voter holds at that moment.
CastVote(voter, p, support) ==
    LET power    == balances[voter]
        proposal == proposals[p]
    IN  /\ proposal.deadline > 0
        /\ now < proposal.deadline
        /\ voter \notin hasVoted[p]
        /\ power >= VotingThreshold
        /\ \/ /\ support
              /\ proposal.votesFor + power <= MaxUint
              /\ proposals' = [proposals EXCEPT ![p].votesFor = @ + power]
           \/ /\ ~support
              /\ proposal.votesAgainst + power <= MaxUint
              /\ proposals' = [proposals EXCEPT ![p].votesAgainst = @ + power]
        /\ hasVoted' = [hasVoted EXCEPT ![p] = @ \cup {voter}]

\* The reward of a vote, dropped when the cap forbids it.
RewardVoter(voter) ==
    \/ /\ CanMint(GovernanceReward)
       /\ Move(ZeroAddress, voter, GovernanceReward)
       /\ Emit(GovernanceReward)
    \/ /\ ~CanMint(GovernanceReward)
       /\ UNCHANGED <<balances, totalSupply, emissionVars>>

Vote(voter, p, support) ==
    /\ CastVote(voter, p, support)
    /\ RewardVoter(voter)
    /\ UNCHANGED <<allowances, stakeVars, proposalCount, rateVars, paused, now, drained>>

-----------------------------------------------------------------------------
(* Emission and administration.                                            *)

Mint(to, amount) ==
    /\ CanMint(amount)
    /\ Move(ZeroAddress, to, amount)
    /\ Emit(amount)
    /\ UNCHANGED <<allowances, stakeVars, voteVars, rateVars, paused, now, drained>>

ResetYearlyEmission ==
    /\ YearOver
    /\ currentYearStart' = now
    /\ currentYearEmission' = 0
    /\ UNCHANGED <<erc20Vars, stakeVars, voteVars, rateVars, paused, now, drained>>

SetMaxAnnualInflation(inflation) ==
    /\ maxAnnualInflation' = inflation
    /\ UNCHANGED <<erc20Vars, stakeVars, voteVars, emissionVars, burnRate, stakingAPY,
                   paused, now, drained>>

SetPaused(status) ==
    /\ paused = ~status
    /\ paused' = status
    /\ UNCHANGED <<erc20Vars, stakeVars, voteVars, emissionVars, rateVars, now, drained>>

Pause   == SetPaused(TRUE)
Unpause == SetPaused(FALSE)

\* Blocks are produced.
Tick ==
    /\ now < MaxTime
    /\ now' = now + 1
    /\ UNCHANGED <<erc20Vars, stakeVars, voteVars, emissionVars, rateVars, paused, drained>>

-----------------------------------------------------------------------------
(* The entry points inherited from ERC20 and ERC20Burnable.  The contract  *)
(* itself calls none of them.                                              *)

otherVars == <<stakeVars, voteVars, emissionVars, rateVars, paused, now, drained>>

Transfer(sender, to, value) ==
    /\ Move(sender, to, value)
    /\ UNCHANGED <<allowances, otherVars>>

TransferFrom(spender, from, to, value) ==
    /\ SpendAllowance(from, spender, value)
    /\ Move(from, to, value)
    /\ UNCHANGED otherVars

BurnOwn(holder, value) ==
    /\ Move(holder, ZeroAddress, value)
    /\ UNCHANGED <<allowances, otherVars>>

BurnFrom(spender, from, value) ==
    /\ SpendAllowance(from, spender, value)
    /\ Move(from, ZeroAddress, value)
    /\ UNCHANGED otherVars

Approve(owner, spender, value) ==
    /\ SetAllowance(owner, spender, value)
    /\ UNCHANGED <<balances, totalSupply, otherVars>>

-----------------------------------------------------------------------------
Staking ==
    \/ \E sender \in Holder, amount \in Uint, lockPeriod \in LockPeriods :
          Stake(sender, amount, lockPeriod)
    \/ \E sender \in Holder : Unstake(sender)
    \/ \E sender \in Holder : RegisterValidator(sender)

Governance ==
    \/ \E sender \in Holder : CreateProposal(sender)
    \/ \E voter \in Holder, p \in Proposal, support \in BOOLEAN : Vote(voter, p, support)

TokenCalls ==
    \/ \E sender \in Holder, to \in Account, value \in Uint : Transfer(sender, to, value)
    \/ \E spender \in Spenders, from \in Holder, to \in Account, value \in Uint :
          TransferFrom(spender, from, to, value)
    \/ \E holder \in Holder, value \in Uint : BurnOwn(holder, value)
    \/ \E spender \in Spenders, from \in Holder, value \in Uint :
          BurnFrom(spender, from, value)
    \/ \E owner \in Holder, spender \in Spenders, value \in ApprovedAmounts :
          Approve(owner, spender, value)

OwnerCalls ==
    \/ \E payer \in FeePayers, fee \in Fees : PayGasFee(payer, fee)
    \/ \E rate \in BurnRates : SetBurnRate(rate)
    \/ \E apy \in APYs : SetStakingAPY(apy)
    \/ \E validator \in Holder : DistributeValidatorReward(validator)
    \/ \E to \in Account, amount \in Uint : Mint(to, amount)
    \/ ResetYearlyEmission
    \/ \E inflation \in Inflations : SetMaxAnnualInflation(inflation)
    \/ Pause
    \/ Unpause

Next == Staking \/ Governance \/ TokenCalls \/ OwnerCalls \/ Tick

Spec == Init /\ [][Next]_vars

-----------------------------------------------------------------------------
(* Properties.                                                             *)

\* What the contract holds for an account: its stake and its validator stake.
Locked == [a \in Account |-> stakes[a].amount + MinValidatorStake * isValidator[a]]

\* totalStaked is the sum of all stakes and validator stakes.
StakedIsSumOfStakes == SumsTo(Locked, MaxAddress, totalStaked)

\* validatorList.length is the number of validators.
CountIsNumberOfValidators == SumsTo(isValidator, MaxAddress, validatorCount)

\* The contract holds every stake, but for what fees charged to its own account
\* took: those burn and pay out of the stakes, and nothing else ever does,
\* neither the fees of others, whose division is rounded, nor rewards or burns.
StakesCovered == balances[Self] + drained >= totalStaked

\* Every token issued (mint, block reward, stake reward, vote reward) is
\* counted in the emission of the year: the supply never grows by more.
EmissionAccountsForIssue ==
    [][totalSupply' > totalSupply
         => totalSupply' - totalSupply = currentYearEmission' - currentYearEmission]_vars

\* During the year no path that issues tokens brings the emission of the year
\* above the cap in force.
EmissionCappedInYear ==
    [][~YearOver /\ currentYearEmission' > currentYearEmission
         => currentYearEmission' <= EmissionCap]_vars

\* mint is "controlled by inflation" (line 384): tokens are issued only
\* within the annual cap, in the first year and in every later one.
EmissionCapped ==
    [][currentYearEmission' > currentYearEmission
         => currentYearEmission' <= EmissionCap]_vars

=============================================================================
