-------------------------- MODULE KSCTokenV2Proofs --------------------------
(***************************************************************************)
(* Theorems about KSCTokenV2, for any accounts, uint width, rates, rewards *)
(* and times, whichever account is charged a fee.  KSCInvariant is         *)
(* inductive: that the stakes are covered needs fees to be shared out of   *)
(* what is left of them, that balances stay in range needs the sums, and   *)
(* that rewards are not negative needs stakes to have started.             *)
(***************************************************************************)
EXTENDS KSCTokenV2, ERC20Theorems

\* No stake is of a later block.
StakesStarted == \A a \in Account : stakes[a].startTime <= now

KSCInvariant ==
    /\ TypeOK
    /\ StakesStarted
    /\ SupplyIsSumOfBalances
    /\ StakedIsSumOfStakes
    /\ CountIsNumberOfValidators
    /\ StakesCovered

\* The entries of Locked, and their type.
LEMMA LockedType ==
    ASSUME TypeOK
    PROVE  /\ Locked \in [1..MaxAddress -> Nat]
           /\ \A a \in 1..MaxAddress :
                 Locked[a] = stakes[a].amount + MinValidatorStake * isValidator[a]
<1>1. ASSUME NEW a \in Account
      PROVE  stakes[a].amount + MinValidatorStake * isValidator[a] \in Nat
  <2>1. stakes[a].amount \in Nat /\ isValidator[a] \in 0..1 /\ MinValidatorStake \in Nat
    BY ERC20Assumption, KSCAssumption DEF TypeOK, Uint
  <2>2. isValidator[a] = 0 \/ isValidator[a] = 1
    BY <2>1
  <2>. QED
    BY <2>1, <2>2
<1>. QED
  BY <1>1 DEF Locked, Account

LEMMA InitEstablishes == Init => KSCInvariant
<1>. SUFFICES ASSUME Init PROVE KSCInvariant
  OBVIOUS
<1>. USE ERC20Assumption, KSCAssumption
<1>1. TypeOK
  <2>1. 0 \in Uint /\ 0 \in Time /\ InitialSupply \in Uint
    BY DEF Uint, Time
  <2>2. ERC20TypeOK
    BY <2>1 DEF Init, ERC20TypeOK
  <2>3. stakes \in [Account -> [amount : Uint, lockPeriod : Nat, startTime : Time]]
    BY <2>1 DEF Init, NoStake
  <2>4. proposals \in [Proposal -> [votesFor : Uint, votesAgainst : Uint, deadline : Nat]]
    BY <2>1 DEF Init, NoProposal
  <2>5. /\ isValidator \in [Account -> 0..1] /\ validatorCount \in Nat
        /\ hasVoted \in [Proposal -> SUBSET Account] /\ proposalCount \in 0..MaxProposals
    BY DEF Init
  <2>6. /\ paused \in BOOLEAN /\ burnRate \in 0..BasisPoints /\ stakingAPY \in Nat
        /\ maxAnnualInflation \in Nat
    BY DEF Init
  <2>7. /\ totalStaked \in Uint /\ currentYearEmission \in Uint
        /\ currentYearStart \in Time /\ now \in Time
    BY <2>1 DEF Init
  <2>8. drained \in Nat
    BY DEF Init
  <2>. QED
    BY <2>2, <2>3, <2>4, <2>5, <2>6, <2>7, <2>8 DEF TypeOK
<1>2. StakesStarted
  BY DEF Init, StakesStarted, NoStake
<1>3. SupplyIsSumOfBalances
  <2> DEFINE zero == [a \in 1..MaxAddress |-> 0]
  <2>1. SumsTo(zero, MaxAddress, 0)
    BY SumOfZeros
  <2>2. /\ EntriesMoved(zero, balances, MaxAddress, 0, Owner, InitialSupply)
        /\ totalSupply = TotalMoved(0, 0, Owner, InitialSupply)
    BY DEF Init, EntriesMoved, TotalMoved, Account, Uint
  <2>3. zero \in [1..MaxAddress -> Nat] /\ Owner \in 0..MaxAddress /\ InitialSupply \in Nat
    BY DEF Account, Uint
  <2>. HIDE DEF zero
  <2>. QED
    BY <2>1, <2>2, <2>3, SumAfterMove DEF SupplyIsSumOfBalances
<1>4. StakedIsSumOfStakes
  <2>1. \A a \in 1..MaxAddress : Locked[a] = 0
    BY DEF Init, Locked, NoStake, Account, Uint
  <2>. QED
    BY <2>1, SumOfZeros DEF StakedIsSumOfStakes, Init
<1>5. CountIsNumberOfValidators
  <2>1. \A a \in 1..MaxAddress : isValidator[a] = 0
    BY DEF Init, Account
  <2>. QED
    BY <2>1, SumOfZeros DEF CountIsNumberOfValidators, Init
<1>6. StakesCovered
  BY DEF Init, StakesCovered
<1>. QED
  BY <1>1, <1>2, <1>3, <1>4, <1>5, <1>6 DEF KSCInvariant

-----------------------------------------------------------------------------
(* Steps that leave the stakes alone.                                      *)

\* Such a step keeps what is said of the stakes, if it takes nothing from the
\* contract's account but what it adds to drained.
LEMMA StakeFrame ==
    ASSUME KSCInvariant, UNCHANGED stakeVars, now \in Int, now' \in Int, now' >= now,
           balances[Self] \in Int, balances'[Self] \in Int, drained' \in Int,
           balances'[Self] + drained' >= balances[Self] + drained
    PROVE  StakesStarted' /\ StakedIsSumOfStakes' /\ CountIsNumberOfValidators' /\ StakesCovered'
<1>. USE DEF KSCInvariant, stakeVars
<1>1. StakesStarted'
  BY ERC20Assumption, KSCAssumption DEF StakesStarted, TypeOK, Time
<1>2. StakedIsSumOfStakes' /\ CountIsNumberOfValidators'
  BY DEF StakedIsSumOfStakes, CountIsNumberOfValidators, Locked
<1>3. totalStaked \in Int /\ drained \in Int
  BY ERC20Assumption DEF TypeOK, Uint
<1>4. StakesCovered'
  BY <1>3 DEF StakesCovered
<1>. QED
  BY <1>1, <1>2, <1>4

\* A move of tokens out of an account other than the contract's, or out of
\* none, with whatever is emitted and voted on the way.
LEMMA MovePreserves ==
    ASSUME KSCInvariant, NEW from \in Address, from # Self, NEW to \in Address,
           NEW value \in Uint, Update(from, to, value),
           allowances' \in [Account -> [Account -> Uint]],
           currentYearEmission' \in Uint,
           proposals' \in [Proposal -> [votesFor : Uint, votesAgainst : Uint, deadline : Nat]],
           hasVoted' \in [Proposal -> SUBSET Account],
           UNCHANGED <<stakeVars, proposalCount, currentYearStart, rateVars, paused, now,
                       drained>>
    PROVE  KSCInvariant'
<1>. USE DEF KSCInvariant
<1>1. balances' \in [Account -> Uint] /\ totalSupply' \in Uint /\ SupplyIsSumOfBalances'
  BY UpdateSound DEF TypeOK
<1>2. /\ balances[Self] \in Int /\ balances'[Self] \in Int /\ now \in Int
      /\ balances'[Self] >= balances[Self]
  BY <1>1, ERC20Assumption, KSCAssumption
     DEF TypeOK, ERC20TypeOK, Update, Moved, AtEnd, Uint, Time
<1>3. StakesStarted' /\ StakedIsSumOfStakes' /\ CountIsNumberOfValidators' /\ StakesCovered'
  <2>1. drained \in Nat /\ drained' = drained
    BY DEF TypeOK
  <2>. QED
    BY <1>2, <2>1, StakeFrame
<1>4. TypeOK'
  BY <1>1 DEF TypeOK, ERC20TypeOK, stakeVars, rateVars
<1>. QED
  BY <1>1, <1>3, <1>4

\* A step that moves no tokens and changes no stake.
LEMMA QuietStepPreserves ==
    ASSUME KSCInvariant, TypeOK', now' >= now,
           UNCHANGED <<balances, totalSupply, stakeVars, drained>>
    PROVE  KSCInvariant'
<1>. USE DEF KSCInvariant
<1>1. balances[Self] \in Int /\ balances'[Self] \in Int /\ now \in Int /\ now' \in Int
      /\ drained' \in Int /\ balances'[Self] + drained' >= balances[Self] + drained
  BY ERC20Assumption, KSCAssumption DEF TypeOK, ERC20TypeOK, Uint, Time
<1>2. SupplyIsSumOfBalances'
  BY DEF SupplyIsSumOfBalances
<1>. QED
  BY <1>1, <1>2, StakeFrame

-----------------------------------------------------------------------------
(* Steps that change the stakes.                                           *)

\* A stake moves to the contract's account and is added to the total.
LEMMA StakePreserves ==
    ASSUME KSCInvariant, NEW sender \in Holder, NEW amount \in Uint,
           NEW lockPeriod \in LockPeriods, Stake(sender, amount, lockPeriod)
    PROVE  KSCInvariant'
<1>. USE ERC20Assumption, KSCAssumption DEF KSCInvariant
<1>1. /\ sender \in Account /\ sender # Self /\ sender # ZeroAddress
      /\ sender \in Address /\ Self \in Address /\ Self \in Account /\ Self # ZeroAddress
  BY DEF Holder, Account, Address, ZeroAddress
<1>2. Update(sender, Self, amount)
  BY DEF Stake, Move
<1>3. balances' \in [Account -> Uint] /\ totalSupply' \in Uint /\ SupplyIsSumOfBalances'
  BY <1>1, <1>2, UpdateSound DEF TypeOK
<1>4. balances'[Self] = balances[Self] + amount
  BY <1>1, <1>2 DEF Update, Moved, AtEnd, TypeOK, ERC20TypeOK, Uint
<1>5. /\ totalStaked' = totalStaked + amount /\ totalStaked \in Nat /\ amount \in Nat
      /\ drained' = drained /\ drained \in Nat
  BY DEF Stake, TypeOK, Uint
<1>6. StakesCovered'
  BY <1>1, <1>4, <1>5 DEF StakesCovered, TypeOK, ERC20TypeOK, Uint
<1>7. totalStaked' \in Uint
  BY <1>5 DEF Stake, Uint
<1>8. stakes' \in [Account -> [amount : Uint, lockPeriod : Nat, startTime : Time]]
  BY <1>1 DEF Stake, TypeOK
<1>9. TypeOK'
  BY <1>3, <1>7, <1>8 DEF Stake, TypeOK, ERC20TypeOK, voteVars, emissionVars, rateVars
<1>10. StakesStarted'
  BY <1>1 DEF Stake, StakesStarted, TypeOK, Time
<1>11. StakedIsSumOfStakes'
  <2>1. EntriesMoved(Locked, Locked', MaxAddress, 0, sender, amount)
    <3>1. ASSUME NEW a \in Account
          PROVE  stakes'[a].amount = stakes[a].amount + (IF a = sender THEN amount ELSE 0)
      BY <1>1, <1>5 DEF Stake, TypeOK, Uint
    <3>2. ASSUME NEW a \in Account
          PROVE  Locked'[a] = Locked[a] + (IF a = sender THEN amount ELSE 0)
      <4>1. Locked[a] = stakes[a].amount + MinValidatorStake * isValidator[a]
        BY DEF Locked
      <4>2. Locked'[a] = stakes'[a].amount + MinValidatorStake * isValidator[a]
        BY DEF Locked, Stake
      <4>3. Locked[a] \in Nat /\ stakes[a].amount \in Nat
        BY LockedType DEF Account, TypeOK, Uint
      <4>4. MinValidatorStake * isValidator[a] \in Nat
        BY DEF TypeOK, Uint
      <4>. QED
        BY <1>5, <3>1, <4>1, <4>2, <4>3, <4>4
    <3>3. \A a \in 1..MaxAddress : Locked[a] \in Nat /\ a # 0
      BY LockedType
    <3>. QED
      BY <3>2, <3>3 DEF EntriesMoved, Account
  <2>2. totalStaked' = TotalMoved(totalStaked, 0, sender, amount)
    BY <1>1, <1>5 DEF TotalMoved, ZeroAddress
  <2>3. /\ Locked \in [1..MaxAddress -> Nat] /\ SumsTo(Locked, MaxAddress, totalStaked)
        /\ 0 \in 0..MaxAddress /\ sender \in 0..MaxAddress /\ MaxAddress \in Nat
    BY <1>1, LockedType DEF StakedIsSumOfStakes, Address
  <2>. QED
    BY <1>5, <2>1, <2>2, <2>3, SumAfterMove DEF StakedIsSumOfStakes
<1>12. CountIsNumberOfValidators'
  BY DEF Stake, CountIsNumberOfValidators
<1>. QED
  BY <1>3, <1>6, <1>9, <1>10, <1>11, <1>12

\* A validator's stake, of the fixed amount, does the same.
LEMMA RegisterPreserves ==
    ASSUME KSCInvariant, NEW sender \in Holder, RegisterValidator(sender)
    PROVE  KSCInvariant'
<1>. USE ERC20Assumption, KSCAssumption DEF KSCInvariant
<1> DEFINE amount == MinValidatorStake
<1>1. /\ sender \in Account /\ sender # Self /\ sender # ZeroAddress
      /\ sender \in Address /\ Self \in Address /\ Self \in Account /\ Self # ZeroAddress
      /\ amount \in Uint
  BY DEF Holder, Account, Address, ZeroAddress
<1>2. Update(sender, Self, amount)
  BY DEF RegisterValidator, Move
<1>3. balances' \in [Account -> Uint] /\ totalSupply' \in Uint /\ SupplyIsSumOfBalances'
  BY <1>1, <1>2, UpdateSound DEF TypeOK
<1>4. balances'[Self] = balances[Self] + amount
  BY <1>1, <1>2 DEF Update, Moved, AtEnd, TypeOK, ERC20TypeOK, Uint
<1>5. /\ totalStaked' = totalStaked + amount /\ totalStaked \in Nat /\ amount \in Nat
      /\ drained' = drained /\ drained \in Nat
  BY DEF RegisterValidator, TypeOK, Uint
<1>6. StakesCovered'
  BY <1>1, <1>4, <1>5 DEF StakesCovered, TypeOK, ERC20TypeOK, Uint
<1>7. totalStaked' \in Uint
  BY <1>5 DEF RegisterValidator, Uint
<1>8. isValidator' \in [Account -> 0..1] /\ validatorCount' \in Nat
  BY <1>1 DEF RegisterValidator, TypeOK
<1>9. TypeOK'
  BY <1>3, <1>7, <1>8
     DEF RegisterValidator, TypeOK, ERC20TypeOK, voteVars, emissionVars, rateVars
<1>10. StakesStarted'
  BY DEF RegisterValidator, StakesStarted
<1>11. \A a \in Account : isValidator'[a] = isValidator[a] + (IF a = sender THEN 1 ELSE 0)
  BY <1>1 DEF RegisterValidator, TypeOK
<1>12. sender \in 0..MaxAddress /\ 0 \in 0..MaxAddress /\ sender # 0 /\ MaxAddress \in Nat
  BY <1>1 DEF Address, ZeroAddress
<1>13. StakedIsSumOfStakes'
  <2>1. EntriesMoved(Locked, Locked', MaxAddress, 0, sender, amount)
    <3>1. ASSUME NEW a \in Account
          PROVE  Locked'[a] = Locked[a] + (IF a = sender THEN amount ELSE 0)
      <4>1. Locked[a] = stakes[a].amount + amount * isValidator[a]
        BY DEF Locked
      <4>2. Locked'[a] = stakes[a].amount + amount * isValidator'[a]
        BY DEF Locked, RegisterValidator
      <4>3. stakes[a].amount \in Nat /\ isValidator[a] \in Nat
        BY DEF TypeOK, Uint
      <4>4. CASE a = sender
        <5>1. isValidator[a] = 0 /\ isValidator'[a] = 1
          BY <1>11, <4>4 DEF RegisterValidator
        <5>. QED
          BY <1>5, <4>1, <4>2, <4>3, <4>4, <5>1
      <4>5. CASE a # sender
        <5>1. isValidator'[a] = isValidator[a]
          BY <1>11, <4>3, <4>5
        <5>2. amount * isValidator[a] \in Nat
          BY <1>5, <4>3
        <5>. QED
          BY <4>1, <4>2, <4>3, <4>5, <5>1, <5>2
      <4>. QED
        BY <4>4, <4>5
    <3>2. \A a \in 1..MaxAddress : Locked[a] \in Nat /\ a # 0
      BY LockedType
    <3>. HIDE DEF amount
    <3>. QED
      BY <3>1, <3>2 DEF EntriesMoved, Account
  <2>2. totalStaked' = TotalMoved(totalStaked, 0, sender, amount)
    BY <1>5, <1>12 DEF TotalMoved
  <2>3. Locked \in [1..MaxAddress -> Nat] /\ SumsTo(Locked, MaxAddress, totalStaked)
    BY LockedType DEF StakedIsSumOfStakes
  <2>. HIDE DEF amount
  <2>. QED
    BY <1>5, <1>12, <2>1, <2>2, <2>3, SumAfterMove DEF StakedIsSumOfStakes
<1>14. CountIsNumberOfValidators'
  <2>0. \A a \in 1..MaxAddress : isValidator[a] \in 0..1 /\ a # 0
    BY DEF TypeOK, Account
  <2>1. EntriesMoved(isValidator, isValidator', MaxAddress, 0, sender, 1)
    BY <1>11, <2>0 DEF EntriesMoved, Account
  <2>2. validatorCount' = TotalMoved(validatorCount, 0, sender, 1) /\ validatorCount \in Nat
    BY <1>12 DEF RegisterValidator, TotalMoved, TypeOK
  <2>3. isValidator \in [1..MaxAddress -> Nat]
    <3>1. isValidator \in [1..MaxAddress -> 0..1] /\ 0..1 \subseteq Nat
      BY DEF TypeOK, Account
    <3>. QED
      BY <2>0, <3>1
  <2>. QED
    BY <1>12, <2>1, <2>2, <2>3, SumAfterMove DEF CountIsNumberOfValidators
<1>. QED
  BY <1>3, <1>6, <1>9, <1>10, <1>13, <1>14

\* Division, as the EVM does it: what is shared out is no more than there is.
LEMMA DivisionBound ==
    ASSUME NEW x \in Nat, NEW d \in Nat, d > 0
    PROVE  x \div d \in Nat /\ (x \div d) * d <= x
OBVIOUS

\* A reward is no negative amount.
LEMMA RewardType ==
    ASSUME KSCInvariant, NEW sender \in Account
    PROVE  Granted(CalculateStakingRewards(sender)) \in Nat
<1>. USE ERC20Assumption, KSCAssumption
<1>1. /\ stakes[sender].amount \in Nat /\ stakingAPY \in Nat
      /\ now - stakes[sender].startTime \in Nat
  BY DEF KSCInvariant, TypeOK, StakesStarted, Uint, Time
<1>2. stakes[sender].amount * stakingAPY \in Nat
  BY <1>1
<1>3. stakes[sender].amount * stakingAPY * (now - stakes[sender].startTime) \in Nat
  BY <1>1, <1>2
<1>4. Year * BasisPoints \in Nat /\ Year * BasisPoints > 0
  OBVIOUS
<1>5. CalculateStakingRewards(sender) \in Nat
  BY <1>3, <1>4, DivisionBound DEF CalculateStakingRewards
<1>. QED
  BY <1>5 DEF Granted

\* A stake returns to its owner, with a reward that is minted.
LEMMA UnstakePreserves ==
    ASSUME KSCInvariant, NEW sender \in Holder, Unstake(sender)
    PROVE  KSCInvariant'
<1>. USE ERC20Assumption, KSCAssumption DEF KSCInvariant
<1> DEFINE amount == stakes[sender].amount
           reward == Granted(CalculateStakingRewards(sender))
           n == MaxAddress
<1>1. /\ sender \in Account /\ sender # Self /\ sender \in 1..n /\ sender \in 0..n
      /\ Self \in Account /\ Self \in 1..n /\ Self \in 0..n
      /\ 0 \in 0..n /\ n \in Nat /\ sender # 0 /\ Self # 0
  BY DEF Holder, Account
<1>2. reward \in Nat /\ amount \in Nat
  BY <1>1, RewardType DEF TypeOK, Uint
<1>3. /\ totalSupply + reward <= MaxUint /\ balances[Self] >= amount
      /\ totalSupply' = totalSupply + reward
      /\ balances' = [a \in Account |-> balances[a] - AtEnd(a, Self, amount)
                                         + AtEnd(a, sender, amount + reward)]
      /\ currentYearEmission + reward <= MaxUint
      /\ currentYearEmission' = currentYearEmission + reward
      /\ totalStaked' = totalStaked - amount
      /\ stakes' = [stakes EXCEPT ![sender] = NoStake]
      /\ UNCHANGED <<allowances, isValidator, validatorCount, voteVars, currentYearStart,
                     rateVars, paused, now, drained>>
  BY DEF Unstake, Emit
<1>4. /\ balances \in [1..n -> Nat] /\ totalSupply \in Nat /\ totalStaked \in Nat
      /\ currentYearEmission \in Nat /\ MaxUint \in Nat
  BY DEF TypeOK, ERC20TypeOK, Uint, Account
<1>. HIDE DEF reward, amount
<1>5. totalSupply' \in Uint /\ currentYearEmission' \in Uint
  BY <1>2, <1>3, <1>4 DEF Uint
<1>6. balances' \in [1..n -> Nat] /\ SumsTo(balances', n, totalSupply')
  <2> DEFINE back == [a \in 1..n |-> balances[a] - AtEnd(a, Self, amount)
                                                 + AtEnd(a, sender, amount)]
  <2>1. back \in [1..n -> Nat]
    BY <1>2, <1>3, <1>4 DEF AtEnd
  <2>2. SumsTo(back, n, totalSupply)
    <3>1. EntriesMoved(balances, back, n, Self, sender, amount)
      BY DEF EntriesMoved, AtEnd
    <3>2. totalSupply = TotalMoved(totalSupply, Self, sender, amount)
      BY <1>1, <1>4 DEF TotalMoved
    <3>3. SumsTo(balances, n, totalSupply)
      BY DEF SupplyIsSumOfBalances
    <3>. HIDE DEF back, n
    <3>. QED
      BY <1>1, <1>2, <1>3, <1>4, <3>1, <3>2, <3>3, SumAfterMove
  <2>3. EntriesMoved(back, balances', n, 0, sender, reward)
    <3>1. ASSUME NEW a \in 1..n
          PROVE  balances'[a] = back[a] + (IF a = sender THEN reward ELSE 0)
      BY <1>1, <1>2, <1>3, <1>4 DEF AtEnd, Account
    <3>2. \A a \in 1..n : back[a] \in Nat /\ a # 0
      BY <2>1
    <3>. HIDE DEF back
    <3>. QED
      BY <3>1, <3>2 DEF EntriesMoved
  <2>4. totalSupply' = TotalMoved(totalSupply, 0, sender, reward)
    BY <1>1, <1>2, <1>3, <1>4 DEF TotalMoved
  <2>5. balances' \in [1..n -> Nat]
    <3>1. balances' = [a \in 1..n |-> balances'[a]]
      BY <1>3 DEF Account
    <3>2. ASSUME NEW a \in 1..n PROVE balances'[a] \in Nat
      BY <1>1, <1>2, <1>3, <1>4 DEF AtEnd, Account
    <3>. QED
      BY <3>1, <3>2
  <2>. HIDE DEF back, n
  <2>. QED
    BY <1>1, <1>2, <1>4, <2>1, <2>2, <2>3, <2>4, <2>5, SumAfterMove
<1>7. balances' \in [Account -> Uint]
  <2>1. totalSupply' \in Nat
    BY <1>5 DEF Uint
  <2>2. ASSUME NEW a \in 1..n PROVE balances'[a] <= totalSupply'
    BY <1>1, <1>6, <2>1, TermBound
  <2>. QED
    BY <1>5, <1>6, <2>1, <2>2 DEF Account, Uint
<1>8. Locked[sender] >= amount /\ amount <= totalStaked
  <2>1. Locked[sender] = amount + MinValidatorStake * isValidator[sender]
    BY <1>1 DEF Locked, amount
  <2>2. MinValidatorStake * isValidator[sender] \in Nat
    <3>1. isValidator[sender] = 0 \/ isValidator[sender] = 1
      BY <1>1 DEF TypeOK
    <3>2. MinValidatorStake \in Nat
      BY DEF Uint
    <3>. QED
      BY <3>1, <3>2
  <2>3. Locked[sender] >= amount /\ Locked[sender] \in Nat
    BY <1>2, <2>1, <2>2
  <2>4. Locked[sender] <= totalStaked
    BY <1>1, <1>4, LockedType, TermBound DEF StakedIsSumOfStakes
  <2>. QED
    BY <1>2, <1>4, <2>3, <2>4
<1>9. totalStaked' \in Uint
  <2>1. totalStaked \in 0..MaxUint
    BY DEF TypeOK, Uint
  <2>. QED
    BY <1>2, <1>3, <1>8, <2>1 DEF Uint
<1>10. StakesCovered'
  <2>1. balances'[Self] = balances[Self] - amount
    BY <1>1, <1>2, <1>3, <1>4 DEF AtEnd
  <2>2. balances[Self] + drained >= totalStaked /\ balances[Self] \in Nat /\ drained \in Nat
    BY <1>1, <1>4 DEF StakesCovered, TypeOK
  <2>. QED
    BY <1>2, <1>3, <1>4, <2>1, <2>2 DEF StakesCovered
<1>11. stakes' \in [Account -> [amount : Uint, lockPeriod : Nat, startTime : Time]]
  <2>1. NoStake \in [amount : Uint, lockPeriod : Nat, startTime : Time]
    BY DEF NoStake, Uint, Time
  <2>. QED
    BY <1>3, <2>1 DEF TypeOK
<1>12. TypeOK'
  BY <1>3, <1>5, <1>7, <1>9, <1>11 DEF TypeOK, ERC20TypeOK, voteVars, rateVars
<1>13. StakesStarted'
  <2>1. now \in Nat /\ \A a \in Account : stakes[a].startTime <= now
    BY DEF TypeOK, Time, StakesStarted
  <2>2. \A a \in Account : stakes'[a] = IF a = sender THEN NoStake ELSE stakes[a]
    BY <1>3 DEF TypeOK
  <2>. QED
    BY <1>3, <2>1, <2>2 DEF StakesStarted, NoStake
<1>14. StakedIsSumOfStakes'
  <2>1. EntriesMoved(Locked, Locked', n, sender, 0, amount)
    <3>1. ASSUME NEW a \in Account
          PROVE  Locked'[a] = Locked[a] - (IF a = sender THEN amount ELSE 0)
      <4>1. stakes'[a].amount = (IF a = sender THEN 0 ELSE stakes[a].amount)
        BY <1>3 DEF TypeOK, NoStake
      <4>2. Locked[a] = stakes[a].amount + MinValidatorStake * isValidator[a]
        BY DEF Locked
      <4>3. Locked'[a] = stakes'[a].amount + MinValidatorStake * isValidator[a]
        BY <1>3 DEF Locked
      <4>4. MinValidatorStake * isValidator[a] \in Nat /\ stakes[a].amount \in Nat
        <5>1. isValidator[a] = 0 \/ isValidator[a] = 1
          BY DEF TypeOK
        <5>2. MinValidatorStake \in Nat /\ stakes[a].amount \in Nat
          BY DEF TypeOK, Uint
        <5>. QED
          BY <5>1, <5>2
      <4>. QED
        BY <1>2, <4>1, <4>2, <4>3, <4>4 DEF amount
    <3>2. \A a \in 1..n : Locked[a] \in Nat /\ a # 0
      BY LockedType
    <3>. QED
      BY <1>2, <3>1, <3>2 DEF EntriesMoved, Account
  <2>2. totalStaked' = TotalMoved(totalStaked, sender, 0, amount)
    BY <1>1, <1>2, <1>3, <1>4 DEF TotalMoved
  <2>3. Locked \in [1..n -> Nat] /\ SumsTo(Locked, n, totalStaked)
    BY LockedType DEF StakedIsSumOfStakes
  <2>4. SumsTo(Locked', n, totalStaked')
    <3>. HIDE DEF n
    <3>. QED
      BY <1>1, <1>2, <1>4, <1>8, <2>1, <2>2, <2>3, SumAfterMove
  <2>. QED
    BY <2>4 DEF StakedIsSumOfStakes
<1>15. CountIsNumberOfValidators'
  BY <1>3 DEF CountIsNumberOfValidators
<1>. QED
  BY <1>6, <1>10, <1>12, <1>13, <1>14, <1>15 DEF SupplyIsSumOfBalances

-----------------------------------------------------------------------------
(* Fees.                                                                   *)

\* The burnt part and what the validators get are parts of the fee.
LEMMA FeeParts ==
    ASSUME TypeOK, NEW fee \in Nat, NEW burn, burn = (fee * burnRate) \div BasisPoints
    PROVE  /\ burn \in Nat /\ burn <= fee
           /\ PerValidator(fee, burn) \in Nat
           /\ PerValidator(fee, burn) * validatorCount \in Nat
           /\ PerValidator(fee, burn) * validatorCount <= fee - burn
<1>. USE KSCAssumption
<1>1. burnRate \in Nat /\ burnRate <= BasisPoints /\ BasisPoints \in Nat /\ BasisPoints > 0
      /\ validatorCount \in Nat
  BY DEF TypeOK
<1>2. fee * burnRate \in Nat /\ fee * BasisPoints \in Nat
  BY <1>1
<1>3. fee * burnRate <= fee * BasisPoints
  BY <1>1
<1>4. burn \in Nat /\ burn * BasisPoints <= fee * burnRate
  BY <1>1, <1>2, DivisionBound
<1>5. burn <= fee
  <2>1. SUFFICES ASSUME burn >= fee + 1 PROVE FALSE
    BY <1>4
  <2>2. burn * BasisPoints >= (fee + 1) * BasisPoints
    BY <1>1, <1>4, <2>1
  <2>3. (fee + 1) * BasisPoints = fee * BasisPoints + BasisPoints
    BY <1>1
  <2>4. burn * BasisPoints \in Nat
    BY <1>1, <1>4
  <2>. QED
    BY <1>1, <1>2, <1>3, <1>4, <2>2, <2>3, <2>4
<1>6. CASE validatorCount = 0
  BY <1>1, <1>4, <1>5, <1>6 DEF PerValidator
<1>7. CASE validatorCount # 0
  <2>1. PerValidator(fee, burn) = (fee - burn) \div validatorCount
    BY <1>7 DEF PerValidator
  <2>2. fee - burn \in Nat /\ validatorCount > 0
    BY <1>1, <1>4, <1>5, <1>7
  <2>3. /\ PerValidator(fee, burn) \in Nat
        /\ PerValidator(fee, burn) * validatorCount <= fee - burn
    BY <1>1, <2>1, <2>2, DivisionBound
  <2>4. PerValidator(fee, burn) * validatorCount \in Nat
    BY <1>1, <2>3
  <2>. QED
    BY <1>4, <1>5, <2>3, <2>4
<1>. QED
  BY <1>6, <1>7

\* A fee leaves the contract's account no poorer, if another account pays it:
\* what it takes from the payer covers what is burnt and what the validators get.
\* Charged to the contract, it takes both from there, and drained counts them.
LEMMA PayGasFeePreserves ==
    ASSUME KSCInvariant, NEW payer \in FeePayers, NEW fee \in Fees, PayGasFee(payer, fee)
    PROVE  KSCInvariant'
<1>. USE DEF KSCInvariant
<1> DEFINE n    == MaxAddress
           burn == (fee * burnRate) \div BasisPoints
           each == PerValidator(fee, burn)
           paid == each * validatorCount
           rest == fee - burn - paid
           shares == [a \in 1..n |-> each * isValidator[a]]
<1>1. /\ payer \in 1..n /\ payer \in 0..n /\ payer # 0
      /\ Self \in 1..n /\ Self \in 0..n /\ Self # 0 /\ 0 \in 0..n /\ n \in Nat
  BY ERC20Assumption, KSCAssumption DEF Account
<1>2. fee \in Nat
  BY KSCAssumption DEF Uint
<1>3. /\ burn \in Nat /\ burn <= fee /\ each \in Nat /\ paid \in Nat /\ paid <= fee - burn
  BY <1>2, FeeParts
<1>4. rest \in Nat /\ fee - rest \in Nat /\ fee - rest = burn + paid
  <2>. HIDE DEF burn, paid
  <2>. QED
    BY <1>2, <1>3
<1>5. /\ balances \in [1..n -> Nat] /\ totalSupply \in Nat /\ validatorCount \in Nat
      /\ isValidator \in [1..n -> 0..1] /\ totalStaked \in Nat
  <2>1. balances \in [1..n -> Nat] /\ totalSupply \in Nat /\ totalStaked \in Nat
    BY ERC20Assumption DEF TypeOK, ERC20TypeOK, Uint, Account
  <2>2. validatorCount \in Nat /\ isValidator \in [1..n -> 0..1]
    BY DEF TypeOK, Account
  <2>. QED
    BY <2>1, <2>2
<1>6. /\ balances[payer] >= fee
      /\ totalSupply' = totalSupply - burn
      /\ balances' = [a \in 1..n |-> balances[a] - AtEnd(a, payer, fee)
                                       + AtEnd(a, Self, rest) + shares[a]]
      /\ drained' = drained + (IF payer = Self THEN burn + paid ELSE 0)
      /\ UNCHANGED <<allowances, stakeVars, voteVars, emissionVars, rateVars, paused, now>>
  BY DEF PayGasFee, Share, Account
<1>7. shares \in [1..n -> Nat] /\ SumsTo(shares, n, paid)
  <2>1. isValidator \in [1..n -> Nat]
    BY <1>5
  <2>2. ASSUME NEW a \in 1..n PROVE each * isValidator[a] \in Nat
    BY <1>3, <2>1
  <2>3. SumsTo(isValidator, n, validatorCount)
    BY DEF CountIsNumberOfValidators
  <2>4. shares \in [1..n -> Nat]
    BY <2>2
  <2>5. \A k \in 1..n : shares[k] = each * isValidator[k]
    OBVIOUS
  <2>. HIDE DEF shares, each, n
  <2>. QED
    BY <1>1, <1>3, <1>5, <2>1, <2>3, <2>4, <2>5, SumOfMultiples DEF paid
<1>. HIDE DEF burn, each, paid, rest, shares
<1> DEFINE charged == [a \in 1..n |-> balances[a] - AtEnd(a, payer, fee) + AtEnd(a, Self, fee)]
           kept    == [a \in 1..n |-> balances[a] - AtEnd(a, payer, fee) + AtEnd(a, Self, rest)]
<1>8. charged \in [1..n -> Nat] /\ kept \in [1..n -> Nat]
  <2>1. ASSUME NEW a \in 1..n, NEW v \in Nat
        PROVE  balances[a] - AtEnd(a, payer, fee) + AtEnd(a, Self, v) \in Nat
    BY <1>1, <1>2, <1>5, <1>6 DEF AtEnd
  <2>. QED
    BY <1>2, <1>4, <2>1
<1>9. SumsTo(charged, n, totalSupply)
  <2>1. EntriesMoved(balances, charged, n, payer, Self, fee)
    BY DEF EntriesMoved, AtEnd
  <2>2. totalSupply = TotalMoved(totalSupply, payer, Self, fee)
    BY <1>1, <1>5 DEF TotalMoved
  <2>3. SumsTo(balances, n, totalSupply)
    BY DEF SupplyIsSumOfBalances
  <2>. HIDE DEF charged, n
  <2>. QED
    BY <1>1, <1>2, <1>5, <1>6, <2>1, <2>2, <2>3, SumAfterMove
<1>10. charged[Self] >= fee /\ charged[Self] \in Nat
  BY <1>1, <1>2, <1>5, <1>6 DEF AtEnd
<1>11. fee - rest <= totalSupply /\ burn + paid <= totalSupply
  <2>1. charged[Self] <= totalSupply
    <3>. HIDE DEF charged, n
    <3>. QED
      BY <1>1, <1>5, <1>8, <1>9, TermBound
  <2>. HIDE DEF charged
  <2>. QED
    BY <1>2, <1>4, <1>5, <1>10, <2>1
<1>12. SumsTo(kept, n, totalSupply - (fee - rest))
  <2>1. EntriesMoved(charged, kept, n, Self, 0, fee - rest)
    <3>1. ASSUME NEW a \in 1..n
          PROVE  kept[a] = charged[a] - (IF a = Self THEN fee - rest ELSE 0)
      BY <1>1, <1>2, <1>4, <1>5 DEF AtEnd
    <3>2. \A a \in 1..n : charged[a] \in Nat /\ a # 0
      BY <1>8
    <3>. HIDE DEF kept, charged
    <3>. QED
      BY <1>4, <3>1, <3>2 DEF EntriesMoved
  <2>2. totalSupply - (fee - rest) = TotalMoved(totalSupply, Self, 0, fee - rest)
    BY <1>1, <1>4, <1>5 DEF TotalMoved
  <2>3. charged[Self] >= fee - rest
    <3>. HIDE DEF charged
    <3>. QED
      BY <1>2, <1>4, <1>10
  <2>. HIDE DEF kept, charged, n
  <2>. QED
    BY <1>1, <1>4, <1>5, <1>8, <1>9, <2>1, <2>2, <2>3, SumAfterMove
<1>13. SumsTo(balances', n, totalSupply')
  <2>1. \A k \in 1..n : balances'[k] = kept[k] + shares[k]
    BY <1>6
  <2>2. totalSupply' = (totalSupply - (fee - rest)) + paid /\ totalSupply - (fee - rest) \in Nat
    BY <1>2, <1>3, <1>4, <1>5, <1>6, <1>11
  <2>. HIDE DEF kept, n
  <2>. QED
    BY <1>1, <1>3, <1>7, <1>8, <1>12, <2>1, <2>2, SumOfColumns
<1>14. balances' \in [1..n -> Nat]
  <2>1. ASSUME NEW a \in 1..n PROVE kept[a] + shares[a] \in Nat
    BY <1>7, <1>8
  <2>2. balances' = [a \in 1..n |-> kept[a] + shares[a]]
    BY <1>6
  <2>. HIDE DEF kept
  <2>. QED
    BY <2>1, <2>2
<1>15. totalSupply' \in Uint
  <2>1. totalSupply \in 0..MaxUint
    BY DEF TypeOK, ERC20TypeOK, Uint
  <2>. QED
    BY <1>3, <1>5, <1>6, <1>11, <2>1, ERC20Assumption DEF Uint
<1>16. balances' \in [Account -> Uint]
  <2>1. totalSupply' \in Nat
    BY <1>15 DEF Uint
  <2>2. ASSUME NEW a \in 1..n PROVE balances'[a] <= totalSupply'
    <3>. HIDE DEF n
    <3>. QED
      BY <1>1, <1>13, <1>14, <2>1, TermBound
  <2>. QED
    BY <1>14, <1>15, <2>1, <2>2, ERC20Assumption DEF Account, Uint
<1>17. TypeOK'
  <2>1. drained' \in Nat
    BY <1>3, <1>6 DEF TypeOK
  <2>. QED
    BY <1>6, <1>15, <1>16, <2>1
     DEF TypeOK, ERC20TypeOK, stakeVars, voteVars, emissionVars, rateVars
<1>18. /\ balances[Self] \in Int /\ balances'[Self] \in Int /\ drained' \in Int
       /\ balances'[Self] + drained' >= balances[Self] + drained
  <2>1. shares[Self] \in Nat /\ balances[Self] \in Nat
    BY <1>1, <1>5, <1>7
  <2>2. balances'[Self] = balances[Self] - (IF payer = Self THEN fee ELSE 0) + rest + shares[Self]
    BY <1>1, <1>2, <1>4, <1>6, <2>1 DEF AtEnd
  <2>3. drained \in Nat
    BY DEF TypeOK
  <2>4. CASE payer = Self
    BY <1>2, <1>3, <1>4, <1>6, <2>1, <2>2, <2>3, <2>4
  <2>5. CASE payer # Self
    BY <1>4, <1>6, <2>1, <2>2, <2>3, <2>5
  <2>. QED
    BY <2>4, <2>5
<1>19. now \in Int /\ now' \in Int /\ now' >= now
  BY <1>6 DEF TypeOK, Time
<1>20. StakesStarted' /\ StakedIsSumOfStakes' /\ CountIsNumberOfValidators' /\ StakesCovered'
  BY <1>6, <1>18, <1>19, StakeFrame
<1>. QED
  BY <1>13, <1>17, <1>20 DEF SupplyIsSumOfBalances

-----------------------------------------------------------------------------
(* Issue, votes and the holders' calls.                                    *)

\* Tokens issued to an account and counted in the emission.
LEMMA IssuePreserves ==
    ASSUME KSCInvariant, NEW to \in Account, NEW amount \in Uint,
           Move(ZeroAddress, to, amount), Emit(amount),
           proposals' \in [Proposal -> [votesFor : Uint, votesAgainst : Uint, deadline : Nat]],
           hasVoted' \in [Proposal -> SUBSET Account],
           UNCHANGED <<allowances, stakeVars, proposalCount, rateVars, paused, now, drained>>
    PROVE  KSCInvariant'
<1>1. /\ ZeroAddress \in Address /\ ZeroAddress # Self /\ to \in Address
  BY ERC20Assumption, KSCAssumption DEF ZeroAddress, Address, Account
<1>2. currentYearEmission' \in Uint /\ UNCHANGED currentYearStart
  BY ERC20Assumption DEF Emit, KSCInvariant, TypeOK, Uint
<1>3. allowances' \in [Account -> [Account -> Uint]]
  BY DEF KSCInvariant, TypeOK, ERC20TypeOK
<1>. QED
  BY <1>1, <1>2, <1>3, MovePreserves DEF Move

\* A vote is counted up to the range of a uint256.
LEMMA CastVoteSound ==
    ASSUME TypeOK, NEW voter \in Holder, NEW p \in Proposal, NEW support \in BOOLEAN,
           CastVote(voter, p, support)
    PROVE  /\ proposals' \in [Proposal -> [votesFor : Uint, votesAgainst : Uint, deadline : Nat]]
           /\ hasVoted' \in [Proposal -> SUBSET Account]
<1>1. voter \in Account
  BY DEF Holder
<1>2. balances[voter] \in 0..MaxUint /\ MaxUint \in Nat
  BY <1>1, ERC20Assumption DEF TypeOK, ERC20TypeOK, Uint
<1>3. proposals \in [Proposal -> [votesFor : 0..MaxUint, votesAgainst : 0..MaxUint, deadline : Nat]]
  BY DEF TypeOK, Uint
<1>4. hasVoted' \in [Proposal -> SUBSET Account]
  BY <1>1 DEF CastVote, TypeOK
<1>5. CASE /\ proposals[p].votesFor + balances[voter] <= MaxUint
           /\ proposals' = [proposals EXCEPT ![p].votesFor = @ + balances[voter]]
  <2>1. proposals[p].votesFor + balances[voter] \in 0..MaxUint
    BY <1>2, <1>3, <1>5
  <2>. QED
    BY <1>3, <1>4, <1>5, <2>1 DEF Uint
<1>6. CASE /\ proposals[p].votesAgainst + balances[voter] <= MaxUint
           /\ proposals' = [proposals EXCEPT ![p].votesAgainst = @ + balances[voter]]
  <2>1. proposals[p].votesAgainst + balances[voter] \in 0..MaxUint
    BY <1>2, <1>3, <1>6
  <2>. QED
    BY <1>3, <1>4, <1>6, <2>1 DEF Uint
<1>. QED
  BY <1>5, <1>6 DEF CastVote

LEMMA VotePreserves ==
    ASSUME KSCInvariant, NEW voter \in Holder, NEW p \in Proposal, NEW support \in BOOLEAN,
           Vote(voter, p, support)
    PROVE  KSCInvariant'
<1>. USE DEF KSCInvariant
<1>1. /\ proposals' \in [Proposal -> [votesFor : Uint, votesAgainst : Uint, deadline : Nat]]
      /\ hasVoted' \in [Proposal -> SUBSET Account]
  BY CastVoteSound DEF Vote
<1>2. CASE /\ Move(ZeroAddress, voter, GovernanceReward)
           /\ Emit(GovernanceReward)
  <2>1. voter \in Account /\ GovernanceReward \in Uint
    BY KSCAssumption DEF Holder
  <2>. QED
    BY <1>1, <1>2, <2>1, IssuePreserves DEF Vote
<1>3. CASE UNCHANGED <<balances, totalSupply, emissionVars>>
  <2>1. TypeOK'
    BY <1>1, <1>3 DEF Vote, TypeOK, ERC20TypeOK, stakeVars, emissionVars, rateVars
  <2>2. now' >= now
    BY KSCAssumption DEF Vote, TypeOK, Time
  <2>. QED
    BY <1>3, <2>1, <2>2, QuietStepPreserves DEF Vote
<1>. QED
  BY <1>2, <1>3 DEF Vote, RewardVoter

LEMMA CreateProposalPreserves ==
    ASSUME KSCInvariant, NEW sender \in Holder, CreateProposal(sender)
    PROVE  KSCInvariant'
<1>. USE DEF KSCInvariant
<1>1. now + VotingPeriod \in Nat /\ now' >= now
  BY KSCAssumption DEF CreateProposal, TypeOK, Time
<1>2. proposalCount + 1 \in Proposal /\ proposalCount' \in 0..MaxProposals
  BY KSCAssumption DEF CreateProposal, TypeOK, Proposal
<1>3. proposals' \in [Proposal -> [votesFor : Uint, votesAgainst : Uint, deadline : Nat]]
  <2>1. 0 \in Uint
    BY ERC20Assumption DEF Uint
  <2>. QED
    BY <1>1, <1>2, <2>1 DEF CreateProposal, TypeOK
<1>4. TypeOK'
  BY <1>2, <1>3 DEF CreateProposal, TypeOK, ERC20TypeOK, erc20Vars, stakeVars,
                    emissionVars, rateVars
<1>. QED
  BY <1>1, <1>4, QuietStepPreserves DEF CreateProposal, erc20Vars

\* What a holder or a spender moves or burns is not the contract's.
LEMMA HolderMovePreserves ==
    ASSUME KSCInvariant, NEW from \in Holder, NEW to \in Address, NEW value \in Uint,
           Move(from, to, value), allowances' \in [Account -> [Account -> Uint]],
           UNCHANGED otherVars
    PROVE  KSCInvariant'
<1>1. from \in Address /\ from # Self
  BY DEF Holder, Account, Address
<1>2. UNCHANGED <<proposals, hasVoted, currentYearEmission>>
  BY DEF otherVars, voteVars, emissionVars
<1>3. /\ currentYearEmission' \in Uint
      /\ proposals' \in [Proposal -> [votesFor : Uint, votesAgainst : Uint, deadline : Nat]]
      /\ hasVoted' \in [Proposal -> SUBSET Account]
  BY <1>2 DEF KSCInvariant, TypeOK
<1>. QED
  BY <1>1, <1>3, MovePreserves DEF Move, otherVars, voteVars, emissionVars

LEMMA TokenCallsPreserve == KSCInvariant /\ TokenCalls => KSCInvariant'
<1>. SUFFICES ASSUME KSCInvariant, TokenCalls PROVE KSCInvariant'
  OBVIOUS
<1>0. TypeOK /\ ERC20TypeOK
  BY DEF KSCInvariant, TypeOK
<1>1. /\ ZeroAddress \in Address /\ Account \subseteq Address /\ Spenders \subseteq Account
      /\ ApprovedAmounts \subseteq Uint /\ Holder \subseteq Account
  BY KSCAssumption, ERC20Assumption DEF ZeroAddress, Address, Account, Holder
<1>2. ASSUME NEW sender \in Holder, NEW to \in Account, NEW value \in Uint,
             Transfer(sender, to, value)
      PROVE  KSCInvariant'
  BY <1>0, <1>1, <1>2, HolderMovePreserves DEF Transfer, ERC20TypeOK
<1>3. ASSUME NEW spender \in Spenders, NEW from \in Holder, NEW to \in Account,
             NEW value \in Uint, TransferFrom(spender, from, to, value)
      PROVE  KSCInvariant'
  <2>1. allowances' \in [Account -> [Account -> Uint]]
    BY <1>0, <1>1, <1>3, AllowanceSound DEF TransferFrom
  <2>. QED
    BY <1>1, <1>3, <2>1, HolderMovePreserves DEF TransferFrom
<1>4. ASSUME NEW holder \in Holder, NEW value \in Uint, BurnOwn(holder, value)
      PROVE  KSCInvariant'
  BY <1>0, <1>1, <1>4, HolderMovePreserves DEF BurnOwn, ERC20TypeOK
<1>5. ASSUME NEW spender \in Spenders, NEW from \in Holder, NEW value \in Uint,
             BurnFrom(spender, from, value)
      PROVE  KSCInvariant'
  <2>1. allowances' \in [Account -> [Account -> Uint]]
    BY <1>0, <1>1, <1>5, AllowanceSound DEF BurnFrom
  <2>. QED
    BY <1>1, <1>5, <2>1, HolderMovePreserves DEF BurnFrom
<1>6. ASSUME NEW owner \in Holder, NEW spender \in Spenders,
             NEW value \in ApprovedAmounts, Approve(owner, spender, value)
      PROVE  KSCInvariant'
  <2>1. allowances' \in [Account -> [Account -> Uint]]
    BY <1>0, <1>1, <1>6, AllowanceSound DEF Approve
  <2>2. TypeOK'
    BY <1>0, <1>6, <2>1 DEF Approve, TypeOK, ERC20TypeOK, otherVars, stakeVars, voteVars,
                           emissionVars, rateVars
  <2>3. now' >= now
    BY <1>0, <1>6, KSCAssumption DEF Approve, otherVars, TypeOK, Time
  <2>. QED
    BY <1>6, <2>2, <2>3, QuietStepPreserves DEF Approve, otherVars
<1>. QED
  BY <1>2, <1>3, <1>4, <1>5, <1>6 DEF TokenCalls

\* The owner's settings, a new year and a new block: no tokens move.
LEMMA SettingsPreserve ==
    ASSUME KSCInvariant,
           \/ \E rate \in BurnRates : SetBurnRate(rate)
           \/ \E apy \in APYs : SetStakingAPY(apy)
           \/ ResetYearlyEmission
           \/ \E inflation \in Inflations : SetMaxAnnualInflation(inflation)
           \/ Pause \/ Unpause \/ Tick
           \/ UNCHANGED vars
    PROVE  KSCInvariant'
<1>. USE DEF SetBurnRate, SetStakingAPY, ResetYearlyEmission, SetMaxAnnualInflation, Pause,
             Unpause, SetPaused, Tick, vars
<1>0. TypeOK
  BY DEF KSCInvariant
<1>1. UNCHANGED <<erc20Vars, stakeVars, voteVars, drained>>
  OBVIOUS
<1>2. /\ burnRate' \in 0..BasisPoints /\ stakingAPY' \in Nat /\ maxAnnualInflation' \in Nat
      /\ paused' \in BOOLEAN
  <2>1. BurnRates \subseteq 0..BasisPoints /\ APYs \subseteq Nat /\ Inflations \subseteq Nat
    BY KSCAssumption
  <2>2. /\ burnRate \in 0..BasisPoints /\ stakingAPY \in Nat /\ maxAnnualInflation \in Nat
        /\ paused \in BOOLEAN
    BY <1>0 DEF TypeOK
  <2>. QED
    BY <2>1, <2>2 DEF rateVars
<1>3. /\ currentYearEmission' \in Uint /\ currentYearStart' \in Time /\ now' \in Time
      /\ now' >= now
  <2>1. /\ currentYearEmission \in Uint /\ currentYearStart \in Time /\ now \in Time
        /\ 0 \in Uint /\ MaxTime \in Nat
    BY <1>0, ERC20Assumption, KSCAssumption DEF TypeOK, Uint
  <2>. QED
    BY <2>1 DEF emissionVars, Time
<1>4. TypeOK'
  BY <1>0, <1>1, <1>2, <1>3 DEF TypeOK, ERC20TypeOK, erc20Vars, stakeVars, voteVars
<1>. QED
  BY <1>1, <1>3, <1>4, QuietStepPreserves DEF erc20Vars

LEMMA OwnerCallsPreserve == KSCInvariant /\ OwnerCalls => KSCInvariant'
<1>. SUFFICES ASSUME KSCInvariant, OwnerCalls PROVE KSCInvariant'
  OBVIOUS
<1>0. /\ proposals \in [Proposal -> [votesFor : Uint, votesAgainst : Uint, deadline : Nat]]
      /\ hasVoted \in [Proposal -> SUBSET Account]
  BY DEF KSCInvariant, TypeOK
<1>1. ASSUME NEW validator \in Holder, DistributeValidatorReward(validator)
      PROVE  KSCInvariant'
  <2>1. validator \in Account /\ BlockReward \in Uint
    BY KSCAssumption DEF Holder
  <2>. QED
    BY <1>0, <1>1, <2>1, IssuePreserves DEF DistributeValidatorReward, voteVars
<1>2. ASSUME NEW to \in Account, NEW amount \in Uint, Mint(to, amount)
      PROVE  KSCInvariant'
  BY <1>0, <1>2, IssuePreserves DEF Mint, voteVars
<1>. QED
  BY <1>1, <1>2, PayGasFeePreserves, SettingsPreserve DEF OwnerCalls

\* Every step of the contract keeps the invariant.
LEMMA StepPreserves == KSCInvariant /\ [Next]_vars => KSCInvariant'
<1>. SUFFICES ASSUME KSCInvariant, [Next]_vars PROVE KSCInvariant'
  OBVIOUS
<1>1. CASE Staking
  BY <1>1, StakePreserves, UnstakePreserves, RegisterPreserves DEF Staking
<1>2. CASE Governance
  BY <1>2, CreateProposalPreserves, VotePreserves DEF Governance
<1>3. CASE TokenCalls
  BY <1>3, TokenCallsPreserve
<1>4. CASE OwnerCalls
  BY <1>4, OwnerCallsPreserve
<1>5. CASE Tick \/ UNCHANGED vars
  BY <1>5, SettingsPreserve
<1>. QED
  BY <1>1, <1>2, <1>3, <1>4, <1>5 DEF Next

-----------------------------------------------------------------------------
\* In every reachable state the invariant holds.
THEOREM InvariantHolds == Spec => []KSCInvariant
<1>1. Init => KSCInvariant
  BY InitEstablishes
<1>2. KSCInvariant /\ [Next]_vars => KSCInvariant'
  BY StepPreserves
<1>. QED
  BY <1>1, <1>2, PTL DEF Spec

\* No counter leaves its range: neither totals nor balances run below zero or
\* beyond a uint256, whatever the rates, rewards and lock periods.
THEOREM TypeCorrect == Spec => []TypeOK
<1>1. KSCInvariant => TypeOK
  BY DEF KSCInvariant
<1>. QED
  BY <1>1, InvariantHolds, PTL

\* The supply is the sum of the balances, through fees, stakes and rewards.
THEOREM BalanceSheetHolds == Spec => []SupplyIsSumOfBalances
<1>1. KSCInvariant => SupplyIsSumOfBalances
  BY DEF KSCInvariant
<1>. QED
  BY <1>1, InvariantHolds, PTL

\* totalStaked is the sum of the stakes and the validators' stakes.
THEOREM StakesAddUp == Spec => []StakedIsSumOfStakes
<1>1. KSCInvariant => StakedIsSumOfStakes
  BY DEF KSCInvariant
<1>. QED
  BY <1>1, InvariantHolds, PTL

\* The list of validators, by whose length a fee is divided, is as long as
\* there are validators to be paid.
THEOREM ValidatorsCounted == Spec => []CountIsNumberOfValidators
<1>1. KSCInvariant => CountIsNumberOfValidators
  BY DEF KSCInvariant
<1>. QED
  BY <1>1, InvariantHolds, PTL

\* The contract always holds what it has to return to its stakers, but for what
\* fees charged to its own account took (payGasFee accepts it as the payer).
THEOREM StakesReturnable == Spec => []StakesCovered
<1>1. KSCInvariant => StakesCovered
  BY DEF KSCInvariant
<1>. QED
  BY <1>1, InvariantHolds, PTL

-----------------------------------------------------------------------------
(* Emission.                                                               *)

\* What a step of the contract can do to the supply and the emission.
Issues(amount) ==
    /\ CanMint(amount) \/ amount = 0
    /\ totalSupply' = totalSupply + amount
    /\ currentYearEmission' = currentYearEmission + amount

IssuesNothing ==
    totalSupply' <= totalSupply /\ currentYearEmission' <= currentYearEmission

\* A move that is not a mint issues nothing, and a mint what it mints.
LEMMA MoveIssues ==
    ASSUME TypeOK, NEW from \in Address, NEW to \in Address, NEW value \in Uint,
           Move(from, to, value)
    PROVE  /\ from # ZeroAddress => totalSupply' <= totalSupply
           /\ from = ZeroAddress /\ to # ZeroAddress => totalSupply' = totalSupply + value
BY ERC20Assumption DEF TypeOK, ERC20TypeOK, Move, Update, AtEnd, ZeroAddress, Uint

\* A mint in a call that counts it.
LEMMA MintIssues ==
    ASSUME TypeOK, NEW to \in Account, NEW amount \in Uint, CanMint(amount),
           Move(ZeroAddress, to, amount), Emit(amount)
    PROVE  \E x \in Nat : Issues(x)
<1>1. ZeroAddress \in Address /\ to \in Address /\ to # ZeroAddress /\ amount \in Nat
  BY ERC20Assumption DEF ZeroAddress, Address, Account, Uint
<1>2. Issues(amount)
  BY <1>1, MoveIssues DEF Issues, Emit
<1>. QED
  BY <1>1, <1>2

\* Every step issues an amount that the cap allows and that it counts, or
\* nothing.
LEMMA StepIssues ==
    ASSUME KSCInvariant, Next
    PROVE  IssuesNothing \/ \E x \in Nat : Issues(x)
<1>. USE DEF KSCInvariant
<1>0. /\ totalSupply \in Nat /\ currentYearEmission \in Nat
      /\ Self \in Address /\ Self # ZeroAddress
      /\ Holder \subseteq Address /\ Holder \subseteq Account /\ Account \subseteq Address
      /\ ZeroAddress \in Address /\ ZeroAddress \notin Account
      /\ Spenders \subseteq Account /\ MinValidatorStake \in Uint
      /\ BlockReward \in Uint /\ GovernanceReward \in Uint
  <2>1. totalSupply \in Nat /\ currentYearEmission \in Nat
    BY ERC20Assumption DEF TypeOK, ERC20TypeOK, Uint
  <2>2. /\ MinValidatorStake \in Uint /\ BlockReward \in Uint /\ GovernanceReward \in Uint
        /\ Self \in Account /\ Spenders \subseteq Account
    BY KSCAssumption
  <2>3. /\ Account \subseteq Address /\ ZeroAddress \in Address /\ ZeroAddress \notin Account
        /\ Holder \subseteq Account
    BY ERC20Assumption DEF Holder, Account, Address, ZeroAddress
  <2>. QED
    BY <2>1, <2>2, <2>3
<1>1. CASE Staking
  <2>1. ASSUME NEW sender \in Holder, NEW amount \in Uint, NEW lockPeriod \in LockPeriods,
               Stake(sender, amount, lockPeriod)
        PROVE  IssuesNothing
    <3>1. sender \in Address /\ sender # ZeroAddress
      BY <1>0
    <3>. QED
      BY <1>0, <2>1, <3>1, MoveIssues DEF Stake, emissionVars, IssuesNothing
  <2>2. ASSUME NEW sender \in Holder, Unstake(sender)
        PROVE  \E x \in Nat : Issues(x)
    <3> DEFINE reward == Granted(CalculateStakingRewards(sender))
    <3>1. reward \in Nat /\ (CanMint(reward) \/ reward = 0)
      BY <1>0, RewardType DEF Granted
    <3>2. totalSupply' = totalSupply + reward /\ Emit(reward)
      BY <2>2 DEF Unstake
    <3>. HIDE DEF reward
    <3>3. Issues(reward)
      BY <3>1, <3>2 DEF Issues, Emit
    <3>. QED
      BY <3>1, <3>3
  <2>3. ASSUME NEW sender \in Holder, RegisterValidator(sender)
        PROVE  IssuesNothing
    <3>1. sender \in Address /\ sender # ZeroAddress
      BY <1>0
    <3>. QED
      BY <1>0, <2>3, <3>1, MoveIssues DEF RegisterValidator, emissionVars, IssuesNothing
  <2>. QED
    BY <1>1, <2>1, <2>2, <2>3 DEF Staking
<1>2. CASE Governance
  <2>1. ASSUME NEW sender \in Holder, CreateProposal(sender)
        PROVE  IssuesNothing
    BY <1>0, <2>1 DEF CreateProposal, erc20Vars, emissionVars, IssuesNothing
  <2>2. ASSUME NEW voter \in Holder, NEW p \in Proposal, NEW support \in BOOLEAN,
               Vote(voter, p, support)
        PROVE  IssuesNothing \/ \E x \in Nat : Issues(x)
    <3>1. voter \in Account /\ RewardVoter(voter)
      BY <1>0, <2>2 DEF Vote
    <3>2. CASE CanMint(GovernanceReward)
      BY <1>0, <3>1, <3>2, MintIssues DEF RewardVoter
    <3>3. CASE ~CanMint(GovernanceReward)
      BY <1>0, <3>1, <3>3 DEF RewardVoter, emissionVars, IssuesNothing
    <3>. QED
      BY <3>2, <3>3
  <2>. QED
    BY <1>2, <2>1, <2>2 DEF Governance
<1>3. CASE TokenCalls
  <2>1. currentYearEmission' = currentYearEmission
    BY <1>3 DEF TokenCalls, Transfer, TransferFrom, BurnOwn, BurnFrom, Approve,
          otherVars, emissionVars
  <2>2. \/ totalSupply' = totalSupply
        \/ \E from \in Holder, to \in Address, value \in Uint : Move(from, to, value)
    BY <1>0, <1>3 DEF TokenCalls, Transfer, TransferFrom, BurnOwn, BurnFrom, Approve
  <2>3. totalSupply' <= totalSupply
    BY <1>0, <2>2, MoveIssues
  <2>. QED
    BY <1>0, <2>1, <2>3 DEF IssuesNothing
<1>4. CASE OwnerCalls
  <2>1. ASSUME NEW payer \in FeePayers, NEW fee \in Fees, PayGasFee(payer, fee)
        PROVE  IssuesNothing
    <3> DEFINE burn == (fee * burnRate) \div BasisPoints
    <3>1. fee \in Nat
      BY KSCAssumption DEF Uint
    <3>2. burn \in Nat
      BY <3>1, FeeParts
    <3>3. totalSupply' = totalSupply - burn /\ currentYearEmission' = currentYearEmission
      BY <2>1 DEF PayGasFee, emissionVars
    <3>. HIDE DEF burn
    <3>. QED
      BY <1>0, <3>2, <3>3 DEF IssuesNothing
  <2>2. ASSUME NEW validator \in Holder, DistributeValidatorReward(validator)
        PROVE  \E x \in Nat : Issues(x)
    BY <1>0, <2>2, MintIssues DEF DistributeValidatorReward
  <2>3. ASSUME NEW to \in Account, NEW amount \in Uint, Mint(to, amount)
        PROVE  \E x \in Nat : Issues(x)
    BY <2>3, MintIssues DEF Mint
  <2>4. ASSUME \/ \E rate \in BurnRates : SetBurnRate(rate)
               \/ \E apy \in APYs : SetStakingAPY(apy)
               \/ ResetYearlyEmission
               \/ \E inflation \in Inflations : SetMaxAnnualInflation(inflation)
               \/ Pause \/ Unpause
        PROVE  IssuesNothing
    BY <1>0, <2>4 DEF SetBurnRate, SetStakingAPY, ResetYearlyEmission, Pause, Unpause,
          SetMaxAnnualInflation, SetPaused, erc20Vars, emissionVars, IssuesNothing
  <2>. QED
    BY <1>4, <2>1, <2>2, <2>3, <2>4 DEF OwnerCalls
<1>5. CASE Tick
  BY <1>0, <1>5 DEF Tick, erc20Vars, emissionVars, IssuesNothing
<1>. QED
  BY <1>1, <1>2, <1>3, <1>4, <1>5 DEF Next

\* Whatever issues tokens (mint, block reward, stake reward, vote reward), the
\* supply never grows by anything but what the year's emission counts.
THEOREM IssueCounted == Spec => EmissionAccountsForIssue
<1> DEFINE Counted ==
      totalSupply' > totalSupply
        => totalSupply' - totalSupply = currentYearEmission' - currentYearEmission
<1>1. ASSUME KSCInvariant, Next PROVE Counted
  <2>1. totalSupply \in Nat /\ currentYearEmission \in Nat
    BY <1>1, ERC20Assumption DEF KSCInvariant, TypeOK, ERC20TypeOK, Uint
  <2>2. CASE IssuesNothing
    <3>1. totalSupply' <= totalSupply /\ (totalSupply' = totalSupply \/ totalSupply' # totalSupply)
      BY <2>2 DEF IssuesNothing
    <3>2. totalSupply' \in Int
      <4>1. KSCInvariant'
        BY <1>1, StepPreserves
      <4>. QED
        BY <4>1, ERC20Assumption DEF KSCInvariant, TypeOK, ERC20TypeOK, Uint
    <3>. QED
      BY <2>1, <3>1, <3>2
  <2>3. CASE \E x \in Nat : Issues(x)
    BY <2>1, <2>3 DEF Issues
  <2>. QED
    BY <1>1, <2>2, <2>3, StepIssues
<1>2. KSCInvariant /\ [Next]_vars => [Counted]_vars
  BY <1>1
<1>. QED
  BY InvariantHolds, <1>2, PTL DEF Spec, EmissionAccountsForIssue

\* Until the year is over, the emission counted in it is never raised above
\* the cap in force, by whichever of the four ways tokens are issued.
THEOREM CappedInYear == Spec => EmissionCappedInYear
<1> DEFINE Capped ==
      ~YearOver /\ currentYearEmission' > currentYearEmission
        => currentYearEmission' <= EmissionCap
<1>1. ASSUME KSCInvariant, Next PROVE Capped
  <2>1. currentYearEmission \in Nat /\ currentYearEmission' \in Nat
    <3>1. KSCInvariant'
      BY <1>1, StepPreserves
    <3>. QED
      BY <1>1, <3>1, ERC20Assumption DEF KSCInvariant, TypeOK, Uint
  <2>2. CASE IssuesNothing
    BY <2>1, <2>2 DEF IssuesNothing
  <2>3. ASSUME NEW x \in Nat, Issues(x) PROVE Capped
    <3>1. CASE x = 0
      BY <2>1, <2>3, <3>1 DEF Issues
    <3>2. CASE CanMint(x)
      <4>1. YearOver \/ currentYearEmission' <= EmissionCap
        BY <2>3, <3>2 DEF Issues, CanMint
      <4>. QED
        BY <4>1
    <3>. QED
      BY <2>3, <3>1, <3>2 DEF Issues
  <2>. QED
    BY <1>1, <2>2, <2>3, StepIssues
<1>2. KSCInvariant /\ [Next]_vars => [Capped]_vars
  BY <1>1
<1>. QED
  BY InvariantHolds, <1>2, PTL DEF Spec, EmissionCappedInYear

=============================================================================
