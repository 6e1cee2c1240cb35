------------------------- MODULE NUStablecoinProofs -------------------------
(***************************************************************************)
(* Theorems about NUStablecoin, for any number of accounts, any uint width *)
(* and any inputs.  NUInvariant is inductive: the reserve argument needs   *)
(* the balance sheet (a burn must not take the supply below zero), and the *)
(* counters need to be tied to the day they were last reset on.            *)
(***************************************************************************)
EXTENDS NUStablecoin, ERC20Theorems

NUInvariant ==
    /\ TypeOK
    /\ SupplyIsSumOfBalances
    /\ ReservesCoverSupply
    /\ CountersMatchAuditTrail

LEMMA InitEstablishes == Init => NUInvariant
<1>. SUFFICES ASSUME Init PROVE NUInvariant
  OBVIOUS
<1>. USE ERC20Assumption, NUAssumption
<1>1. ERC20TypeOK /\ SupplyIsSumOfBalances
  BY ERC20InitSound DEF Init
<1>2. TypeOK
  BY <1>1 DEF Init, TypeOK, Day, Uint
<1>3. ReservesCoverSupply
  BY DEF Init, ERC20Init, ReservesCoverSupply
<1>4. CountersMatchAuditTrail
  BY DEF Init, CountersMatchAuditTrail, Day
<1>. QED
  BY <1>1, <1>2, <1>3, <1>4 DEF NUInvariant

\* A record changes the history of today only.
LEMMA RecordKeeps ==
    ASSUME NEW h \in [Day -> Nat], NEW amount \in Nat, today \in Day
    PROVE  /\ Record(h, amount) \in [Day -> Nat]
           /\ \A d \in Day : d > today => Record(h, amount)[d] = h[d]
BY NUAssumption DEF Record, Day

\* Counting a mint or a burn and recording it on the trail of the day keeps
\* the counters in range and equal to the trail, across the daily reset.
LEMMA CountingSound ==
    ASSUME TypeOK, CountersMatchAuditTrail, NEW amount \in Uint,
           \/ /\ CountMint(amount)
              /\ mintHistory' = Record(mintHistory, amount)
              /\ UNCHANGED burnHistory
           \/ /\ CountBurn(amount)
              /\ burnHistory' = Record(burnHistory, amount)
              /\ UNCHANGED mintHistory,
           UNCHANGED <<today, limitVars>>
    PROVE  /\ dailyMinted' \in Uint /\ dailyBurned' \in Uint /\ lastResetDay' \in Day
           /\ mintHistory' \in [Day -> Nat] /\ burnHistory' \in [Day -> Nat]
           /\ CountersMatchAuditTrail'
<1>. USE ERC20Assumption, NUAssumption
<1>1. /\ today \in Day /\ lastResetDay \in Day /\ lastResetDay <= today
      /\ dailyMinted \in Uint /\ dailyBurned \in Uint /\ amount \in Nat
      /\ dailyMintLimit \in Uint /\ dailyBurnLimit \in Uint
      /\ mintHistory \in [Day -> Nat] /\ burnHistory \in [Day -> Nat]
  BY DEF TypeOK, CountersMatchAuditTrail, Uint
<1>2. lastResetDay' = today /\ today' = today
  BY <1>1 DEF CountMint, CountBurn, ResetDay, NewDay, Day
<1>3. /\ SinceReset(dailyMinted) = mintHistory[today]
      /\ SinceReset(dailyBurned) = burnHistory[today]
  BY <1>1 DEF SinceReset, NewDay, CountersMatchAuditTrail, Day
<1>4. /\ mintHistory' \in [Day -> Nat] /\ burnHistory' \in [Day -> Nat]
      /\ \A d \in Day : d > today => mintHistory'[d] = 0 /\ burnHistory'[d] = 0
  <2>1. \A d \in Day : d > today => mintHistory[d] = 0 /\ burnHistory[d] = 0
    BY <1>1 DEF CountersMatchAuditTrail, Day
  <2>2. \/ mintHistory' = Record(mintHistory, amount) /\ burnHistory' = burnHistory
        \/ burnHistory' = Record(burnHistory, amount) /\ mintHistory' = mintHistory
    OBVIOUS
  <2>3. ASSUME NEW h \in [Day -> Nat]
        PROVE  /\ Record(h, amount) \in [Day -> Nat]
               /\ \A d \in Day : d > today => Record(h, amount)[d] = h[d]
    BY <1>1, RecordKeeps
  <2>. QED
    BY <1>1, <2>1, <2>2, <2>3
<1>5. dailyMinted' = mintHistory'[today] /\ dailyBurned' = burnHistory'[today]
  BY <1>1, <1>3 DEF CountMint, CountBurn, Record
<1>6. dailyMinted' \in Uint /\ dailyBurned' \in Uint
  <2>1. SinceReset(dailyMinted) \in Uint /\ SinceReset(dailyBurned) \in Uint
    BY <1>1 DEF SinceReset, Uint
  <2>. QED
    BY <1>1, <2>1 DEF CountMint, CountBurn, Uint
<1>7. CountersMatchAuditTrail'
  BY <1>1, <1>2, <1>4, <1>5 DEF CountersMatchAuditTrail, Day
<1>. QED
  BY <1>1, <1>2, <1>4, <1>6, <1>7

\* A step that leaves reserves, counters and trail alone keeps what ties them.
LEMMA ReserveFrame ==
    ASSUME TypeOK, CountersMatchAuditTrail,
           UNCHANGED <<totalReserves, counterVars, auditVars, today>>
    PROVE  /\ totalReserves' \in Uint
           /\ dailyMinted' \in Uint /\ dailyBurned' \in Uint /\ lastResetDay' \in Day
           /\ mintHistory' \in [Day -> Nat] /\ burnHistory' \in [Day -> Nat]
           /\ today' \in Day
           /\ CountersMatchAuditTrail'
BY DEF TypeOK, CountersMatchAuditTrail, counterVars, auditVars

\* A step that leaves lists and settings alone keeps their types.
LEMMA AdminFrame ==
    ASSUME TypeOK, UNCHANGED <<listVars, adminVars>>
    PROVE  /\ reserveAccount' \in Account
           /\ frozenAccounts' \in [Account -> BOOLEAN]
           /\ blacklistedAccounts' \in [Account -> BOOLEAN]
           /\ dailyMintLimit' \in Uint
           /\ dailyBurnLimit' \in Uint
BY DEF TypeOK, listVars, adminVars, limitVars

-----------------------------------------------------------------------------
LEMMA MintPreserves ==
    ASSUME NUInvariant, NEW to \in Account, NEW amount \in Uint, Mint(to, amount)
    PROVE  NUInvariant'
<1>. USE ERC20Assumption, NUAssumption DEF NUInvariant
<1>1. Update(ZeroAddress, to, amount)
  BY DEF Mint, Move
<1>2. ZeroAddress \in Address /\ to \in Address /\ to # ZeroAddress
  BY DEF ZeroAddress, Address, Account
<1>3. balances' \in [Account -> Uint] /\ totalSupply' \in Uint /\ SupplyIsSumOfBalances'
  BY <1>1, <1>2, UpdateSound DEF TypeOK
<1>4. totalSupply' = totalSupply + amount
  BY <1>1, <1>2 DEF Update, AtEnd, TypeOK, ERC20TypeOK, Uint
<1>5. totalReserves' = totalReserves + amount /\ totalReserves' \in Uint
  BY DEF Mint, TypeOK, Uint
<1>6. /\ dailyMinted' \in Uint /\ dailyBurned' \in Uint /\ lastResetDay' \in Day
      /\ mintHistory' \in [Day -> Nat] /\ burnHistory' \in [Day -> Nat]
      /\ CountersMatchAuditTrail'
  BY CountingSound DEF Mint, adminVars
<1>7. TypeOK'
  BY <1>3, <1>5, <1>6, AdminFrame DEF Mint, TypeOK, ERC20TypeOK
<1>8. ReservesCoverSupply'
  BY <1>4, <1>5 DEF ReservesCoverSupply, TypeOK, ERC20TypeOK, Uint
<1>. QED
  BY <1>3, <1>6, <1>7, <1>8

LEMMA BatchMintPreserves ==
    ASSUME NUInvariant, NEW recipients \in SUBSET Account,
           NEW payout \in [Account -> Uint], BatchMint(recipients, payout)
    PROVE  NUInvariant'
<1>. USE ERC20Assumption, NUAssumption DEF NUInvariant
<1>1. PICK total \in Uint :
          /\ SumsTo(payout, MaxAddress, total)
          /\ CountMint(total)
          /\ totalReserves + total <= MaxUint
          /\ totalSupply + total <= MaxUint
          /\ totalReserves' = totalReserves + total
          /\ totalSupply' = totalSupply + total
          /\ mintHistory' = Record(mintHistory, total)
  BY DEF BatchMint
<1>2. /\ totalReserves \in Nat /\ totalSupply \in Nat /\ total \in Nat
      /\ MaxAddress \in Nat
      /\ balances \in [1..MaxAddress -> Nat] /\ payout \in [1..MaxAddress -> Nat]
  BY DEF TypeOK, ERC20TypeOK, Uint, Account
<1>3. totalReserves' \in Uint /\ totalSupply' \in Uint /\ totalSupply' \in Nat
  BY <1>1, <1>2 DEF Uint
<1>4. balances' = [a \in 1..MaxAddress |-> balances[a] + payout[a]]
  BY DEF BatchMint, Account
<1>5. SumsTo(balances', MaxAddress, totalSupply')
  <2>1. SumsTo(balances, MaxAddress, totalSupply)
    BY DEF SupplyIsSumOfBalances
  <2>2. \A k \in 1..MaxAddress : balances'[k] = balances[k] + payout[k]
    BY <1>4
  <2>. QED
    BY <1>1, <1>2, <2>1, <2>2, SumOfColumns
<1>6. balances' \in [Account -> Uint]
  <2>1. balances' \in [1..MaxAddress -> Nat]
    BY <1>2, <1>4
  <2>2. ASSUME NEW a \in 1..MaxAddress PROVE balances'[a] <= totalSupply'
    BY <1>2, <1>3, <1>5, <2>1, TermBound
  <2>. QED
    BY <1>3, <2>1, <2>2 DEF Account, Uint
<1>7. /\ dailyMinted' \in Uint /\ dailyBurned' \in Uint /\ lastResetDay' \in Day
      /\ mintHistory' \in [Day -> Nat] /\ burnHistory' \in [Day -> Nat]
      /\ CountersMatchAuditTrail'
  BY <1>1, CountingSound DEF BatchMint, adminVars
<1>8. TypeOK'
  BY <1>3, <1>6, <1>7, AdminFrame DEF BatchMint, TypeOK, ERC20TypeOK
<1>9. ReservesCoverSupply'
  BY <1>1, <1>2 DEF ReservesCoverSupply
<1>. QED
  BY <1>5, <1>7, <1>8, <1>9 DEF SupplyIsSumOfBalances

LEMMA BurnPreserves ==
    ASSUME NUInvariant, NEW from \in Account, NEW amount \in Uint, Burn(from, amount)
    PROVE  NUInvariant'
<1>. USE ERC20Assumption, NUAssumption DEF NUInvariant
<1>1. Update(from, ZeroAddress, amount)
  BY DEF Burn, Move
<1>2. ZeroAddress \in Address /\ from \in Address /\ from # ZeroAddress
  BY DEF ZeroAddress, Address, Account
<1>3. balances' \in [Account -> Uint] /\ totalSupply' \in Uint /\ SupplyIsSumOfBalances'
  BY <1>1, <1>2, UpdateSound DEF TypeOK
<1>4. totalSupply' = totalSupply - amount
  BY <1>1, <1>2 DEF Update, AtEnd, TypeOK, ERC20TypeOK, Uint
<1>5. totalReserves' = totalReserves - amount /\ totalReserves' \in Uint
  BY DEF Burn, TypeOK, Uint
<1>6. /\ dailyMinted' \in Uint /\ dailyBurned' \in Uint /\ lastResetDay' \in Day
      /\ mintHistory' \in [Day -> Nat] /\ burnHistory' \in [Day -> Nat]
      /\ CountersMatchAuditTrail'
  BY CountingSound DEF Burn, adminVars
<1>7. TypeOK'
  BY <1>3, <1>5, <1>6, AdminFrame DEF Burn, TypeOK, ERC20TypeOK
<1>8. ReservesCoverSupply'
  BY <1>4, <1>5 DEF ReservesCoverSupply, TypeOK, ERC20TypeOK, Uint
<1>. QED
  BY <1>3, <1>6, <1>7, <1>8

\* Moves by holders and spenders: the supply can only shrink.
LEMMA HolderMovePreserves ==
    ASSUME NUInvariant, NEW from \in Account, NEW to \in Address, NEW value \in Uint,
           Update(from, to, value),
           allowances' \in [Account -> [Account -> Uint]],
           UNCHANGED <<reserveVars, listVars, adminVars, today>>
    PROVE  NUInvariant'
<1>. USE ERC20Assumption, NUAssumption DEF NUInvariant
<1>1. from \in Address /\ from # ZeroAddress
  BY DEF ZeroAddress, Address, Account
<1>2. balances' \in [Account -> Uint] /\ totalSupply' \in Uint /\ SupplyIsSumOfBalances'
  BY <1>1, UpdateSound DEF TypeOK
<1>3. totalSupply' <= totalSupply
  BY <1>1 DEF Update, AtEnd, TypeOK, ERC20TypeOK, Uint
<1>4. UNCHANGED <<totalReserves, counterVars, auditVars, today>>
  BY DEF reserveVars
<1>5. TypeOK'
  BY <1>2, <1>4, AdminFrame, ReserveFrame DEF TypeOK, ERC20TypeOK
<1>6. ReservesCoverSupply'
  BY <1>2, <1>3, <1>4 DEF ReservesCoverSupply, TypeOK, ERC20TypeOK, Uint
<1>. QED
  BY <1>2, <1>4, <1>5, <1>6, ReserveFrame

\* Steps that touch neither balances nor reserves.
LEMMA QuietStepPreserves ==
    ASSUME NUInvariant, TypeOK',
           UNCHANGED <<balances, totalSupply, reserveVars>>, today' >= today
    PROVE  NUInvariant'
<1>1. today \in Int /\ today' \in Int /\ lastResetDay \in Int
  BY NUAssumption DEF NUInvariant, TypeOK, Day
<1>2. CountersMatchAuditTrail'
  BY <1>1 DEF NUInvariant, CountersMatchAuditTrail, reserveVars, counterVars, auditVars
<1>. QED
  BY <1>2 DEF NUInvariant, SupplyIsSumOfBalances, ReservesCoverSupply, reserveVars

-----------------------------------------------------------------------------
LEMMA HolderCallsPreserve == NUInvariant /\ HolderCalls => NUInvariant'
<1>. SUFFICES ASSUME NUInvariant, HolderCalls PROVE NUInvariant'
  OBVIOUS
<1>0. TypeOK /\ ERC20TypeOK
  BY DEF NUInvariant, TypeOK
<1>1. ZeroAddress \in Address /\ Account \subseteq Address /\ Spenders \subseteq Account
      /\ ApprovedAmounts \subseteq Uint
  BY NUAssumption, ERC20Assumption DEF ZeroAddress, Address, Account
<1>2. ASSUME NEW sender \in Account, NEW to \in Account, NEW value \in Uint,
             Transfer(sender, to, value)
      PROVE  NUInvariant'
  BY <1>0, <1>1, <1>2, HolderMovePreserves DEF Transfer, Move, ERC20TypeOK
<1>3. ASSUME NEW spender \in Spenders, NEW from \in Account, NEW to \in Account,
             NEW value \in Uint, TransferFrom(spender, from, to, value)
      PROVE  NUInvariant'
  <2>1. allowances' \in [Account -> [Account -> Uint]]
    BY <1>0, <1>1, <1>3, AllowanceSound DEF TransferFrom
  <2>. QED
    BY <1>1, <1>3, <2>1, HolderMovePreserves DEF TransferFrom, Move
<1>4. ASSUME NEW holder \in Account, NEW value \in Uint, BurnOwn(holder, value)
      PROVE  NUInvariant'
  BY <1>0, <1>1, <1>4, HolderMovePreserves DEF BurnOwn, Move, ERC20TypeOK
<1>5. ASSUME NEW spender \in Spenders, NEW from \in Account, NEW value \in Uint,
             BurnFrom(spender, from, value)
      PROVE  NUInvariant'
  <2>1. allowances' \in [Account -> [Account -> Uint]]
    BY <1>0, <1>1, <1>5, AllowanceSound DEF BurnFrom
  <2>. QED
    BY <1>1, <1>5, <2>1, HolderMovePreserves DEF BurnFrom, Move
<1>6. ASSUME NEW owner \in Account, NEW spender \in Spenders,
             NEW value \in ApprovedAmounts, Approve(owner, spender, value)
      PROVE  NUInvariant'
  <2>1. allowances' \in [Account -> [Account -> Uint]]
    BY <1>0, <1>1, <1>6, AllowanceSound DEF Approve
  <2>2. TypeOK'
    BY <1>0, <1>6, <2>1 DEF Approve, TypeOK, ERC20TypeOK, reserveVars, counterVars,
                           auditVars, listVars, adminVars, limitVars
  <2>3. today' >= today
    BY <1>0, <1>6, NUAssumption DEF Approve, TypeOK, Day
  <2>. QED
    BY <1>6, <2>2, <2>3, QuietStepPreserves DEF Approve
<1>. QED
  BY <1>2, <1>3, <1>4, <1>5, <1>6 DEF HolderCalls

LEMMA AdministrationPreserves == NUInvariant /\ Administration => NUInvariant'
<1>. SUFFICES ASSUME NUInvariant, Administration PROVE NUInvariant'
  OBVIOUS
<1>. USE NUAssumption
<1>0. TypeOK
  BY DEF NUInvariant
<1>1. UNCHANGED <<balances, totalSupply, allowances, reserveVars, today>>
  BY DEF Administration, FreezeAccount, UnfreezeAccount, SetFrozen, BlacklistAccount,
         UnblacklistAccount, SetBlacklisted, SetReserveAccount, SetDailyLimits, erc20Vars
<1>2. /\ frozenAccounts' \in [Account -> BOOLEAN]
      /\ blacklistedAccounts' \in [Account -> BOOLEAN]
      /\ reserveAccount' \in Account /\ dailyMintLimit' \in Uint /\ dailyBurnLimit' \in Uint
  BY <1>0 DEF Administration, FreezeAccount, UnfreezeAccount, SetFrozen, BlacklistAccount,
         UnblacklistAccount, SetBlacklisted, SetReserveAccount, SetDailyLimits, TypeOK,
         listVars, adminVars, limitVars
<1>3. TypeOK'
  BY <1>0, <1>1, <1>2 DEF TypeOK, ERC20TypeOK, reserveVars, counterVars, auditVars
<1>4. today' >= today
  BY <1>0, <1>1 DEF TypeOK, Day
<1>. QED
  BY <1>1, <1>3, <1>4, QuietStepPreserves

LEMMA DayPassesPreserves == NUInvariant /\ DayPasses => NUInvariant'
<1>. SUFFICES ASSUME NUInvariant, DayPasses PROVE NUInvariant'
  OBVIOUS
<1>1. TypeOK /\ today \in Nat /\ today' = today + 1 /\ today' \in Day
  BY NUAssumption DEF NUInvariant, TypeOK, DayPasses, Day
<1>2. TypeOK'
  BY <1>1 DEF DayPasses, TypeOK, ERC20TypeOK, erc20Vars, reserveVars, counterVars,
              auditVars, listVars, adminVars, limitVars
<1>3. UNCHANGED <<balances, totalSupply, reserveVars>>
  BY DEF DayPasses, erc20Vars
<1>. QED
  BY <1>1, <1>2, <1>3, QuietStepPreserves

LEMMA IssuancePreserves == NUInvariant /\ Issuance => NUInvariant'
BY MintPreserves, BatchMintPreserves, BurnPreserves DEF Issuance

LEMMA StutterPreserves == NUInvariant /\ UNCHANGED vars => NUInvariant'
<1>. SUFFICES ASSUME NUInvariant, UNCHANGED vars PROVE NUInvariant'
  OBVIOUS
<1>1. TypeOK /\ TypeOK'
  BY DEF NUInvariant, TypeOK, ERC20TypeOK, vars, erc20Vars, reserveVars, counterVars,
         auditVars, listVars, adminVars, limitVars
<1>2. today' >= today
  BY <1>1, NUAssumption DEF TypeOK, Day, vars
<1>. QED
  BY <1>1, <1>2, QuietStepPreserves DEF vars, erc20Vars

\* The conjunction of the type invariant, the balance sheet, the reserve cover
\* and the daily counters is an inductive invariant of the contract.
THEOREM InvariantHolds == Spec => []NUInvariant
<1>1. NUInvariant /\ [Next]_vars => NUInvariant'
  BY IssuancePreserves, HolderCallsPreserve, AdministrationPreserves,
     DayPassesPreserves, StutterPreserves DEF Next
<1>. QED
  BY InitEstablishes, <1>1, PTL DEF Spec

-----------------------------------------------------------------------------
\* Every quantity stays in its range; in particular no balance, reserve or
\* counter leaves the uint range, though _update does unchecked arithmetic.
THEOREM TypeCorrect == Spec => []TypeOK
BY InvariantHolds, PTL DEF NUInvariant

\* The supply is the sum of the balances.
THEOREM BalanceSheetHolds == Spec => []SupplyIsSumOfBalances
BY InvariantHolds, PTL DEF NUInvariant

\* getReserveRatio "should always be >= 1.0": every token is covered.
THEOREM ReservesCover == Spec => []ReservesCoverSupply
BY InvariantHolds, PTL DEF NUInvariant

\* The daily counters agree with the audit trail.
THEOREM CountersMatch == Spec => []CountersMatchAuditTrail
BY InvariantHolds, PTL DEF NUInvariant

\* "Insufficient reserves" never refuses a redemption an account can ask for.
THEOREM Redeemable == Spec => []EveryBalanceRedeemable
<1>1. NUInvariant => EveryBalanceRedeemable
  <2>. SUFFICES ASSUME NUInvariant, NEW a \in Account
                PROVE  balances[a] <= totalReserves
    BY DEF EveryBalanceRedeemable
  <2>1. balances[a] <= totalSupply
    BY BalanceBound DEF NUInvariant, TypeOK
  <2>. QED
    BY <2>1, ERC20Assumption DEF NUInvariant, ReservesCoverSupply, TypeOK, ERC20TypeOK, Uint
<1>. QED
  BY InvariantHolds, <1>1, PTL

-----------------------------------------------------------------------------
\* A move passes over restricted accounts.
LEMMA MoveSparesRestricted ==
    ASSUME ERC20TypeOK, NEW from \in Address, NEW to \in Address, NEW value \in Uint,
           Move(from, to, value), NEW a \in Account, ~Unrestricted(a)
    PROVE  balances'[a] = balances[a]
<1>1. a # from /\ a # to
  BY DEF Move, Unrestricted
<1>2. balances[a] \in Int
  BY ERC20Assumption DEF ERC20TypeOK, Uint
<1>. QED
  BY <1>1, <1>2 DEF Move, Update, Moved, AtEnd

\* Freezing or blacklisting fixes an account's balance on every path: mint,
\* batch, transfer, spender transfer, and all three kinds of burn.
THEOREM RestrictedFixed == Spec => RestrictedBalancesFixed
<1>1. ASSUME NUInvariant, Next, NEW a \in Account, ~Unrestricted(a)
      PROVE  balances'[a] = balances[a]
  <2>. USE ERC20Assumption, NUAssumption
  <2>0. ERC20TypeOK /\ balances[a] \in Int
    BY <1>1 DEF NUInvariant, TypeOK, ERC20TypeOK, Uint
  <2>1. ZeroAddress \in Address /\ Account \subseteq Address /\ Spenders \subseteq Account
    BY DEF ZeroAddress, Address, Account
  <2>2. ASSUME NEW recipients \in SUBSET Account, NEW payout \in [Account -> Uint],
               BatchMint(recipients, payout)
        PROVE  balances'[a] = balances[a]
    <3>1. payout[a] = 0
      BY <1>1, <2>2 DEF BatchMint
    <3>. QED
      BY <2>0, <2>2, <3>1 DEF BatchMint
  <2>3. CASE Issuance
    BY <1>1, <2>0, <2>1, <2>2, <2>3, MoveSparesRestricted DEF Issuance, Mint, Burn
  <2>4. CASE HolderCalls
    <3>1. \/ \E from \in Account, to \in Address, value \in Uint : Move(from, to, value)
          \/ UNCHANGED balances
      BY <2>1, <2>4 DEF HolderCalls, Transfer, TransferFrom, BurnOwn, BurnFrom, Approve
    <3>. QED
      BY <1>1, <2>0, <2>1, <3>1, MoveSparesRestricted
  <2>5. CASE Administration \/ DayPasses
    BY <2>5 DEF Administration, FreezeAccount, UnfreezeAccount, SetFrozen, DayPasses,
          BlacklistAccount, UnblacklistAccount, SetBlacklisted, SetReserveAccount,
          SetDailyLimits, erc20Vars
  <2>. QED
    BY <1>1, <2>3, <2>4, <2>5 DEF Next
<1>2. NUInvariant /\ [Next]_vars
        => [\A a \in Account : ~Unrestricted(a) => balances'[a] = balances[a]]_vars
  BY <1>1
<1>. QED
  BY InvariantHolds, <1>2, PTL DEF Spec, RestrictedBalancesFixed

\* Counting keeps the trail of the day within the limit in force.
LEMMA CountingLimited ==
    ASSUME NUInvariant, NEW amount \in Uint, NEW d \in Day
    PROVE  /\ CountMint(amount) /\ mintHistory' = Record(mintHistory, amount)
                /\ mintHistory'[d] > mintHistory[d] => mintHistory'[d] <= dailyMintLimit
           /\ CountBurn(amount) /\ burnHistory' = Record(burnHistory, amount)
                /\ burnHistory'[d] > burnHistory[d] => burnHistory'[d] <= dailyBurnLimit
<1>. USE ERC20Assumption, NUAssumption
<1>1. /\ today \in Day /\ lastResetDay \in Day /\ lastResetDay <= today
      /\ mintHistory \in [Day -> Nat] /\ burnHistory \in [Day -> Nat]
      /\ CountersMatchAuditTrail
  BY DEF NUInvariant, TypeOK, CountersMatchAuditTrail
<1>2. /\ SinceReset(dailyMinted) = mintHistory[today]
      /\ SinceReset(dailyBurned) = burnHistory[today]
  BY <1>1 DEF SinceReset, NewDay, CountersMatchAuditTrail, Day
<1>3. ASSUME NEW h \in [Day -> Nat], Record(h, amount)[d] > h[d]
      PROVE  d = today /\ Record(h, amount)[d] = h[today] + amount
  BY <1>1, <1>3 DEF Record, Day
<1>. QED
  BY <1>1, <1>2, <1>3 DEF CountMint, CountBurn

\* The audit trail of one calendar day is never raised beyond the limit in
\* force, whatever the order of mints, burns, limit changes and midnights.
THEOREM DayLimited == Spec => DayWithinLimits
<1> DEFINE Within(d) ==
      /\ mintHistory'[d] > mintHistory[d] => mintHistory'[d] <= dailyMintLimit
      /\ burnHistory'[d] > burnHistory[d] => burnHistory'[d] <= dailyBurnLimit
<1>1. ASSUME NUInvariant, Next, NEW d \in Day PROVE Within(d)
  <2>. USE ERC20Assumption, NUAssumption
  <2>1. mintHistory[d] \in Int /\ burnHistory[d] \in Int
    BY <1>1 DEF NUInvariant, TypeOK
  <2>2. CASE Issuance
    <3>1. \/ \E amount \in Uint : CountMint(amount) /\ mintHistory' = Record(mintHistory, amount)
                                    /\ burnHistory' = burnHistory
          \/ \E amount \in Uint : CountBurn(amount) /\ burnHistory' = Record(burnHistory, amount)
                                    /\ mintHistory' = mintHistory
      BY <2>2 DEF Issuance, Mint, BatchMint, Burn
    <3>. QED
      BY <1>1, <2>1, <3>1, CountingLimited
  <2>3. CASE HolderCalls \/ Administration \/ DayPasses
    <3>1. UNCHANGED <<mintHistory, burnHistory>>
      BY <2>3 DEF HolderCalls, Transfer, TransferFrom, BurnOwn, BurnFrom, Approve,
            Administration, FreezeAccount, UnfreezeAccount, SetFrozen, DayPasses,
            BlacklistAccount, UnblacklistAccount, SetBlacklisted, SetReserveAccount,
            SetDailyLimits, reserveVars, auditVars
    <3>. QED
      BY <2>1, <3>1
  <2>. QED
    BY <1>1, <2>2, <2>3 DEF Next
<1>2. NUInvariant /\ [Next]_vars => [\A d \in Day : Within(d)]_vars
  BY <1>1
<1>. QED
  BY InvariantHolds, <1>2, PTL DEF Spec, DayWithinLimits

-----------------------------------------------------------------------------
\* The contract implements the abstract backed token: issues and redemptions
\* move supply and reserve together, holders' burns forfeit reserve, and all
\* else is a stuttering step of the abstract token.
THEOREM RefinesBackedSupply == Spec => ImplementsBackedSupply
<1>. USE ERC20Assumption, NUAssumption
<1>1. Init => Backed!Init
  BY DEF Init, ERC20Init, Backed!Init
<1>2. ASSUME NUInvariant, NUInvariant', [Next]_vars
      PROVE  [Backed!Next]_Backed!vars
  <2>. USE <1>2
  <2>0. /\ totalSupply \in Nat /\ totalSupply' \in Nat
        /\ totalReserves \in Nat /\ totalReserves' \in Nat
    BY DEF NUInvariant, TypeOK, ERC20TypeOK, Uint
  <2>. USE <2>0 DEF Backed!Next, Backed!vars, Backed!Issue, Backed!Redeem, Backed!Forfeit
  <2>1. ASSUME NEW to \in Account, NEW amount \in Uint, Mint(to, amount)
        PROVE  [Backed!Next]_Backed!vars
    BY <2>1 DEF Mint, Move, Update, AtEnd, ZeroAddress, Account, Uint
  <2>2. ASSUME NEW recipients \in SUBSET Account, NEW payout \in [Account -> Uint],
               BatchMint(recipients, payout)
        PROVE  [Backed!Next]_Backed!vars
    BY <2>2 DEF BatchMint, Uint
  <2>3. ASSUME NEW from \in Account, NEW amount \in Uint, Burn(from, amount)
        PROVE  [Backed!Next]_Backed!vars
    BY <2>3 DEF Burn, Move, Update, AtEnd, ZeroAddress, Account, Uint
  <2>4. CASE HolderCalls
    <3>1. totalReserves' = totalReserves
      BY <2>4 DEF HolderCalls, Transfer, TransferFrom, BurnOwn, BurnFrom, Approve, reserveVars
    <3>2. totalSupply' <= totalSupply
      <4>1. \/ UNCHANGED totalSupply
            \/ \E from \in Account, to \in Address, value \in Uint : Update(from, to, value)
        BY <2>4 DEF HolderCalls, Transfer, TransferFrom, BurnOwn, BurnFrom, Approve, Move,
              ZeroAddress, Address, Account
      <4>. QED
        BY <4>1 DEF Update, AtEnd, ZeroAddress, Account, Uint
    <3>3. CASE totalSupply' < totalSupply
      <4>1. totalSupply' >= 0
        OBVIOUS
      <4>2. Backed!Forfeit
        BY <3>1, <3>3, <4>1
      <4>. QED
        BY <4>2
    <3>4. CASE totalSupply' = totalSupply
      BY <3>1, <3>4
    <3>. QED
      BY <3>2, <3>3, <3>4
  <2>5. CASE Administration \/ DayPasses \/ UNCHANGED vars
    BY <2>5 DEF Administration, FreezeAccount, UnfreezeAccount, SetFrozen, DayPasses,
          BlacklistAccount, UnblacklistAccount, SetBlacklisted, SetReserveAccount,
          SetDailyLimits, vars, erc20Vars, reserveVars
  <2>. QED
    BY <2>1, <2>2, <2>3, <2>4, <2>5 DEF Next, Issuance
<1>. QED
  BY <1>1, <1>2, InvariantHolds, PTL DEF Spec, ImplementsBackedSupply, Backed!Spec

=============================================================================
