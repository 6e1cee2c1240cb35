--------------------------- MODULE CustodyProofs ---------------------------
(***************************************************************************)
(* Theorems about CustodyService, for any customers, tokens, NFTs, limits  *)
(* and blocks.  The inductive invariant has one part per group of          *)
(* variables; every action disturbs a few parts and frames the others.     *)
(***************************************************************************)
EXTENDS CustodyService, BalanceSheetTheorems, TLAPS

RegistrySound ==
    /\ active \in [Customer -> BOOLEAN]
    /\ customerId \in [Customer -> CustomerId \cup {0}]
    /\ customerIdToAddress \in [CustomerId -> Customer \cup {0}]
    /\ customerCount \in 0..MaxRegistrations
    /\ ActiveIdsResolve

\* A counter is never reset ahead of time: that is what makes the lazy reset
\* equal to one at midnight.
LimitsSound ==
    /\ now \in Time
    /\ dailyWithdrawn \in [Customer -> Nat]
    /\ lastResetDay \in [Customer -> Nat]
    /\ limitedToday \in [Customer -> Nat]
    /\ \A c \in Customer : lastResetDay[c] <= today
    /\ CounterMatchesDay

SettingsSound ==
    /\ requiredSignatures \in Nat \ {0}
    /\ dailyWithdrawalLimits \in [Customer -> Nat]
    /\ insuranceContract \in Insurers \cup {0}
    /\ paused \in BOOLEAN

TokensSound ==
    /\ balances \in [Customer -> [Token -> 0..Supply]]
    /\ held \in [Token -> 0..Supply]
    /\ OwedCovered

NFTsSound ==
    /\ assets \subseteq Record
    /\ heldNFTs \subseteq NFT
    /\ RecordsCovered

LogSound ==
    /\ DOMAIN transactions \subseteq TxId
    /\ \A id \in DOMAIN transactions : transactions[id] \in Operator

CustodyInvariant ==
    RegistrySound /\ LimitsSound /\ SettingsSound /\ TokensSound /\ NFTsSound /\ LogSound

-----------------------------------------------------------------------------
(* Frames: a part whose variables are unchanged stays sound.               *)

LEMMA RegistryFrame ==
    ASSUME RegistrySound, UNCHANGED registryVars PROVE RegistrySound'
BY DEF RegistrySound, registryVars, ActiveIdsResolve

LEMMA LimitsFrame ==
    ASSUME LimitsSound, UNCHANGED <<limitVars, now>> PROVE LimitsSound'
BY DEF LimitsSound, limitVars, CounterMatchesDay, WithdrawnSinceReset, today

LEMMA SettingsFrame ==
    ASSUME SettingsSound, UNCHANGED settingVars PROVE SettingsSound'
BY DEF SettingsSound, settingVars

LEMMA TokensFrame ==
    ASSUME TokensSound, UNCHANGED tokenVars PROVE TokensSound'
BY DEF TokensSound, tokenVars, OwedCovered, Owed

LEMMA NFTsFrame ==
    ASSUME NFTsSound, UNCHANGED nftVars PROVE NFTsSound'
BY DEF NFTsSound, nftVars, RecordsCovered

LEMMA LogFrame ==
    ASSUME LogSound, UNCHANGED transactions PROVE LogSound'
BY DEF LogSound

-----------------------------------------------------------------------------
(* The parts of the actions.                                               *)

LEMMA LogKeepsSound ==
    ASSUME LogSound, NEW c \in Customer, NEW asset \in Token \cup NFT,
           NEW amount \in 0..Supply, NEW kind \in Kind, NEW operator \in Operator,
           Log(c, asset, amount, kind, operator)
    PROVE  LogSound'
BY DEF LogSound, Log, TxId

LEMMA EnrolKeepsRegistry ==
    ASSUME RegistrySound, NEW c \in Customer, NEW id \in CustomerId,
           RegisterCustomer(c, id)
    PROVE  RegistrySound'
<1>. USE CustodyAssumption DEF RegisterCustomer, Enrol, RegistrySound
<1>1. /\ active' \in [Customer -> BOOLEAN]
      /\ customerId' \in [Customer -> CustomerId \cup {0}]
      /\ customerIdToAddress' \in [CustomerId -> Customer \cup {0}]
      /\ customerCount' \in 0..MaxRegistrations
  OBVIOUS
<1>2. ASSUME NEW d \in Customer, active'[d]
      PROVE  customerId'[d] # 0 /\ customerIdToAddress'[customerId'[d]] = d
  <2>1. CASE d = c
    BY <2>1
  <2>2. CASE d # c
    <3>1. active[d] /\ customerId'[d] = customerId[d]
      BY <1>2, <2>2
    <3>2. customerId[d] # 0 /\ customerIdToAddress[customerId[d]] = d
      BY <3>1 DEF ActiveIdsResolve
    <3>3. customerId[d] # id
      BY <3>2 DEF Customer
    <3>. QED
      BY <3>1, <3>2, <3>3
  <2>. QED
    BY <2>1, <2>2
<1>. QED
  BY <1>1, <1>2 DEF ActiveIdsResolve

LEMMA DeactivateKeepsRegistry ==
    ASSUME RegistrySound, NEW c \in Customer, DeactivateCustomer(c)
    PROVE  RegistrySound'
BY DEF RegistrySound, DeactivateCustomer, ActiveIdsResolve

LEMMA CountKeepsLimits ==
    ASSUME LimitsSound, SettingsSound, NEW c \in Customer, NEW amount \in Amount,
           CountWithdrawal(c, amount), UNCHANGED now
    PROVE  LimitsSound'
<1>. DEFINE counted == IF dailyWithdrawalLimits[c] > 0 THEN amount ELSE 0
<1>1. today \in Nat /\ today' = today
  BY CustodyAssumption DEF LimitsSound, today, Time
<1>2. counted \in Nat
  BY DEF SettingsSound, Amount
<1>3. WithdrawnSinceReset(c) \in Nat /\ WithdrawnSinceReset(c) = limitedToday[c]
  BY DEF LimitsSound, WithdrawnSinceReset, CounterMatchesDay
<1>4. /\ dailyWithdrawn' = [dailyWithdrawn EXCEPT ![c] = WithdrawnSinceReset(c) + counted]
      /\ limitedToday' = [limitedToday EXCEPT ![c] = @ + counted]
  BY DEF CountWithdrawal
<1>5. lastResetDay' = [lastResetDay EXCEPT ![c] = today]
  <2>1. ResetDay(c) = today
    BY <1>1 DEF ResetDay, LimitsSound
  <2>. QED
    BY <2>1 DEF CountWithdrawal
<1> HIDE DEF counted
<1>6. ASSUME NEW d \in Customer
      PROVE  lastResetDay'[d] <= today' /\ WithdrawnSinceReset(d)' = limitedToday'[d]
  <2>1. CASE d = c
    BY <1>1, <1>2, <1>3, <1>4, <1>5, <2>1 DEF LimitsSound, WithdrawnSinceReset
  <2>2. CASE d # c
    BY <1>1, <1>4, <1>5, <2>2 DEF LimitsSound, WithdrawnSinceReset, CounterMatchesDay
  <2>. QED
    BY <2>1, <2>2
<1>7. /\ now' \in Time
      /\ dailyWithdrawn' \in [Customer -> Nat]
      /\ lastResetDay' \in [Customer -> Nat]
      /\ limitedToday' \in [Customer -> Nat]
  BY <1>1, <1>2, <1>3, <1>4, <1>5 DEF LimitsSound
<1>. QED
  BY <1>6, <1>7 DEF LimitsSound, CounterMatchesDay

\* Days follow one another.
LEMMA DayAdvances ==
    ASSUME NEW n \in Nat, NEW d \in Nat \ {0}
    PROVE  n \div d \in Nat /\ (n + 1) \div d >= n \div d
OBVIOUS

LEMMA TickKeepsLimits ==
    ASSUME LimitsSound, Tick PROVE LimitsSound'
<1>1. now \in Nat /\ now' = now + 1 /\ now' \in Time
  BY CustodyAssumption DEF LimitsSound, Tick, Time
<1>2. today \in Nat /\ today' \in Nat /\ today' >= today
  BY <1>1, DayAdvances, CustodyAssumption DEF today
<1>3. /\ limitedToday' = IF today' > today THEN [c \in Customer |-> 0] ELSE limitedToday
      /\ dailyWithdrawn' = dailyWithdrawn
      /\ lastResetDay' = lastResetDay
  BY DEF Tick
<1>4. ASSUME NEW c \in Customer
      PROVE  lastResetDay'[c] <= today' /\ WithdrawnSinceReset(c)' = limitedToday'[c]
  <2>1. CASE today' > today
    BY <1>2, <1>3, <2>1 DEF LimitsSound, WithdrawnSinceReset
  <2>2. CASE today' = today
    BY <1>2, <1>3, <2>2 DEF LimitsSound, WithdrawnSinceReset, CounterMatchesDay
  <2>. QED
    BY <1>2, <2>1, <2>2
<1>. QED
  BY <1>1, <1>3, <1>4 DEF LimitsSound, CounterMatchesDay

-----------------------------------------------------------------------------
(* Tokens: what is owed in one token is a column of balances.              *)

\* The column of one token after v moves from customer a to customer b, where
\* 0 stands for outside: the new column is covered by any holding h that
\* covers the new total, and its entries stay within the supply.
LEMMA OwedAfterMove ==
    ASSUME NEW f \in [Customer -> Nat], NEW s \in Nat, SumsTo(f, MaxCustomer, s),
           NEW a \in Customer \cup {0}, NEW b \in Customer \cup {0}, NEW v \in Nat,
           a # 0 => f[a] >= v,
           NEW g \in [Customer -> Int], EntriesMoved(f, g, MaxCustomer, a, b, v),
           NEW h \in 0..Supply, NEW u \in Nat, u = TotalMoved(s, a, b, v), u <= h
    PROVE  /\ \E owed \in 0..h : SumsTo(g, MaxCustomer, owed)
           /\ g \in [Customer -> 0..Supply]
<1>1. MaxCustomer \in Nat /\ Supply \in Nat /\ a \in 0..MaxCustomer /\ b \in 0..MaxCustomer
  BY CustodyAssumption DEF Customer
<1>2. f \in [1..MaxCustomer -> Nat]
  BY DEF Customer
<1>3. SumsTo(g, MaxCustomer, u)
  BY <1>1, <1>2, SumAfterMove
<1>4. g \in [1..MaxCustomer -> Nat]
  <2>1. ASSUME NEW k \in Customer PROVE g[k] \in Nat
    BY DEF EntriesMoved, Customer
  <2>. QED
    BY <2>1 DEF Customer
<1>5. ASSUME NEW k \in Customer PROVE g[k] \in 0..Supply
  <2>1. g[k] <= u /\ g[k] \in Nat
    BY <1>1, <1>3, <1>4, TermBound DEF Customer
  <2>. QED
    BY <1>1, <2>1
<1>. QED
  BY <1>3, <1>5

LEMMA DepositKeepsTokens ==
    ASSUME TokensSound, NEW operator \in Operator, NEW c \in Customer, NEW t \in Token,
           NEW amount \in Amount, DepositERC20(operator, c, t, amount)
    PROVE  TokensSound'
<1>1. /\ held[t] + amount <= Supply
      /\ held' = [held EXCEPT ![t] = @ + amount]
      /\ balances' = [balances EXCEPT ![c][t] = @ + amount]
  BY DEF DepositERC20
<1>2. Supply \in Nat /\ amount \in Nat /\ 0 \notin Customer
  BY CustodyAssumption DEF Amount, Customer
<1>3. /\ balances \in [Customer -> [Token -> 0..Supply]]
      /\ held \in [Token -> 0..Supply]
  BY DEF TokensSound
<1>4. held' \in [Token -> 0..Supply]
  BY <1>1, <1>2, <1>3
<1>5. ASSUME NEW u \in Token
      PROVE  /\ \E owed \in 0..held'[u] : SumsTo(Owed(u)', MaxCustomer, owed)
             /\ Owed(u)' \in [Customer -> 0..Supply]
  <2>1. PICK s \in 0..held[u] : SumsTo(Owed(u), MaxCustomer, s)
    BY DEF TokensSound, OwedCovered
  <2>2. CASE u # t
    <3>1. Owed(u)' = Owed(u) /\ held'[u] = held[u]
      BY <1>1, <1>3, <2>2 DEF Owed
    <3>2. Owed(u) \in [Customer -> 0..Supply]
      BY <1>3 DEF Owed
    <3>. QED
      BY <2>1, <3>1, <3>2
  <2>3. CASE u = t
    <3>1. held'[u] = held[u] + amount /\ held'[u] \in 0..Supply
      BY <1>1, <1>3, <1>4, <2>3
    <3>2. Owed(u) \in [Customer -> Nat] /\ Owed(u)' \in [Customer -> Int]
      BY <1>1, <1>2, <1>3 DEF Owed
    <3>3. EntriesMoved(Owed(u), Owed(u)', MaxCustomer, 0, c, amount)
      BY <1>1, <1>2, <1>3, <2>3 DEF Owed, EntriesMoved, Customer
    <3>4. /\ s \in Nat /\ s + amount \in Nat /\ s + amount <= held'[u]
          /\ s + amount = TotalMoved(s, 0, c, amount)
      BY <1>2, <1>3, <2>1, <3>1 DEF TotalMoved
    <3>. QED
      BY <1>2, <2>1, <3>1, <3>2, <3>3, <3>4, OwedAfterMove
  <2>. QED
    BY <2>2, <2>3
<1>6. balances' \in [Customer -> [Token -> 0..Supply]]
  <2>1. balances' \in [Customer -> [Token -> Int]]
    BY <1>1, <1>2, <1>3
  <2>2. ASSUME NEW d \in Customer, NEW u \in Token PROVE balances'[d][u] \in 0..Supply
    BY <1>5 DEF Owed
  <2>. QED
    BY <2>1, <2>2
<1>. QED
  BY <1>4, <1>5, <1>6 DEF TokensSound, OwedCovered

LEMMA WithdrawKeepsTokens ==
    ASSUME TokensSound, NEW operator \in Operator, NEW c \in Customer, NEW t \in Token,
           NEW amount \in Amount, NEW toSelf \in BOOLEAN,
           WithdrawERC20(operator, c, t, amount, toSelf)
    PROVE  TokensSound'
<1>1. /\ balances[c][t] >= amount
      /\ held[t] >= amount
      /\ held' = IF toSelf THEN held ELSE [held EXCEPT ![t] = @ - amount]
      /\ balances' = [balances EXCEPT ![c][t] = @ - amount]
  BY DEF WithdrawERC20
<1>2. Supply \in Nat /\ amount \in Nat /\ 0 \notin Customer /\ MaxCustomer \in Nat
  BY CustodyAssumption DEF Amount, Customer
<1>3. /\ balances \in [Customer -> [Token -> 0..Supply]]
      /\ held \in [Token -> 0..Supply]
  BY DEF TokensSound
<1>4. held' \in [Token -> 0..Supply]
  BY <1>1, <1>2, <1>3
<1>5. ASSUME NEW u \in Token
      PROVE  /\ \E owed \in 0..held'[u] : SumsTo(Owed(u)', MaxCustomer, owed)
             /\ Owed(u)' \in [Customer -> 0..Supply]
  <2>1. PICK s \in 0..held[u] : SumsTo(Owed(u), MaxCustomer, s)
    BY DEF TokensSound, OwedCovered
  <2>2. CASE u # t
    <3>1. Owed(u)' = Owed(u) /\ held'[u] = held[u]
      BY <1>1, <1>3, <2>2 DEF Owed
    <3>2. Owed(u) \in [Customer -> 0..Supply]
      BY <1>3 DEF Owed
    <3>. QED
      BY <2>1, <3>1, <3>2
  <2>3. CASE u = t
    <3>1. held'[u] \in 0..Supply /\ held'[u] >= held[u] - amount
      BY <1>1, <1>2, <1>3, <1>4, <2>3
    <3>2. Owed(u) \in [Customer -> Nat] /\ Owed(u)' \in [Customer -> Int]
      BY <1>1, <1>2, <1>3 DEF Owed
    <3>3. EntriesMoved(Owed(u), Owed(u)', MaxCustomer, c, 0, amount)
      BY <1>1, <1>2, <1>3, <2>3 DEF Owed, EntriesMoved, Customer
    <3>4. s >= amount /\ Owed(u)[c] >= amount
      <4>1. s \in Nat /\ Owed(u) \in [1..MaxCustomer -> Nat] /\ c \in 1..MaxCustomer
        BY <1>3, <2>1, <3>2 DEF Customer
      <4>2. Owed(u)[c] <= s
        BY <1>2, <2>1, <4>1, TermBound
      <4>3. Owed(u)[c] >= amount
        BY <1>1, <2>3 DEF Owed
      <4>. QED
        BY <1>2, <3>2, <4>1, <4>2, <4>3
    <3>5. /\ s \in Nat /\ s - amount \in Nat /\ s - amount <= held'[u]
          /\ s - amount = TotalMoved(s, c, 0, amount)
      BY <1>2, <1>3, <2>1, <3>1, <3>4 DEF TotalMoved
    <3>. QED
      BY <1>2, <2>1, <3>1, <3>2, <3>3, <3>4, <3>5, OwedAfterMove
  <2>. QED
    BY <2>2, <2>3
<1>6. balances' \in [Customer -> [Token -> 0..Supply]]
  <2>1. balances' \in [Customer -> [Token -> Int]]
    BY <1>1, <1>2, <1>3
  <2>2. ASSUME NEW d \in Customer, NEW u \in Token PROVE balances'[d][u] \in 0..Supply
    BY <1>5 DEF Owed
  <2>. QED
    BY <2>1, <2>2
<1>. QED
  BY <1>4, <1>5, <1>6 DEF TokensSound, OwedCovered

LEMMA ReceiveKeepsTokens ==
    ASSUME TokensSound, NEW t \in Token, NEW amount \in Amount, ReceiveTokens(t, amount)
    PROVE  TokensSound'
<1>1. /\ held[t] + amount <= Supply
      /\ held' = [held EXCEPT ![t] = @ + amount]
      /\ balances' = balances
  BY DEF ReceiveTokens
<1>2. Supply \in Nat /\ amount \in Nat /\ held \in [Token -> 0..Supply]
  BY CustodyAssumption DEF Amount, TokensSound
<1>3. held' \in [Token -> 0..Supply] /\ \A u \in Token : held'[u] >= held[u]
  BY <1>1, <1>2
<1>4. ASSUME NEW u \in Token
      PROVE  \E owed \in 0..held'[u] : SumsTo(Owed(u)', MaxCustomer, owed)
  <2>1. PICK s \in 0..held[u] : SumsTo(Owed(u), MaxCustomer, s)
    BY DEF TokensSound, OwedCovered
  <2>2. s \in 0..held'[u]
    BY <1>2, <1>3, <2>1
  <2>3. Owed(u)' = Owed(u)
    BY <1>1 DEF Owed
  <2>. QED
    BY <2>1, <2>2, <2>3
<1>. QED
  BY <1>1, <1>3, <1>4 DEF TokensSound, OwedCovered

-----------------------------------------------------------------------------
(* NFTs.                                                                   *)

LEMMA DepositKeepsNFTs ==
    ASSUME NFTsSound, LimitsSound, NEW operator \in Operator, NEW c \in Customer,
           NEW n \in NFT, DepositERC721(operator, c, n)
    PROVE  NFTsSound'
<1>. DEFINE record == [owner |-> c, nft |-> n, depositedAt |-> now]
<1>1. record \in Record /\ record.nft = n
  BY DEF Record, LimitsSound
<1>2. \A old \in assets : old.nft # n
  BY DEF NFTsSound, RecordsCovered, DepositERC721
<1>3. assets' = assets \cup {record} /\ heldNFTs' = heldNFTs \cup {n}
  BY DEF DepositERC721
<1> HIDE DEF record
<1>. QED
  BY <1>1, <1>2, <1>3 DEF NFTsSound, RecordsCovered

LEMMA WithdrawKeepsNFTs ==
    ASSUME NFTsSound, NEW operator \in Operator, NEW c \in Customer, NEW n \in NFT,
           NEW toSelf \in BOOLEAN, WithdrawERC721(operator, c, n, toSelf)
    PROVE  NFTsSound'
<1>1. PICK record \in assets : record.nft = n /\ assets' = assets \ {record}
  BY DEF WithdrawERC721
<1>2. heldNFTs' = heldNFTs \/ heldNFTs' = heldNFTs \ {n}
  BY DEF WithdrawERC721
<1>. QED
  BY <1>1, <1>2 DEF NFTsSound, RecordsCovered

LEMMA ReceiveKeepsNFTs ==
    ASSUME NFTsSound, NEW n \in NFT, ReceiveNFT(n)
    PROVE  NFTsSound'
BY DEF NFTsSound, RecordsCovered, ReceiveNFT

-----------------------------------------------------------------------------
(* The invariant.                                                          *)

LEMMA InitEstablishes == Init => CustodyInvariant
<1>. SUFFICES ASSUME Init PROVE CustodyInvariant
  OBVIOUS
<1>. USE CustodyAssumption DEF Init
<1>1. RegistrySound
  BY DEF RegistrySound, ActiveIdsResolve
<1>2. LimitsSound
  <2>1. 0 \div DayLength \in Nat
    BY DayAdvances
  <2>. QED
    BY <2>1 DEF LimitsSound, Time, CounterMatchesDay, WithdrawnSinceReset, today
<1>3. SettingsSound
  <2>1. requiredSignatures \in Nat \ {0} /\ dailyWithdrawalLimits \in [Customer -> Nat]
    OBVIOUS
  <2>2. insuranceContract \in Insurers \cup {0} /\ paused \in BOOLEAN
    OBVIOUS
  <2>. QED
    BY <2>1, <2>2 DEF SettingsSound
<1>4. TokensSound
  <2>1. ASSUME NEW t \in Token
        PROVE  \E owed \in 0..held[t] : SumsTo(Owed(t), MaxCustomer, owed)
    <3>1. MaxCustomer \in Nat /\ held[t] = 0
      OBVIOUS
    <3>2. \A k \in 1..MaxCustomer : Owed(t)[k] = 0
      BY DEF Owed, Customer
    <3>. QED
      BY <3>1, <3>2, SumOfZeros
  <2>. QED
    BY <2>1 DEF TokensSound, OwedCovered
<1>5. NFTsSound /\ LogSound
  BY DEF NFTsSound, RecordsCovered, LogSound
<1>. QED
  BY <1>1, <1>2, <1>3, <1>4, <1>5 DEF CustodyInvariant

LEMMA CustomerManagementPreserves ==
    ASSUME CustodyInvariant, CustomerManagement PROVE CustodyInvariant'
<1>. USE DEF CustodyInvariant
<1>1. ASSUME NEW c \in Customer, NEW id \in CustomerId, RegisterCustomer(c, id)
      PROVE  CustodyInvariant'
  <2>. USE <1>1
  <2>1. RegistrySound'
    BY EnrolKeepsRegistry
  <2>2. UNCHANGED <<limitVars, settingVars, tokenVars, nftVars, transactions, now>>
    BY DEF RegisterCustomer, Enrol
  <2>. QED
    BY <2>1, <2>2, LimitsFrame, SettingsFrame, TokensFrame, NFTsFrame, LogFrame
<1>2. ASSUME NEW c \in Customer, DeactivateCustomer(c)
      PROVE  CustodyInvariant'
  <2>. USE <1>2
  <2>1. RegistrySound'
    BY DeactivateKeepsRegistry
  <2>2. UNCHANGED <<limitVars, settingVars, tokenVars, nftVars, transactions, now>>
    BY DEF DeactivateCustomer
  <2>. QED
    BY <2>1, <2>2, LimitsFrame, SettingsFrame, TokensFrame, NFTsFrame, LogFrame
<1>3. ASSUME NEW c \in Customer, NEW limit \in Limits, SetDailyWithdrawalLimit(c, limit)
      PROVE  CustodyInvariant'
  <2>. USE <1>3
  <2>1. SettingsSound'
    BY CustodyAssumption DEF SettingsSound, SetDailyWithdrawalLimit
  <2>2. UNCHANGED <<registryVars, limitVars, tokenVars, nftVars, transactions, now>>
    BY DEF SetDailyWithdrawalLimit
  <2>. QED
    BY <2>1, <2>2, RegistryFrame, LimitsFrame, TokensFrame, NFTsFrame, LogFrame
<1>. QED
  BY <1>1, <1>2, <1>3 DEF CustomerManagement

LEMMA DepositsPreserve ==
    ASSUME CustodyInvariant, Deposits PROVE CustodyInvariant'
<1>. USE DEF CustodyInvariant
<1>1. ASSUME NEW operator \in Operator, NEW c \in Customer, NEW t \in Token,
             NEW amount \in Amount, DepositERC20(operator, c, t, amount)
      PROVE  CustodyInvariant'
  <2>. USE <1>1
  <2>1. TokensSound'
    BY DepositKeepsTokens
  <2>2. LogSound'
    <3>1. Log(c, t, amount, "deposit", operator)
      BY DEF DepositERC20
    <3>. QED
      BY <3>1, LogKeepsSound, CustodyAssumption DEF Amount, Kind
  <2>3. UNCHANGED <<registryVars, limitVars, settingVars, nftVars, now>>
    BY DEF DepositERC20
  <2>. QED
    BY <2>1, <2>2, <2>3, RegistryFrame, LimitsFrame, SettingsFrame, NFTsFrame
<1>2. ASSUME NEW operator \in Operator, NEW c \in Customer, NEW n \in NFT,
             DepositERC721(operator, c, n)
      PROVE  CustodyInvariant'
  <2>. USE <1>2
  <2>1. NFTsSound'
    BY DepositKeepsNFTs
  <2>2. LogSound'
    <3>1. Log(c, n, 0, "deposit-nft", operator)
      BY DEF DepositERC721
    <3>. QED
      BY <3>1, LogKeepsSound, CustodyAssumption DEF Kind
  <2>3. UNCHANGED <<registryVars, limitVars, settingVars, tokenVars, now>>
    BY DEF DepositERC721
  <2>. QED
    BY <2>1, <2>2, <2>3, RegistryFrame, LimitsFrame, SettingsFrame, TokensFrame
<1>. QED
  BY <1>1, <1>2 DEF Deposits

LEMMA WithdrawalsPreserve ==
    ASSUME CustodyInvariant, Withdrawals PROVE CustodyInvariant'
<1>. USE DEF CustodyInvariant
<1>1. ASSUME NEW operator \in Operator, NEW c \in Customer, NEW t \in Token,
             NEW amount \in Amount, NEW toSelf \in BOOLEAN,
             WithdrawERC20(operator, c, t, amount, toSelf)
      PROVE  CustodyInvariant'
  <2>. USE <1>1
  <2>1. TokensSound'
    BY WithdrawKeepsTokens
  <2>2. LogSound'
    <3>1. Log(c, t, amount, "withdraw", operator)
      BY DEF WithdrawERC20
    <3>. QED
      BY <3>1, LogKeepsSound, CustodyAssumption DEF Amount, Kind
  <2>3. CountWithdrawal(c, amount) /\ UNCHANGED <<registryVars, settingVars, nftVars, now>>
    BY DEF WithdrawERC20
  <2>4. LimitsSound'
    BY <2>3, CountKeepsLimits
  <2>. QED
    BY <2>1, <2>2, <2>3, <2>4, RegistryFrame, SettingsFrame, NFTsFrame
<1>2. ASSUME NEW operator \in Operator, NEW c \in Customer, NEW n \in NFT,
             NEW toSelf \in BOOLEAN, WithdrawERC721(operator, c, n, toSelf)
      PROVE  CustodyInvariant'
  <2>. USE <1>2
  <2>1. NFTsSound'
    BY WithdrawKeepsNFTs
  <2>2. LogSound'
    <3>1. Log(c, n, 0, "withdraw-nft", operator)
      BY DEF WithdrawERC721
    <3>. QED
      BY <3>1, LogKeepsSound, CustodyAssumption DEF Kind
  <2>3. UNCHANGED <<registryVars, limitVars, settingVars, tokenVars, now>>
    BY DEF WithdrawERC721
  <2>. QED
    BY <2>1, <2>2, <2>3, RegistryFrame, LimitsFrame, SettingsFrame, TokensFrame
<1>. QED
  BY <1>1, <1>2 DEF Withdrawals

LEMMA AdministrationPreserves ==
    ASSUME CustodyInvariant, Administration PROVE CustodyInvariant'
<1>. USE DEF CustodyInvariant
<1>1. SettingsSound'
  BY CustodyAssumption DEF SettingsSound, Administration, SetInsuranceContract,
     SetRequiredSignatures, Pause, Unpause, SetPaused
<1>2. UNCHANGED <<registryVars, limitVars, tokenVars, nftVars, transactions, now>>
  BY DEF Administration, SetInsuranceContract, SetRequiredSignatures, Pause, Unpause, SetPaused
<1>. QED
  BY <1>1, <1>2, RegistryFrame, LimitsFrame, TokensFrame, NFTsFrame, LogFrame

LEMMA OutsidePreserves ==
    ASSUME CustodyInvariant, Outside PROVE CustodyInvariant'
<1>. USE DEF CustodyInvariant
<1>1. ASSUME NEW t \in Token, NEW amount \in Amount, ReceiveTokens(t, amount)
      PROVE  CustodyInvariant'
  <2>. USE <1>1
  <2>1. TokensSound'
    BY ReceiveKeepsTokens
  <2>2. UNCHANGED <<registryVars, limitVars, settingVars, nftVars, transactions, now>>
    BY DEF ReceiveTokens
  <2>. QED
    BY <2>1, <2>2, RegistryFrame, LimitsFrame, SettingsFrame, NFTsFrame, LogFrame
<1>2. ASSUME NEW n \in NFT, ReceiveNFT(n)
      PROVE  CustodyInvariant'
  <2>. USE <1>2
  <2>1. NFTsSound'
    BY ReceiveKeepsNFTs
  <2>2. UNCHANGED <<registryVars, limitVars, settingVars, tokenVars, transactions, now>>
    BY DEF ReceiveNFT
  <2>. QED
    BY <2>1, <2>2, RegistryFrame, LimitsFrame, SettingsFrame, TokensFrame, LogFrame
<1>3. ASSUME Tick PROVE CustodyInvariant'
  <2>. USE <1>3
  <2>1. LimitsSound'
    BY TickKeepsLimits
  <2>2. LogSound'
    BY DEF LogSound, Tick
  <2>3. UNCHANGED <<registryVars, settingVars, tokenVars, nftVars>>
    BY DEF Tick
  <2>. QED
    BY <2>1, <2>2, <2>3, RegistryFrame, SettingsFrame, TokensFrame, NFTsFrame
<1>. QED
  BY <1>1, <1>2, <1>3 DEF Outside

LEMMA StepPreserves ==
    ASSUME CustodyInvariant, [Next]_vars PROVE CustodyInvariant'
<1>1. CASE Next
  BY <1>1, CustomerManagementPreserves, DepositsPreserve, WithdrawalsPreserve,
     AdministrationPreserves, OutsidePreserves DEF Next
<1>2. CASE UNCHANGED vars
  BY <1>2, RegistryFrame, LimitsFrame, SettingsFrame, TokensFrame, NFTsFrame, LogFrame
     DEF CustodyInvariant, vars
<1>. QED
  BY <1>1, <1>2

\* The inductive invariant holds in every reachable state.
THEOREM InvariantHolds == Spec => []CustodyInvariant
BY InitEstablishes, StepPreserves, PTL DEF Spec

\* Every variable keeps its type: in particular no balance of a customer
\* exceeds the supply of its token.
THEOREM TypeCorrect == Spec => []TypeOK
<1>1. CustodyInvariant => TypeOK
  BY DEF CustodyInvariant, TypeOK, RegistrySound, LimitsSound, SettingsSound, TokensSound,
     NFTsSound, LogSound
<1>. QED
  BY <1>1, InvariantHolds, PTL

\* "Asset segregation" of tokens: the contract holds what it owes in each
\* token, whatever mix of deposits, withdrawals and direct transfers came
\* before.
THEOREM OwedIsHeld == Spec => []OwedCovered
<1>1. CustodyInvariant => OwedCovered
  BY DEF CustodyInvariant, TokensSound
<1>. QED
  BY <1>1, InvariantHolds, PTL

\* The same of NFTs: a live record is of an NFT held here, and is its only one.
THEOREM RecordsAreHeld == Spec => []RecordsCovered
<1>1. CustodyInvariant => RecordsCovered
  BY DEF CustodyInvariant, NFTsSound
<1>. QED
  BY <1>1, InvariantHolds, PTL

\* The ids of active customers lead to them, through deactivations and new
\* registrations.
THEOREM IdsResolve == Spec => []ActiveIdsResolve
<1>1. CustodyInvariant => ActiveIdsResolve
  BY DEF CustodyInvariant, RegistrySound
<1>. QED
  BY <1>1, InvariantHolds, PTL

\* The lazily reset counter is the sum of the day's withdrawals under a limit.
THEOREM CountersMatchDays == Spec => []CounterMatchesDay
<1>1. CustodyInvariant => CounterMatchesDay
  BY DEF CustodyInvariant, LimitsSound
<1>. QED
  BY <1>1, InvariantHolds, PTL

\* No withdrawal takes a limited day beyond the limit in force.
THEOREM DayLimited == Spec => DayWithinLimit
<1> DEFINE Within(c) == limitedToday'[c] > limitedToday[c]
                          => limitedToday'[c] <= dailyWithdrawalLimits[c]
<1>1. ASSUME CustodyInvariant, Next, NEW c \in Customer PROVE Within(c)
  <2>. USE <1>1
  <2>1. ASSUME NEW d \in Customer, NEW amount \in Amount, CountWithdrawal(d, amount)
        PROVE  Within(c)
    <3>1. /\ WithdrawnSinceReset(d) = limitedToday[d] /\ limitedToday[c] \in Nat
          /\ limitedToday \in [Customer -> Nat] /\ dailyWithdrawalLimits[d] \in Nat
      BY DEF CustodyInvariant, LimitsSound, SettingsSound, CounterMatchesDay
    <3>2. CASE d # c
      BY <2>1, <3>1, <3>2 DEF CountWithdrawal
    <3>3. CASE d = c /\ dailyWithdrawalLimits[c] > 0
      BY <2>1, <3>1, <3>3 DEF CountWithdrawal, Amount
    <3>4. CASE d = c /\ ~(dailyWithdrawalLimits[c] > 0)
      BY <2>1, <3>1, <3>4 DEF CountWithdrawal
    <3>. QED
      BY <3>2, <3>3, <3>4
  <2>2. CASE Withdrawals
    <3>1. ASSUME NEW operator \in Operator, NEW d \in Customer, NEW t \in Token,
                 NEW amount \in Amount, NEW toSelf \in BOOLEAN,
                 WithdrawERC20(operator, d, t, amount, toSelf)
          PROVE  Within(c)
      BY <2>1, <3>1 DEF WithdrawERC20
    <3>2. ASSUME NEW operator \in Operator, NEW d \in Customer, NEW n \in NFT,
                 NEW toSelf \in BOOLEAN, WithdrawERC721(operator, d, n, toSelf)
          PROVE  Within(c)
      BY <3>2 DEF WithdrawERC721, limitVars, CustodyInvariant, LimitsSound
    <3>. QED
      BY <2>2, <3>1, <3>2 DEF Withdrawals
  <2>3. CASE CustomerManagement \/ Deposits \/ Administration
    <3>1. UNCHANGED limitedToday
      BY <2>3 DEF CustomerManagement, RegisterCustomer, Enrol, DeactivateCustomer,
         SetDailyWithdrawalLimit, Deposits, DepositERC20, DepositERC721, Administration,
         SetInsuranceContract, SetRequiredSignatures, Pause, Unpause, SetPaused, limitVars
    <3>. QED
      BY <3>1 DEF CustodyInvariant, LimitsSound
  <2>4. CASE Outside
    <3>1. limitedToday'[c] = limitedToday[c] \/ limitedToday'[c] = 0
      BY <2>4 DEF Outside, ReceiveTokens, ReceiveNFT, Tick, limitVars
    <3>2. limitedToday[c] \in Nat
      BY DEF CustodyInvariant, LimitsSound
    <3>. QED
      BY <3>1, <3>2
  <2>. QED
    BY <2>2, <2>3, <2>4 DEF Next
<1>2. CustodyInvariant /\ [Next]_vars => [\A c \in Customer : Within(c)]_vars
  BY <1>1
<1>. QED
  BY InvariantHolds, <1>2, PTL DEF Spec, DayWithinLimit

\* Nobody's tokens or NFT records change while the contract is paused, nor
\* those of a deactivated customer at any time.
THEOREM InactiveKept == Spec => InactiveUntouched
<1> DEFINE Kept(c) == paused \/ ~active[c]
              => /\ balances'[c] = balances[c]
                 /\ \A record \in assets : record.owner = c => record \in assets'
                 /\ \A record \in assets' : record.owner = c => record \in assets
<1>1. ASSUME CustodyInvariant, Next, NEW c \in Customer PROVE Kept(c)
  <2>. USE <1>1
  <2>1. ASSUME NEW d \in Customer, NEW t \in Token, NEW v, Served(d),
               balances' = [balances EXCEPT ![d][t] = v], UNCHANGED assets
        PROVE  Kept(c)
    BY <2>1 DEF Served
  <2>2. CASE Deposits
    <3>1. ASSUME NEW operator \in Operator, NEW d \in Customer, NEW t \in Token,
                 NEW amount \in Amount, DepositERC20(operator, d, t, amount)
          PROVE  Kept(c)
      BY <2>1, <3>1 DEF DepositERC20, nftVars
    <3>2. ASSUME NEW operator \in Operator, NEW d \in Customer, NEW n \in NFT,
                 DepositERC721(operator, d, n)
          PROVE  Kept(c)
      BY <3>2 DEF DepositERC721, Served, tokenVars
    <3>. QED
      BY <2>2, <3>1, <3>2 DEF Deposits
  <2>3. CASE Withdrawals
    <3>1. ASSUME NEW operator \in Operator, NEW d \in Customer, NEW t \in Token,
                 NEW amount \in Amount, NEW toSelf \in BOOLEAN,
                 WithdrawERC20(operator, d, t, amount, toSelf)
          PROVE  Kept(c)
      BY <2>1, <3>1 DEF WithdrawERC20, nftVars
    <3>2. ASSUME NEW operator \in Operator, NEW d \in Customer, NEW n \in NFT,
                 NEW toSelf \in BOOLEAN, WithdrawERC721(operator, d, n, toSelf)
          PROVE  Kept(c)
      BY <3>2 DEF WithdrawERC721, Served, tokenVars
    <3>. QED
      BY <2>3, <3>1, <3>2 DEF Withdrawals
  <2>4. CASE CustomerManagement \/ Administration \/ Outside
    <3>1. UNCHANGED <<balances, assets>>
      BY <2>4 DEF CustomerManagement, RegisterCustomer, Enrol, DeactivateCustomer,
         SetDailyWithdrawalLimit, Administration, SetInsuranceContract,
         SetRequiredSignatures, Pause, Unpause, SetPaused, Outside, ReceiveTokens,
         ReceiveNFT, Tick, tokenVars, nftVars
    <3>. QED
      BY <3>1
  <2>. QED
    BY <2>2, <2>3, <2>4 DEF Next
<1>2. CustodyInvariant /\ [Next]_vars => [\A c \in Customer : Kept(c)]_vars
  BY <1>1
<1>. QED
  BY InvariantHolds, <1>2, PTL DEF Spec, InactiveUntouched

-----------------------------------------------------------------------------
(***************************************************************************)
(* Refinement of SegregatedVaults.  What is spare is the holding less the  *)
(* total of the balances, a total being unique; it changes by what enters  *)
(* or leaves outside the customers' balances.  The owner of an NFT is well *)
(* defined because it has one record at most.                              *)
(***************************************************************************)

\* A product is at least its factor.
LEMMA AtLeastOnce ==
    ASSUME NEW m \in Nat \ {0}, NEW k \in Nat
    PROVE  m * k \in Nat /\ k <= m * k
<1>1. PICK j \in Nat : m = j + 1
  <2>1. m - 1 \in Nat /\ m = (m - 1) + 1
    OBVIOUS
  <2>. QED
    BY <2>1
<1>2. m * k = j * k + k /\ j * k \in Nat
  BY <1>1
<1>. QED
  BY <1>2

\* A column covered by a holding has a total, and that is within the holding.
LEMMA TotalCovered ==
    ASSUME NEW f \in [Customer -> Nat], NEW h \in 0..Supply,
           NEW s \in 0..h, SumsTo(f, MaxCustomer, s)
    PROVE  TotalOf(f, MaxCustomer, MaxCustomer * Supply) = s
<1> DEFINE max == MaxCustomer * Supply
<1>1. max \in Nat /\ Supply \in Nat /\ Supply <= max
  BY AtLeastOnce, CustodyAssumption
<1> HIDE DEF max
<1>2. s \in 0..max /\ MaxCustomer \in Nat /\ f \in [1..MaxCustomer -> Nat]
  BY <1>1, CustodyAssumption DEF Customer
<1>3. TotalOf(f, MaxCustomer, max) = s
  BY <1>1, <1>2, TotalChosen
<1>. QED
  BY <1>3 DEF max

\* When v moves between two customers, or from or to outside (0), and the new
\* holding covers what is owed then, the total changes by what enters or leaves.
LEMMA SpareAfterMove ==
    ASSUME TokensSound, TokensSound', NEW t \in Token, NEW v \in Nat,
           NEW a \in Customer \cup {0}, NEW b \in Customer \cup {0},
           a # 0 => balances[a][t] >= v,
           EntriesMoved(Owed(t), Owed(t)', MaxCustomer, a, b, v)
    PROVE  /\ Spare(t) \in Int
           /\ Spare(t)' = Spare(t) + held'[t] - held[t] + TotalMoved(0, b, a, v)
<1>1. /\ MaxCustomer \in Nat /\ Supply \in Nat
      /\ a \in 0..MaxCustomer /\ b \in 0..MaxCustomer
      /\ held[t] \in 0..Supply /\ held'[t] \in 0..Supply
  BY CustodyAssumption DEF Customer, TokensSound
<1>2. /\ Owed(t) \in [Customer -> Nat] /\ Owed(t)' \in [Customer -> Nat]
  BY <1>1 DEF TokensSound, Owed
<1>3. PICK s \in 0..held[t] : SumsTo(Owed(t), MaxCustomer, s)
  BY DEF TokensSound, OwedCovered
<1>4. PICK u \in 0..held'[t] : SumsTo(Owed(t)', MaxCustomer, u)
  BY DEF TokensSound, OwedCovered
<1>5. u = TotalMoved(s, a, b, v)
  <2>1. a # 0 => Owed(t)[a] >= v
    BY DEF Owed
  <2>2. /\ Owed(t) \in [1..MaxCustomer -> Nat] /\ Owed(t)' \in [1..MaxCustomer -> Nat]
        /\ s \in Nat /\ u \in Nat
    BY <1>1, <1>2 DEF Customer
  <2>3. SumsTo(Owed(t)', MaxCustomer, TotalMoved(s, a, b, v))
    BY <1>1, <1>3, <2>1, <2>2, SumAfterMove
  <2>4. TotalMoved(s, a, b, v) \in Nat
    BY <1>1, <2>2, <2>3, TotalIsNatural
  <2>. QED
    BY <1>1, <1>4, <2>2, <2>3, <2>4, TotalIsUnique
<1>6. Spare(t) = held[t] - s /\ Spare(t)' = held'[t] - u
  BY <1>1, <1>2, <1>3, <1>4, TotalCovered DEF Spare
<1>. QED
  BY <1>1, <1>3, <1>4, <1>5, <1>6 DEF TotalMoved

\* Spare tokens and owners depend on some variables only.
LEMMA SpareKept ==
    ASSUME UNCHANGED tokenVars PROVE UNCHANGED [t \in Token |-> Spare(t)]
BY DEF tokenVars, Spare, Owed

LEMMA OwnersKept ==
    ASSUME UNCHANGED assets PROVE UNCHANGED [n \in NFT |-> OwnerOf(n)]
BY DEF OwnerOf

LEMMA DepositERC20Steps ==
    ASSUME TokensSound, TokensSound', NEW operator \in Operator, NEW c \in Customer,
           NEW t \in Token, NEW amount \in Amount, DepositERC20(operator, c, t, amount)
    PROVE  Vaults!Deposit(c, t, amount)
<1>1. /\ balances' = [balances EXCEPT ![c][t] = @ + amount]
      /\ held' = [held EXCEPT ![t] = @ + amount]
      /\ Log(c, t, amount, "deposit", operator)
      /\ UNCHANGED assets
  BY DEF DepositERC20, nftVars
<1>2. /\ Supply \in Nat /\ amount \in Nat /\ 0 \notin Customer
      /\ held \in [Token -> 0..Supply]
      /\ balances \in [Customer -> [Token -> 0..Supply]]
  <2>1. Supply \in Nat /\ amount \in Nat /\ 0 \notin Customer
    BY CustodyAssumption DEF Amount, Customer
  <2>. QED
    BY <2>1 DEF TokensSound
<1>3. ASSUME NEW u \in Token PROVE Spare(u)' = Spare(u)
  <2> DEFINE v == IF u = t THEN amount ELSE 0
  <2>1. EntriesMoved(Owed(u), Owed(u)', MaxCustomer, 0, c, v)
    <3>1. \A d \in Customer :
             /\ Owed(u)[d] \in Int /\ Owed(u)[d] = balances[d][u]
             /\ Owed(u)'[d] = IF d = c /\ u = t THEN balances[c][t] + amount
                              ELSE Owed(u)[d]
      BY <1>1, <1>2 DEF Owed
    <3>. QED
      BY <1>2, <3>1 DEF EntriesMoved, Customer
  <2>2. v \in Nat /\ held'[u] = held[u] + v /\ held[u] \in Nat
    BY <1>1, <1>2
  <2> HIDE DEF v
  <2>3. /\ Spare(u) \in Int
        /\ Spare(u)' = Spare(u) + held'[u] - held[u] + TotalMoved(0, c, 0, v)
    BY <2>1, <2>2, SpareAfterMove
  <2>. QED
    BY <1>2, <2>2, <2>3 DEF TotalMoved
<1>4. UNCHANGED [u \in Token |-> Spare(u)]
  BY <1>3
<1>5. DOMAIN transactions' = DOMAIN transactions \cup
          {[customer |-> c, asset |-> t, amount |-> amount, kind |-> "deposit"]}
  BY <1>1 DEF Log
<1>. QED
  BY <1>1, <1>4, <1>5, OwnersKept DEF Vaults!Deposit, Vaults!Sign

LEMMA WithdrawERC20Steps ==
    ASSUME TokensSound, TokensSound', NEW operator \in Operator, NEW c \in Customer,
           NEW t \in Token, NEW amount \in Amount, NEW toSelf \in BOOLEAN,
           WithdrawERC20(operator, c, t, amount, toSelf)
    PROVE  Vaults!Withdraw(c, t, amount)
<1>1. /\ balances[c][t] >= amount
      /\ balances' = [balances EXCEPT ![c][t] = @ - amount]
      /\ held' = IF toSelf THEN held ELSE [held EXCEPT ![t] = @ - amount]
      /\ Log(c, t, amount, "withdraw", operator)
      /\ UNCHANGED assets
  BY DEF WithdrawERC20, nftVars
<1>2. /\ Supply \in Nat /\ amount \in Nat /\ 0 \notin Customer
      /\ held \in [Token -> 0..Supply]
      /\ balances \in [Customer -> [Token -> 0..Supply]]
  <2>1. Supply \in Nat /\ amount \in Nat /\ 0 \notin Customer
    BY CustodyAssumption DEF Amount, Customer
  <2>. QED
    BY <2>1 DEF TokensSound
<1>3. ASSUME NEW u \in Token
      PROVE  /\ Spare(u) \in Int
             /\ Spare(u)' = IF toSelf /\ u = t THEN Spare(u) + amount ELSE Spare(u)
  <2> DEFINE v == IF u = t THEN amount ELSE 0
  <2>1. EntriesMoved(Owed(u), Owed(u)', MaxCustomer, c, 0, v)
    <3>1. \A d \in Customer :
             /\ Owed(u)[d] \in Int /\ Owed(u)[d] = balances[d][u]
             /\ Owed(u)'[d] = IF d = c /\ u = t THEN balances[c][t] - amount
                              ELSE Owed(u)[d]
      BY <1>1, <1>2 DEF Owed
    <3>. QED
      BY <1>2, <3>1 DEF EntriesMoved, Customer
  <2>2. /\ v \in Nat /\ held[u] \in Nat /\ balances[c][u] >= v
        /\ held'[u] = IF toSelf THEN held[u] ELSE held[u] - v
    BY <1>1, <1>2 DEF TokensSound
  <2>3. toSelf /\ u = t => v = amount
    OBVIOUS
  <2>4. u # t => v = 0
    OBVIOUS
  <2> HIDE DEF v
  <2>5. /\ Spare(u) \in Int
        /\ Spare(u)' = Spare(u) + held'[u] - held[u] + TotalMoved(0, 0, c, v)
    BY <2>1, <2>2, SpareAfterMove
  <2>. QED
    BY <1>2, <2>2, <2>3, <2>4, <2>5 DEF TotalMoved
<1>4. \/ UNCHANGED [u \in Token |-> Spare(u)]
      \/ [u \in Token |-> Spare(u)]'
            = [[u \in Token |-> Spare(u)] EXCEPT ![t] = @ + amount]
  BY <1>3
<1>5. DOMAIN transactions' = DOMAIN transactions \cup
          {[customer |-> c, asset |-> t, amount |-> amount, kind |-> "withdraw"]}
  BY <1>1 DEF Log
<1>. QED
  BY <1>1, <1>4, <1>5, OwnersKept DEF Vaults!Withdraw, Vaults!Sign

LEMMA ReceiveTokensSteps ==
    ASSUME TokensSound, TokensSound', NEW t \in Token, NEW amount \in Amount,
           ReceiveTokens(t, amount)
    PROVE  Vaults!Arrive(t, amount)
<1>1. /\ held' = [held EXCEPT ![t] = @ + amount]
      /\ UNCHANGED <<balances, assets, transactions>>
  BY DEF ReceiveTokens, nftVars
<1>2. /\ Supply \in Nat /\ amount \in Nat
      /\ held \in [Token -> 0..Supply]
      /\ balances \in [Customer -> [Token -> 0..Supply]]
  <2>1. Supply \in Nat /\ amount \in Nat
    BY CustodyAssumption DEF Amount
  <2>. QED
    BY <2>1 DEF TokensSound
<1>3. ASSUME NEW u \in Token
      PROVE  Spare(u)' = IF u = t THEN Spare(u) + amount ELSE Spare(u)
  <2>1. EntriesMoved(Owed(u), Owed(u)', MaxCustomer, 0, 0, 0)
    <3>1. Owed(u)' = Owed(u) /\ \A d \in Customer : Owed(u)[d] \in Int
      BY <1>1, <1>2 DEF Owed
    <3>. QED
      BY <3>1 DEF EntriesMoved, Customer
  <2>2. /\ Spare(u) \in Int
        /\ Spare(u)' = Spare(u) + held'[u] - held[u] + TotalMoved(0, 0, 0, 0)
    BY <2>1, SpareAfterMove
  <2>3. /\ held[u] \in Int
        /\ held'[u] = IF u = t THEN held[u] + amount ELSE held[u]
    BY <1>1, <1>2
  <2>. QED
    BY <1>2, <2>2, <2>3 DEF TotalMoved
<1>4. [u \in Token |-> Spare(u)]' = [[u \in Token |-> Spare(u)] EXCEPT ![t] = @ + amount]
  BY <1>3
<1>. QED
  BY <1>1, <1>4, OwnersKept DEF Vaults!Arrive

\* Where an NFT has one record at most, it is the one that is chosen.
LEMMA ChosenRecord ==
    ASSUME NEW S, \A first, second \in S : first.nft = second.nft => first = second,
           NEW record \in S
    PROVE  (CHOOSE other \in S : other.nft = record.nft) = record
OBVIOUS

\* The owner of an NFT whose records stay as they are stays the same.
LEMMA OwnerKept ==
    ASSUME NFTsSound, NFTsSound', NEW n \in NFT,
           \A record : record.nft = n => (record \in assets <=> record \in assets')
    PROVE  OwnerOf(n)' = OwnerOf(n)
<1>1. CASE \E record \in assets : record.nft = n
  <2>1. PICK record \in assets : record.nft = n
    BY <1>1
  <2>2. record \in assets'
    BY <2>1
  <2>3. /\ (CHOOSE other \in assets : other.nft = n) = record
        /\ (CHOOSE other \in assets' : other.nft = n) = record
    BY <2>1, <2>2, ChosenRecord DEF NFTsSound, RecordsCovered
  <2>. QED
    BY <2>1, <2>2, <2>3 DEF OwnerOf
<1>2. CASE ~\E record \in assets : record.nft = n
  BY <1>2 DEF OwnerOf
<1>. QED
  BY <1>1, <1>2

LEMMA DepositERC721Steps ==
    ASSUME NFTsSound, NFTsSound', NEW operator \in Operator, NEW c \in Customer,
           NEW n \in NFT, DepositERC721(operator, c, n)
    PROVE  Vaults!Store(c, n)
<1>1. PICK record : /\ record.owner = c /\ record.nft = n
                    /\ assets' = assets \cup {record}
  BY DEF DepositERC721
<1>2. \A old \in assets : old.nft # n
  BY DEF DepositERC721, NFTsSound, RecordsCovered
<1>3. OwnerOf(n) = 0
  BY <1>2 DEF OwnerOf
<1>4. OwnerOf(n)' = c
  <2>1. record \in assets'
    BY <1>1
  <2>2. (CHOOSE other \in assets' : other.nft = n) = record
    BY <1>1, <2>1, ChosenRecord DEF NFTsSound, RecordsCovered
  <2>. QED
    BY <1>1, <2>1, <2>2 DEF OwnerOf
<1>5. ASSUME NEW m \in NFT, m # n PROVE OwnerOf(m)' = OwnerOf(m)
  BY <1>1, <1>5, OwnerKept
<1>6. [m \in NFT |-> OwnerOf(m)]' = [[m \in NFT |-> OwnerOf(m)] EXCEPT ![n] = c]
  BY <1>4, <1>5
<1>7. /\ DOMAIN transactions' = DOMAIN transactions \cup
            {[customer |-> c, asset |-> n, amount |-> 0, kind |-> "deposit-nft"]}
      /\ UNCHANGED tokenVars
  BY DEF DepositERC721, Log
<1>. QED
  BY <1>3, <1>6, <1>7, SpareKept DEF tokenVars, Vaults!Store, Vaults!Sign

LEMMA WithdrawERC721Steps ==
    ASSUME NFTsSound, NFTsSound', NEW operator \in Operator, NEW c \in Customer,
           NEW n \in NFT, NEW toSelf \in BOOLEAN, WithdrawERC721(operator, c, n, toSelf)
    PROVE  Vaults!Fetch(c, n)
<1>1. PICK record \in assets : /\ record.owner = c /\ record.nft = n
                               /\ assets' = assets \ {record}
  BY DEF WithdrawERC721
<1>2. OwnerOf(n) = c
  <2>1. (CHOOSE other \in assets : other.nft = n) = record
    BY <1>1, ChosenRecord DEF NFTsSound, RecordsCovered
  <2>. QED
    BY <1>1, <2>1 DEF OwnerOf
<1>3. OwnerOf(n)' = 0
  <2>1. \A other \in assets' : other.nft # n
    BY <1>1 DEF NFTsSound, RecordsCovered
  <2>. QED
    BY <2>1 DEF OwnerOf
<1>4. ASSUME NEW m \in NFT, m # n PROVE OwnerOf(m)' = OwnerOf(m)
  BY <1>1, <1>4, OwnerKept
<1>5. [m \in NFT |-> OwnerOf(m)]' = [[m \in NFT |-> OwnerOf(m)] EXCEPT ![n] = 0]
  BY <1>3, <1>4
<1>6. /\ DOMAIN transactions' = DOMAIN transactions \cup
            {[customer |-> c, asset |-> n, amount |-> 0, kind |-> "withdraw-nft"]}
      /\ UNCHANGED tokenVars
  BY DEF WithdrawERC721, Log
<1>. QED
  BY <1>2, <1>5, <1>6, SpareKept DEF tokenVars, Vaults!Fetch, Vaults!Sign

\* What leaves tokens, records and log alone leaves the vaults alone.
LEMMA QuietStep ==
    ASSUME UNCHANGED <<tokenVars, assets, transactions>> PROVE UNCHANGED Vaults!vars
BY SpareKept, OwnersKept DEF tokenVars, Vaults!vars

LEMMA TickSteps ==
    ASSUME Tick PROVE Vaults!CloseBlock
<1>1. UNCHANGED <<tokenVars, assets>> /\ DOMAIN transactions' = {}
  BY DEF Tick, nftVars
<1>. QED
  BY <1>1, SpareKept, OwnersKept DEF tokenVars, Vaults!CloseBlock

LEMMA VaultsInit ==
    ASSUME Init PROVE Vaults!Init
<1>1. ASSUME NEW t \in Token PROVE Spare(t) = 0
  <2>1. \A k \in Customer : Owed(t)[k] = 0
    BY DEF Init, Owed
  <2>2. /\ Owed(t) \in [Customer -> Nat]
        /\ Supply \in Nat /\ MaxCustomer \in Nat /\ held[t] = 0
    BY <2>1, CustodyAssumption DEF Init, Owed
  <2>3. SumsTo(Owed(t), MaxCustomer, 0)
    BY <2>1, <2>2, SumOfZeros DEF Customer
  <2>4. TotalOf(Owed(t), MaxCustomer, MaxCustomer * Supply) = 0
    BY <2>2, <2>3, TotalCovered
  <2>. QED
    BY <2>2, <2>4 DEF Spare
<1>2. ASSUME NEW n \in NFT PROVE OwnerOf(n) = 0
  BY DEF Init, OwnerOf
<1>. QED
  BY <1>1, <1>2 DEF Init, Vaults!Init

LEMMA VaultStep ==
    ASSUME CustodyInvariant, CustodyInvariant', [Next]_vars
    PROVE  [Vaults!Next]_Vaults!vars
<1>. USE DEF CustodyInvariant
<1>1. CASE Deposits
  <2>1. ASSUME NEW operator \in Operator, NEW c \in Customer, NEW t \in Token,
               NEW amount \in Amount, DepositERC20(operator, c, t, amount)
        PROVE  Vaults!Next
    <3>1. Vaults!Deposit(c, t, amount)
      BY <2>1, DepositERC20Steps
    <3>. QED
      BY <3>1 DEF Vaults!Next
  <2>2. ASSUME NEW operator \in Operator, NEW c \in Customer, NEW n \in NFT,
               DepositERC721(operator, c, n)
        PROVE  Vaults!Next
    <3>1. Vaults!Store(c, n)
      BY <2>2, DepositERC721Steps
    <3>. QED
      BY <3>1 DEF Vaults!Next
  <2>. QED
    BY <1>1, <2>1, <2>2 DEF Deposits
<1>2. CASE Withdrawals
  <2>1. ASSUME NEW operator \in Operator, NEW c \in Customer, NEW t \in Token,
               NEW amount \in Amount, NEW toSelf \in BOOLEAN,
               WithdrawERC20(operator, c, t, amount, toSelf)
        PROVE  Vaults!Next
    <3>1. Vaults!Withdraw(c, t, amount)
      BY <2>1, WithdrawERC20Steps
    <3>. QED
      BY <3>1 DEF Vaults!Next
  <2>2. ASSUME NEW operator \in Operator, NEW c \in Customer, NEW n \in NFT,
               NEW toSelf \in BOOLEAN, WithdrawERC721(operator, c, n, toSelf)
        PROVE  Vaults!Next
    <3>1. Vaults!Fetch(c, n)
      BY <2>2, WithdrawERC721Steps
    <3>. QED
      BY <3>1 DEF Vaults!Next
  <2>. QED
    BY <1>2, <2>1, <2>2 DEF Withdrawals
<1>3. CASE Outside
  <2>1. ASSUME NEW t \in Token, NEW amount \in Amount, ReceiveTokens(t, amount)
        PROVE  Vaults!Next
    <3>1. Vaults!Arrive(t, amount)
      BY <2>1, ReceiveTokensSteps
    <3>. QED
      BY <3>1 DEF Vaults!Next
  <2>2. ASSUME NEW n \in NFT, ReceiveNFT(n) PROVE UNCHANGED Vaults!vars
    BY <2>2, QuietStep DEF ReceiveNFT
  <2>3. ASSUME Tick PROVE Vaults!Next
    BY <2>3, TickSteps DEF Vaults!Next
  <2>. QED
    BY <1>3, <2>1, <2>2, <2>3 DEF Outside
<1>4. CASE CustomerManagement \/ Administration \/ UNCHANGED vars
  <2>1. UNCHANGED <<tokenVars, assets, transactions>>
    BY <1>4 DEF CustomerManagement, RegisterCustomer, Enrol, DeactivateCustomer,
       SetDailyWithdrawalLimit, Administration, SetInsuranceContract,
       SetRequiredSignatures, Pause, Unpause, SetPaused, nftVars, vars
  <2>. QED
    BY <2>1, QuietStep
<1>. QED
  BY <1>1, <1>2, <1>3, <1>4 DEF Next

\* The pooled holding implements a vault per customer and a box per NFT: whatever
\* customers, tokens, NFTs and blocks, nobody is paid from another's vault, and
\* every change of a vault or box is in the log under its customer's name.
THEOREM ImplementsSegregatedVaults == Spec => ImplementsVaults
BY InvariantHolds, VaultsInit, VaultStep, PTL DEF Spec, ImplementsVaults, Vaults!Spec

=============================================================================
