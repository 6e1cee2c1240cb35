--------------------------- MODULE CustodyService ---------------------------
(***************************************************************************)
(* contracts/CustodyService.sol: a bank keeps the ERC20 tokens and NFTs of *)
(* its customers in one contract, which records whose they are.            *)
(*                                                                         *)
(* One action per external function, each one transaction; a call that     *)
(* reverts is a disabled action.  onlyRole is not a guard: the admin holds *)
(* every role.  The token contracts are external and standard: what the    *)
(* custody contract does not hold is outside, where an operator can have   *)
(* it.  Anybody outside can also send tokens to the contract directly.     *)
(*                                                                         *)
(* The records of ERC20 assets, which nothing reads, and the times and     *)
(* reasons kept in records are left out.  A transaction id is a hash of    *)
(* the transaction's data and of the block's time, so that only the ids of *)
(* the current block can be written again: those are the ones kept.        *)
(***************************************************************************)
EXTENDS BalanceSheet

CONSTANTS MaxCustomer,         \* the customers' addresses are 1..MaxCustomer
          CustomerId,
          Token,               \* ERC20 contracts
          NFT,                 \* pairs of an ERC721 contract and a token id
          Operator,
          Supply,              \* the supply of each token
          Limits,              \* daily withdrawal limits given to customers
          Insurers,            \* values of insuranceContract
          SignatureCounts,     \* values of requiredSignatures
          DayLength,           \* ticks in a day
          MaxTime,             \* bound on the block timestamp
          MaxRegistrations     \* bound on the calls of registerCustomer

ASSUME CustodyAssumption ==
    /\ MaxCustomer \in Nat \ {0} /\ Supply \in Nat
    /\ Limits \subseteq Nat /\ SignatureCounts \subseteq Nat \ {0}
    /\ DayLength \in Nat \ {0}
    /\ MaxTime \in Nat /\ MaxRegistrations \in Nat
    /\ Token \cap NFT = {}
    /\ 0 \notin CustomerId /\ 0 \notin Insurers

VARIABLES active,                \* customerAccounts[c].active
          customerId,            \* customerAccounts[c].customerId, 0 before any
          balances,              \* customerAccounts[c].balances[t]
          customerIdToAddress,
          customerCount,         \* allCustomers.length
          assets,                \* the NFT records whose owner is not cleared
          transactions,          \* operator of each id of the current block
          requiredSignatures,
          dailyWithdrawalLimits,
          dailyWithdrawn,
          lastResetDay,
          insuranceContract,
          paused,
          held,                  \* tokens of each contract held here
          heldNFTs,              \* NFTs held here
          now,                   \* block.timestamp
          limitedToday           \* withdrawn this day under a limit, by the records

registryVars == <<active, customerId, customerIdToAddress, customerCount>>
limitVars    == <<dailyWithdrawn, lastResetDay, limitedToday>>
settingVars  == <<requiredSignatures, dailyWithdrawalLimits, insuranceContract, paused>>
tokenVars    == <<balances, held>>
nftVars      == <<assets, heldNFTs>>
vars == <<registryVars, limitVars, settingVars, tokenVars, nftVars, transactions, now>>

Customer == 1..MaxCustomer
Amount   == 1..Supply
Time     == 0..MaxTime
Kind     == {"deposit", "withdraw", "deposit-nft", "withdraw-nft"}
Record   == [owner : Customer, nft : NFT, depositedAt : Time]
TxId     == [customer : Customer, asset : Token \cup NFT, amount : 0..Supply, kind : Kind]

\* block.timestamp / 1 days; the contract is deployed long after day 0.
today == 1 + (now \div DayLength)

TypeOK ==
    /\ active \in [Customer -> BOOLEAN]
    /\ customerId \in [Customer -> CustomerId \cup {0}]
    /\ balances \in [Customer -> [Token -> 0..Supply]]
    /\ customerIdToAddress \in [CustomerId -> Customer \cup {0}]
    /\ customerCount \in 0..MaxRegistrations
    /\ assets \subseteq Record
    /\ DOMAIN transactions \subseteq TxId
    /\ \A id \in DOMAIN transactions : transactions[id] \in Operator
    /\ requiredSignatures \in Nat \ {0}
    /\ dailyWithdrawalLimits \in [Customer -> Nat]
    /\ dailyWithdrawn \in [Customer -> Nat]
    /\ lastResetDay \in [Customer -> Nat]
    /\ insuranceContract \in Insurers \cup {0}
    /\ paused \in BOOLEAN
    /\ held \in [Token -> 0..Supply]
    /\ heldNFTs \subseteq NFT
    /\ now \in Time
    /\ limitedToday \in [Customer -> Nat]

Init ==
    /\ active = [c \in Customer |-> FALSE]
    /\ customerId = [c \in Customer |-> 0]
    /\ balances = [c \in Customer |-> [t \in Token |-> 0]]
    /\ customerIdToAddress = [id \in CustomerId |-> 0]
    /\ customerCount = 0
    /\ assets = {}
    /\ transactions = [id \in {} |-> 0]
    /\ requiredSignatures = 2
    /\ dailyWithdrawalLimits = [c \in Customer |-> 0]
    /\ dailyWithdrawn = [c \in Customer |-> 0]
    /\ lastResetDay = [c \in Customer |-> 0]
    /\ insuranceContract = 0
    /\ paused = FALSE
    /\ held = [t \in Token |-> 0]
    /\ heldNFTs = {}
    /\ now = 0
    /\ limitedToday = [c \in Customer |-> 0]

-----------------------------------------------------------------------------
(* Customers.                                                              *)

\* What registration stores, once its conditions hold.
Enrol(c, id) ==
    /\ customerCount < MaxRegistrations
    /\ active' = [active EXCEPT ![c] = TRUE]
    /\ customerId' = [customerId EXCEPT ![c] = id]
    /\ customerIdToAddress' = [customerIdToAddress EXCEPT ![id] = c]
    /\ customerCount' = customerCount + 1
    /\ UNCHANGED <<limitVars, settingVars, tokenVars, nftVars, transactions, now>>

\* Mutation: an id that another customer has is accepted.
RegisterCustomerAnyId(c, id) == ~active[c] /\ Enrol(c, id)

\* A deactivated customer registers again, under an id not used before.
RegisterCustomer(c, id) ==
    /\ ~active[c]
    /\ customerIdToAddress[id] = 0
    /\ Enrol(c, id)

DeactivateCustomer(c) ==
    /\ active[c]
    /\ active' = [active EXCEPT ![c] = FALSE]
    /\ UNCHANGED <<customerId, customerIdToAddress, customerCount, limitVars,
                   settingVars, tokenVars, nftVars, transactions, now>>

SetDailyWithdrawalLimit(c, limit) ==
    /\ active[c]
    /\ dailyWithdrawalLimits' = [dailyWithdrawalLimits EXCEPT ![c] = limit]
    /\ UNCHANGED <<registryVars, limitVars, requiredSignatures, insuranceContract,
                   paused, tokenVars, nftVars, transactions, now>>

-----------------------------------------------------------------------------
(* Parts of the deposit and withdrawal functions.                          *)

\* whenNotPaused, and the first require of each function.
Served(c) == ~paused /\ active[c]

\* transactions[txId] = ...: an id of the same block is overwritten.
Log(c, asset, amount, kind, operator) ==
    LET txId == [customer |-> c, asset |-> asset, amount |-> amount, kind |-> kind]
    IN  transactions' = [id \in DOMAIN transactions \cup {txId} |->
                           IF id = txId THEN operator ELSE transactions[id]]

\* Mutation: the reset does not clear the counter.
WithdrawnKept(c) == dailyWithdrawn[c]

\* _resetDailyLimitIfNeeded, as the values it leaves.
WithdrawnSinceReset(c) == IF today > lastResetDay[c] THEN 0 ELSE dailyWithdrawn[c]

\* Mutation: the reset does not note its day.
ResetDayUnchanged(c) == lastResetDay[c]

ResetDay(c) == IF today > lastResetDay[c] THEN today ELSE lastResetDay[c]

\* Only a withdrawal under a limit is counted.
CountWithdrawal(c, amount) ==
    LET limit   == dailyWithdrawalLimits[c]
        counted == IF limit > 0 THEN amount ELSE 0
    IN  /\ limit > 0 => WithdrawnSinceReset(c) + amount <= limit
        /\ dailyWithdrawn' = [dailyWithdrawn EXCEPT ![c] = WithdrawnSinceReset(c) + counted]
        /\ lastResetDay' = [lastResetDay EXCEPT ![c] = ResetDay(c)]
        /\ limitedToday' = [limitedToday EXCEPT ![c] = @ + counted]

-----------------------------------------------------------------------------
(* Deposits and withdrawals.                                               *)

DepositERC20(operator, c, t, amount) ==
    /\ Served(c)
    /\ held[t] + amount <= Supply
    /\ held' = [held EXCEPT ![t] = @ + amount]
    /\ balances' = [balances EXCEPT ![c][t] = @ + amount]
    /\ Log(c, t, amount, "deposit", operator)
    /\ UNCHANGED <<registryVars, limitVars, settingVars, nftVars, now>>

DepositERC721(operator, c, n) ==
    /\ Served(c)
    /\ n \notin heldNFTs
    /\ heldNFTs' = heldNFTs \cup {n}
    /\ assets' = assets \cup {[owner |-> c, nft |-> n, depositedAt |-> now]}
    /\ Log(c, n, 0, "deposit-nft", operator)
    /\ UNCHANGED <<registryVars, limitVars, settingVars, tokenVars, now>>

\* Mutation: the customer's balance is not lowered.
WithdrawERC20KeepsBalance(operator, c, t, amount, toSelf) ==
    /\ Served(c)
    /\ balances[c][t] >= amount
    /\ CountWithdrawal(c, amount)
    /\ held[t] >= amount
    /\ held' = IF toSelf THEN held ELSE [held EXCEPT ![t] = @ - amount]
    /\ Log(c, t, amount, "withdraw", operator)
    /\ UNCHANGED <<registryVars, settingVars, balances, nftVars, now>>

\* The recipient is outside, or the contract itself (toSelf), which then
\* keeps the tokens.
WithdrawERC20(operator, c, t, amount, toSelf) ==
    /\ Served(c)
    /\ balances[c][t] >= amount
    /\ CountWithdrawal(c, amount)
    /\ balances' = [balances EXCEPT ![c][t] = @ - amount]
    /\ held[t] >= amount
    /\ held' = IF toSelf THEN held ELSE [held EXCEPT ![t] = @ - amount]
    /\ Log(c, t, amount, "withdraw", operator)
    /\ UNCHANGED <<registryVars, settingVars, nftVars, now>>

\* Mutation: the record of the NFT is found and not cleared.
WithdrawERC721KeepsRecord(operator, c, n, toSelf) ==
    /\ Served(c)
    /\ \E record \in assets : record.owner = c /\ record.nft = n
    /\ n \in heldNFTs
    /\ heldNFTs' = IF toSelf THEN heldNFTs ELSE heldNFTs \ {n}
    /\ Log(c, n, 0, "withdraw-nft", operator)
    /\ UNCHANGED <<registryVars, limitVars, settingVars, tokenVars, assets, now>>

\* Mutation: the record is looked for by the NFT alone, not by its owner.
WithdrawERC721OfAnybody(operator, c, n, toSelf) ==
    /\ Served(c)
    /\ \E record \in assets :
          /\ record.nft = n
          /\ assets' = assets \ {record}
    /\ n \in heldNFTs
    /\ heldNFTs' = IF toSelf THEN heldNFTs ELSE heldNFTs \ {n}
    /\ Log(c, n, 0, "withdraw-nft", operator)
    /\ UNCHANGED <<registryVars, limitVars, settingVars, tokenVars, now>>

\* The code takes the first record that matches; any of them is allowed here.
WithdrawERC721(operator, c, n, toSelf) ==
    /\ Served(c)
    /\ \E record \in assets :
          /\ record.owner = c
          /\ record.nft = n
          /\ assets' = assets \ {record}
    /\ n \in heldNFTs
    /\ heldNFTs' = IF toSelf THEN heldNFTs ELSE heldNFTs \ {n}
    /\ Log(c, n, 0, "withdraw-nft", operator)
    /\ UNCHANGED <<registryVars, limitVars, settingVars, tokenVars, now>>

-----------------------------------------------------------------------------
(* Administration.                                                         *)

SetInsuranceContract(insurer) ==
    /\ insuranceContract' = insurer
    /\ UNCHANGED <<registryVars, limitVars, requiredSignatures, dailyWithdrawalLimits,
                   paused, tokenVars, nftVars, transactions, now>>

SetRequiredSignatures(count) ==
    /\ requiredSignatures' = count
    /\ UNCHANGED <<registryVars, limitVars, dailyWithdrawalLimits, insuranceContract,
                   paused, tokenVars, nftVars, transactions, now>>

SetPaused(status) ==
    /\ paused = ~status
    /\ paused' = status
    /\ UNCHANGED <<registryVars, limitVars, requiredSignatures, dailyWithdrawalLimits,
                   insuranceContract, tokenVars, nftVars, transactions, now>>

Pause   == SetPaused(TRUE)
Unpause == SetPaused(FALSE)

-----------------------------------------------------------------------------
(* The world outside.                                                      *)

\* Somebody sends tokens, or an NFT, to the contract without a deposit.
ReceiveTokens(t, amount) ==
    /\ held[t] + amount <= Supply
    /\ held' = [held EXCEPT ![t] = @ + amount]
    /\ UNCHANGED <<registryVars, limitVars, settingVars, balances, nftVars,
                   transactions, now>>

ReceiveNFT(n) ==
    /\ heldNFTs' = heldNFTs \cup {n}
    /\ UNCHANGED <<registryVars, limitVars, settingVars, tokenVars, assets,
                   transactions, now>>

\* The next block; at midnight what the day's records add up to starts afresh.
Tick ==
    /\ now < MaxTime
    /\ now' = now + 1
    /\ transactions' = [id \in {} |-> 0]
    /\ limitedToday' = IF today' > today THEN [c \in Customer |-> 0] ELSE limitedToday
    /\ UNCHANGED <<registryVars, dailyWithdrawn, lastResetDay, settingVars, tokenVars,
                   nftVars>>

-----------------------------------------------------------------------------
CustomerManagement ==
    \/ \E c \in Customer, id \in CustomerId : RegisterCustomer(c, id)
    \/ \E c \in Customer : DeactivateCustomer(c)
    \/ \E c \in Customer, limit \in Limits : SetDailyWithdrawalLimit(c, limit)

Deposits ==
    \/ \E operator \in Operator, c \in Customer, t \in Token, amount \in Amount :
          DepositERC20(operator, c, t, amount)
    \/ \E operator \in Operator, c \in Customer, n \in NFT : DepositERC721(operator, c, n)

Withdrawals ==
    \/ \E operator \in Operator, c \in Customer, t \in Token, amount \in Amount,
          toSelf \in BOOLEAN : WithdrawERC20(operator, c, t, amount, toSelf)
    \/ \E operator \in Operator, c \in Customer, n \in NFT, toSelf \in BOOLEAN :
          WithdrawERC721(operator, c, n, toSelf)

Administration ==
    \/ \E insurer \in Insurers : SetInsuranceContract(insurer)
    \/ \E count \in SignatureCounts : SetRequiredSignatures(count)
    \/ Pause
    \/ Unpause

Outside ==
    \/ \E t \in Token, amount \in Amount : ReceiveTokens(t, amount)
    \/ \E n \in NFT : ReceiveNFT(n)
    \/ Tick

Next == CustomerManagement \/ Deposits \/ Withdrawals \/ Administration \/ Outside

Spec == Init /\ [][Next]_vars

-----------------------------------------------------------------------------
(* Properties.                                                             *)

Owed(t) == [c \in Customer |-> balances[c][t]]

\* "Asset segregation": whatever the mix of deposits, withdrawals (to the
\* contract itself included) and direct transfers, the contract holds at
\* least what its customers' balances in a token add up to.
OwedCovered ==
    \A t \in Token : \E owed \in 0..held[t] : SumsTo(Owed(t), MaxCustomer, owed)

\* An NFT has at most one record that is not cleared, and the contract holds
\* it: no withdrawal and re-deposit, by whomever and in whatever block, leaves
\* a record behind with which somebody else's NFT could be withdrawn.
RecordsCovered ==
    /\ \A record \in assets : record.nft \in heldNFTs
    /\ \A first, second \in assets : first.nft = second.nft => first = second

\* The id of an active customer leads to that customer, so that no two active
\* customers share one, through deactivations and new registrations.
ActiveIdsResolve ==
    \A c \in Customer : active[c] => customerId[c] # 0
                                     /\ customerIdToAddress[customerId[c]] = c

\* After the lazy reset the counter of a customer is what the records of the
\* day say was withdrawn under a limit, however days, limits and withdrawals
\* follow one another.
CounterMatchesDay == \A c \in Customer : WithdrawnSinceReset(c) = limitedToday[c]

\* What is withdrawn under a limit in one day stays within the limit in force.
DayWithinLimit ==
    [][\A c \in Customer :
          limitedToday'[c] > limitedToday[c]
            => limitedToday'[c] <= dailyWithdrawalLimits[c]]_vars

\* Nothing is credited to, or taken from, a deactivated customer or a paused
\* contract's customers: neither balances nor NFT records.
InactiveUntouched ==
    [][\A c \in Customer :
          paused \/ ~active[c]
            => /\ balances'[c] = balances[c]
               /\ \A record \in assets : record.owner = c => record \in assets'
               /\ \A record \in assets' : record.owner = c => record \in assets]_vars

\* The pooled holding of the contract, with its balances and records, is as good
\* as a vault for each customer and a box for each NFT: nothing is paid from what
\* another customer, or nobody, put in, and every change is in the records of the
\* block under the customer's name.
Spare(t) == held[t] - TotalOf(Owed(t), MaxCustomer, MaxCustomer * Supply)
OwnerOf(n) ==
    IF \E record \in assets : record.nft = n
    THEN (CHOOSE record \in assets : record.nft = n).owner
    ELSE 0

Vaults == INSTANCE SegregatedVaults WITH
              Nobody   <- 0,
              vault    <- balances,
              spare    <- [t \in Token |-> Spare(t)],
              boxOf    <- [n \in NFT |-> OwnerOf(n)],
              receipts <- DOMAIN transactions
ImplementsVaults == Vaults!Spec

=============================================================================
