--------------------------- MODULE FireFlyProofs ----------------------------
(***************************************************************************)
(* Theorems about what goes through FireFly: the transfers between         *)
(* organizations (TokenTransfer) and the gateway with its events           *)
(* (FireFlyGateway), for any pages, organizations, amounts, requests and   *)
(* polls.                                                                  *)
(***************************************************************************)
EXTENDS TokenTransfer, FireFlyGateway, ERC20Theorems, SequenceTheorems, TLAPS

-----------------------------------------------------------------------------
(***************************************************************************)
(* TokenTransfer.                                                          *)
(*                                                                         *)
(* ChecksSound follows an operation from the check to the block: unless it *)
(* was disturbed, the sender still has the wei that were posted: what the  *)
(* check lets through is short by rounding only (RoundingBounded).         *)
(* ChainsSound says of the requests that retry one another that all but the*)
(* last have failed or lost their page, and AnswersSound that a request    *)
(* fails without a POST or after a timeout; so of two that moved tokens the*)
(* earlier one lost an answer.                                             *)
(***************************************************************************)

\* What the API knows of a request and what became of its POST.
AnswersSound ==
    \A r \in 1..asked :
        /\ call[r] = "reading" => operation[r] = "none"
        /\ call[r] = "failed" => r \in timedOut \/ operation[r] = "none"

\* What passed the check can move, or was disturbed.
ChecksSound ==
    \A r \in 1..asked :
        /\ operation[r] \in {"sent", "accepted"} => r \in disturbed \/ CanMove(order[r])
        /\ operation[r] = "reverted" => r \in disturbed

\* A chain of retries: all but its last request have failed or lost their page,
\* and the page that shows one shows the last.
ChainsSound ==
    /\ \A r \in 1..asked : order[r].first <= r
    /\ \A r, s \in 1..asked :
          r < s /\ order[r].first = order[s].first => call[r] = "failed" \/ r \in broken
    /\ \A p \in Page, r \in 1..asked :
          shown[p] # 0 /\ order[r].first = order[shown[p]].first => r <= shown[p]
    /\ \A p, q \in Page :
          p # q /\ shown[p] # 0 /\ shown[q] # 0 => order[shown[p]].first # order[shown[q]].first

TransferInvariant ==
    /\ TransferTypeOK /\ SupplyIsSumOfBalances
    /\ AnswersSound /\ ChecksSound /\ ChainsSound

-----------------------------------------------------------------------------
(* The token and sequences.                                                *)

\* Appending to a sequence of n elements.
LEMMA Appended ==
    ASSUME NEW S, NEW n \in Nat, NEW f \in [1..n -> S], NEW e \in S
    PROVE  /\ Append(f, e) \in [1..(n + 1) -> S]
           /\ \A i \in 1..n : Append(f, e)[i] = f[i]
           /\ Append(f, e)[n + 1] = e
<1>1. f \in Seq(S)
  BY SeqDef
<1>2. Len(f) = n
  <2>1. Len(f) \in Nat /\ 1..Len(f) = 1..n
    BY <1>1, LenProperties
  <2>. QED
    BY <2>1
<1>3. /\ Append(f, e) \in Seq(S) /\ Len(Append(f, e)) = n + 1
      /\ \A i \in 1..n : Append(f, e)[i] = f[i]
      /\ Append(f, e)[n + 1] = e
  BY <1>1, <1>2, AppendProperties
<1>4. Append(f, e) \in [1..(n + 1) -> S]
  BY <1>3, LenProperties
<1>. QED
  BY <1>3, <1>4

\* The constructor gives the supply to the deployer.
LEMMA TokenInitSound ==
    ASSUME TokenInit
    PROVE  TokenTypeOK /\ SupplyIsSumOfBalances
<1>. USE ERC20Assumption, KSCTokenAssumption
<1>1. TokenTypeOK
  <2>1. 0 \in Uint /\ InitialSupply \in Uint
    BY DEF Uint
  <2>. QED
    BY <2>1 DEF TokenInit, TokenTypeOK, ERC20TypeOK
<1>2. SupplyIsSumOfBalances
  <2>. DEFINE zero == [a \in 1..MaxAddress |-> 0]
  <2>1. SumsTo(zero, MaxAddress, 0)
    BY SumOfZeros
  <2>2. /\ EntriesMoved(zero, balances, MaxAddress, 0, Deployer, InitialSupply)
        /\ totalSupply = TotalMoved(0, 0, Deployer, InitialSupply)
    BY DEF TokenInit, EntriesMoved, TotalMoved, Account, Uint
  <2>3. zero \in [1..MaxAddress -> Nat] /\ Deployer \in 0..MaxAddress /\ InitialSupply \in Nat
    BY DEF Account, Uint
  <2>. HIDE DEF zero
  <2>. QED
    BY <2>1, <2>2, <2>3, SumAfterMove DEF SupplyIsSumOfBalances
<1>. QED
  BY <1>1, <1>2

\* A move with the allowance it may use keeps the token's types and its sheet.
LEMMA MoveSound ==
    ASSUME TokenTypeOK, SupplyIsSumOfBalances,
           NEW from \in Address, NEW to \in Address, NEW value \in Uint,
           Move(from, to, value), UNCHANGED paused,
           \/ UNCHANGED allowances
           \/ \E owner, spender \in Account : SpendAllowance(owner, spender, value)
    PROVE  (TokenTypeOK /\ SupplyIsSumOfBalances)'
<1>1. /\ balances' \in [Account -> Uint] /\ totalSupply' \in Uint
      /\ SupplyIsSumOfBalances'
  BY UpdateSound DEF Move, TokenTypeOK
<1>2. allowances' \in [Account -> [Account -> Uint]]
  BY AllowanceSound DEF TokenTypeOK, ERC20TypeOK
<1>. QED
  BY <1>1, <1>2 DEF TokenTypeOK, ERC20TypeOK

\* Nothing is called.
LEMMA TokenStutters ==
    ASSUME TokenTypeOK, SupplyIsSumOfBalances, UNCHANGED <<balances, totalSupply>>,
           allowances' \in [Account -> [Account -> Uint]], paused' \in BOOLEAN
    PROVE  (TokenTypeOK /\ SupplyIsSumOfBalances)'
BY DEF TokenTypeOK, ERC20TypeOK, SupplyIsSumOfBalances

\* Every call of the contract keeps the types and the sheet.
LEMMA TokenCallSound ==
    ASSUME TokenTypeOK, SupplyIsSumOfBalances, TokenCall
    PROVE  (TokenTypeOK /\ SupplyIsSumOfBalances)'
<1>. USE TransferAssumption, ERC20Assumption
<1>0. /\ Organization \subseteq Account /\ Spenders \subseteq Account
      /\ Account \subseteq Address /\ ZeroAddress \in Address /\ CallAmounts \subseteq Uint
  BY DEF Account, Address, ZeroAddress
<1>1. ASSUME NEW to \in Account, NEW value \in CallAmounts,
             \/ Mint(to, value)
             \/ \E from \in Account : Transfer(from, to, value)
             \/ \E spender \in Spenders, from \in Organization :
                   TransferFrom(spender, from, to, value)
      PROVE  (TokenTypeOK /\ SupplyIsSumOfBalances)'
  <2>1. CASE Mint(to, value)
    BY <1>0, <2>1, MoveSound DEF Mint
  <2>2. ASSUME NEW from \in Account, Transfer(from, to, value)
        PROVE  (TokenTypeOK /\ SupplyIsSumOfBalances)'
    BY <1>0, <2>2, MoveSound DEF Transfer
  <2>3. ASSUME NEW spender \in Spenders, NEW from \in Organization,
               TransferFrom(spender, from, to, value)
        PROVE  (TokenTypeOK /\ SupplyIsSumOfBalances)'
    BY <1>0, <2>3, MoveSound DEF TransferFrom
  <2>. QED
    BY <1>1, <2>1, <2>2, <2>3
<1>2. ASSUME NEW from \in Organization, NEW value \in CallAmounts,
             \/ BurnOwn(from, value)
             \/ \E spender \in Spenders :
                   BurnFrom(spender, from, value) \/ Approve(from, spender, value)
      PROVE  (TokenTypeOK /\ SupplyIsSumOfBalances)'
  <2>1. CASE BurnOwn(from, value)
    BY <1>0, <2>1, MoveSound DEF BurnOwn
  <2>2. ASSUME NEW spender \in Spenders, BurnFrom(spender, from, value)
        PROVE  (TokenTypeOK /\ SupplyIsSumOfBalances)'
    BY <1>0, <2>2, MoveSound DEF BurnFrom
  <2>3. ASSUME NEW spender \in Spenders, Approve(from, spender, value)
        PROVE  (TokenTypeOK /\ SupplyIsSumOfBalances)'
    <3>1. allowances' \in [Account -> [Account -> Uint]]
      BY <1>0, <2>3, AllowanceSound DEF Approve, TokenTypeOK
    <3>. QED
      BY <2>3, <3>1, TokenStutters DEF Approve, TokenTypeOK
  <2>. QED
    BY <1>2, <2>1, <2>2, <2>3
<1>3. CASE Pause \/ Unpause
  BY <1>3, TokenStutters DEF Pause, Unpause, erc20Vars, TokenTypeOK, ERC20TypeOK
<1>. QED
  BY <1>1, <1>2, <1>3 DEF TokenCall

-----------------------------------------------------------------------------
(* Transfers.                                                              *)

\* No request was made.
LEMMA TransferInitEstablishes == TransferInit => TransferInvariant
<1>. SUFFICES ASSUME TransferInit PROVE TransferInvariant
  OBVIOUS
<1>1. TokenTypeOK /\ SupplyIsSumOfBalances
  BY TokenInitSound DEF TransferInit
<1>2. <<>> \in [1..0 -> Order] /\ <<>> \in [1..0 -> CallStatus]
      /\ <<>> \in [1..0 -> OperationStatus]
  OBVIOUS
<1>3. TransferTypeOK
  BY <1>1, <1>2, TransferAssumption DEF TransferInit, TransferTypeOK
<1>4. AnswersSound /\ ChecksSound /\ ChainsSound
  BY DEF TransferInit, AnswersSound, ChecksSound, ChainsSound
<1>. QED
  BY <1>1, <1>3, <1>4 DEF TransferInvariant

\* A request that is submitted comes after those there are, which stay as they
\* are.
LEMMA SubmitTyped ==
    ASSUME TransferTypeOK, NEW p \in Page, NEW o \in Order, Submit(p, o)
    PROVE  /\ order' \in [1..asked' -> Order]
           /\ call' \in [1..asked' -> CallStatus]
           /\ operation' \in [1..asked' -> OperationStatus]
           /\ \A r \in 1..asked : /\ order'[r] = order[r]
                                  /\ call'[r] = call[r]
                                  /\ operation'[r] = operation[r]
           /\ order'[asked + 1] = o
           /\ call'[asked + 1] = "reading"
           /\ operation'[asked + 1] = "none"
<1>1. asked \in Nat /\ asked' = asked + 1
  BY TransferAssumption DEF TransferTypeOK, Submit
<1>2. /\ order' \in [1..asked' -> Order] /\ order'[asked + 1] = o
      /\ \A r \in 1..asked : order'[r] = order[r]
  <2>1. order \in [1..asked -> Order] /\ o \in Order /\ order' = Append(order, o)
    BY DEF TransferTypeOK, Submit
  <2>2. Append(order, o) \in [1..(asked + 1) -> Order]
    BY <1>1, <2>1, Appended
  <2>3. Append(order, o)[asked + 1] = o
    BY <1>1, <2>1, Appended
  <2>4. \A r \in 1..asked : Append(order, o)[r] = order[r]
    BY <1>1, <2>1, Appended
  <2>. QED
    BY <1>1, <2>1, <2>2, <2>3, <2>4
<1>3. /\ call' \in [1..asked' -> CallStatus]
      /\ call'[asked + 1] = "reading"
      /\ \A r \in 1..asked : call'[r] = call[r]
  <2>. DEFINE new == "reading"
  <2>1. call \in [1..asked -> CallStatus] /\ new \in CallStatus /\ call' = Append(call, new)
    BY DEF TransferTypeOK, Submit, CallStatus
  <2>. HIDE DEF new
  <2>2. Append(call, new) \in [1..(asked + 1) -> CallStatus]
    BY <1>1, <2>1, Appended
  <2>3. Append(call, new)[asked + 1] = new
    BY <1>1, <2>1, Appended
  <2>4. \A r \in 1..asked : Append(call, new)[r] = call[r]
    BY <1>1, <2>1, Appended
  <2>. QED
    BY <1>1, <2>1, <2>2, <2>3, <2>4 DEF new
<1>4. /\ operation' \in [1..asked' -> OperationStatus]
      /\ operation'[asked + 1] = "none"
      /\ \A r \in 1..asked : operation'[r] = operation[r]
  <2>. DEFINE new == "none"
  <2>1. /\ operation \in [1..asked -> OperationStatus] /\ new \in OperationStatus
        /\ operation' = Append(operation, new)
    BY DEF TransferTypeOK, Submit, OperationStatus
  <2>. HIDE DEF new
  <2>2. Append(operation, new) \in [1..(asked + 1) -> OperationStatus]
    BY <1>1, <2>1, Appended
  <2>3. Append(operation, new)[asked + 1] = new
    BY <1>1, <2>1, Appended
  <2>4. \A r \in 1..asked : Append(operation, new)[r] = operation[r]
    BY <1>1, <2>1, Appended
  <2>. QED
    BY <1>1, <2>1, <2>2, <2>3, <2>4 DEF new
<1>. QED
  BY <1>1, <1>2, <1>3, <1>4

\* A page that submits begins a chain or goes on with the one it shows.
LEMMA SubmitCases ==
    ASSUME TransferTypeOK, NEW p \in Page, Ask(p) \/ Retry(p)
    PROVE  \E o \in Order :
              /\ Submit(p, o)
              /\ \/ shown[p] = 0 /\ o.first = asked + 1
                 \/ ShowsError(p) /\ o = order[shown[p]]
<1>1. CASE Ask(p)
  BY <1>1 DEF Ask
<1>2. CASE Retry(p)
  <2>1. shown[p] \in 1..asked
    BY <1>2, TransferAssumption DEF Retry, ShowsError, TransferTypeOK
  <2>2. order[shown[p]] \in Order
    BY <2>1 DEF TransferTypeOK
  <2>. QED
    BY <1>2, <2>2 DEF Retry
<1>. QED
  BY <1>1, <1>2

\* Every step keeps the token's types and its balance sheet.
LEMMA TokenKept ==
    ASSUME TransferTypeOK, SupplyIsSumOfBalances, [TransferNext]_transferVars
    PROVE  (TokenTypeOK /\ SupplyIsSumOfBalances)'
<1>1. TokenTypeOK
  BY DEF TransferTypeOK
<1>2. CASE UNCHANGED tokenVars
  BY <1>1, <1>2, TokenStutters DEF tokenVars, erc20Vars, TokenTypeOK, ERC20TypeOK
<1>3. ASSUME NEW r \in 1..asked, Transfer(order[r].from, order[r].to, order[r].wei)
      PROVE  (TokenTypeOK /\ SupplyIsSumOfBalances)'
  <2>1. order[r] \in Order
    BY DEF TransferTypeOK
  <2>2. /\ order[r].from \in Account /\ order[r].to \in Account /\ order[r].wei \in Uint
    BY <2>1, TransferAssumption DEF Order
  <2>3. Account \subseteq Address
    BY DEF Account, Address
  <2>. QED
    BY <1>1, <1>3, <2>2, <2>3, MoveSound DEF Transfer
<1>4. CASE TokenCall
  BY <1>1, <1>4, TokenCallSound
<1>. QED
  BY <1>2, <1>3, <1>4
     DEF TransferNext, Ask, LosePage, Retry, Submit, Close, Handle, Check, Answer, Timeout, FireFly, Deliver,
         Mine, transferVars

\* Every step keeps the types of the requests.
LEMMA RequestsTyped ==
    ASSUME TransferTypeOK, TokenTypeOK', [TransferNext]_transferVars
    PROVE  TransferTypeOK'
<1>. USE TransferAssumption DEF TransferTypeOK
<1>1. CASE UNCHANGED transferVars
  BY <1>1 DEF transferVars, apiVars
<1>2. CASE TransferNext
  <2>1. disturbed' \subseteq 1..asked
    BY <1>2 DEF TransferNext, Record
  <2>2. ASSUME NEW p \in Page, Ask(p) \/ Retry(p)
        PROVE  TransferTypeOK'
    <3>1. PICK o \in Order : Submit(p, o)
      BY <2>2, SubmitCases
    <3>2. /\ asked' = asked + 1 /\ asked' \in 0..MaxRequests
          /\ shown' \in [Page -> 0..asked'] /\ broken' = broken /\ timedOut' = timedOut
          /\ 1..asked \subseteq 1..asked'
      BY <3>1 DEF Submit
    <3>. QED
      BY <2>1, <3>1, <3>2, SubmitTyped
  <2>3. ASSUME NEW p \in Page, LosePage(p) \/ Close(p)
        PROVE  TransferTypeOK'
    <3>1. UNCHANGED <<asked, order, call, operation, timedOut>>
      BY <2>3 DEF LosePage, Close
    <3>2. shown' \in [Page -> 0..asked] /\ broken' \subseteq 1..asked
      BY <2>3 DEF LosePage, Close
    <3>. QED
      BY <2>1, <3>1, <3>2
  <2>4. ASSUME NEW r \in 1..asked, Handle(r) \/ FireFly(r)
        PROVE  TransferTypeOK'
    <3>1. UNCHANGED <<asked, order, shown, broken>> /\ timedOut' \subseteq timedOut \cup {r}
      BY <2>4 DEF Handle, Check, Answer, Timeout, FireFly, Deliver, Mine
    <3>2. call' \in [1..asked -> CallStatus]
      BY <2>4 DEF CallStatus, Handle, Check, Answer, Timeout, FireFly, Deliver, Mine
    <3>3. operation' \in [1..asked -> OperationStatus]
      BY <2>4 DEF OperationStatus, Handle, Check, Answer, Timeout, FireFly, Deliver, Mine
    <3>. QED
      BY <2>1, <3>1, <3>2, <3>3
  <2>5. CASE TokenCall
    <3>1. UNCHANGED <<asked, order, call, operation, shown, broken, timedOut>>
      BY <2>5 DEF TokenCall, apiVars
    <3>2. order' \in [1..asked' -> Order] /\ shown' \in [Page -> 0..asked']
      BY <3>1
    <3>3. /\ call' \in [1..asked' -> CallStatus]
          /\ operation' \in [1..asked' -> OperationStatus]
      BY <3>1
    <3>. QED
      BY <2>1, <3>1, <3>2, <3>3
  <2>. QED
    BY <1>2, <2>2, <2>3, <2>4, <2>5 DEF TransferNext
<1>. QED
  BY <1>1, <1>2

\* A request fails for good, and only without a POST or after a timeout.
LEMMA AnswersKept ==
    ASSUME TransferTypeOK, AnswersSound, [TransferNext]_transferVars
    PROVE  AnswersSound'
<1>. USE DEF AnswersSound
<1>1. ASSUME NEW p \in Page, Ask(p) \/ Retry(p)
      PROVE  AnswersSound'
  <2>1. PICK o \in Order : Submit(p, o)
    BY <1>1, SubmitCases
  <2>2. asked \in Nat /\ asked' = asked + 1 /\ timedOut' = timedOut
    BY <2>1, TransferAssumption DEF Submit, TransferTypeOK
  <2>3. \A r \in 1..asked' : r \in 1..asked \/ r = asked + 1
    BY <2>2
  <2>. QED
    BY <2>1, <2>2, <2>3, SubmitTyped
<1>2. ASSUME NEW r \in 1..asked, Handle(r) \/ FireFly(r)
      PROVE  AnswersSound'
  BY <1>2 DEF TransferTypeOK, Handle, Check, Answer, Timeout, FireFly, Deliver, Mine
<1>3. CASE UNCHANGED <<asked, call, operation, timedOut>>
  BY <1>3
<1>. QED
  BY <1>1, <1>2, <1>3 DEF TransferNext, LosePage, Close, TokenCall, apiVars, transferVars

\* A step leaves the requests there are as they are, but for the one it is of.
LEMMA RequestSteps ==
    ASSUME TransferTypeOK, [TransferNext]_transferVars, NEW r \in 1..asked
    PROVE  /\ r \in 1..asked' /\ order'[r] = order[r]
           /\ call'[r] = call[r] \/ Handle(r)
           /\ operation'[r] = operation[r] \/ Check(r) \/ FireFly(r)
<1>1. ASSUME NEW p \in Page, Ask(p) \/ Retry(p)
      PROVE  /\ r \in 1..asked' /\ order'[r] = order[r]
             /\ call'[r] = call[r] /\ operation'[r] = operation[r]
  <2>1. PICK o \in Order : Submit(p, o)
    BY <1>1, SubmitCases
  <2>2. asked \in Nat /\ asked' = asked + 1
    BY <2>1, TransferAssumption DEF Submit, TransferTypeOK
  <2>. QED
    BY <2>1, <2>2, SubmitTyped
<1>2. ASSUME NEW s \in 1..asked, Handle(s) \/ FireFly(s)
      PROVE  /\ UNCHANGED <<asked, order>>
             /\ call'[r] = call[r] \/ Handle(r)
             /\ operation'[r] = operation[r] \/ Check(r) \/ FireFly(r)
  <2>1. UNCHANGED <<asked, order>>
    BY <1>2 DEF Handle, Check, Answer, Timeout, FireFly, Deliver, Mine
  <2>2. CASE r = s
    BY <1>2, <2>1, <2>2 DEF Handle, Check, Answer, Timeout, FireFly, Deliver, Mine
  <2>3. CASE r # s
    BY <1>2, <2>1, <2>3 DEF TransferTypeOK, Handle, Check, Answer, Timeout, FireFly, Deliver, Mine
  <2>. QED
    BY <2>2, <2>3
<1>3. CASE UNCHANGED <<asked, order, call, operation>>
  BY <1>3
<1>. QED
  BY <1>1, <1>2, <1>3 DEF TransferNext, LosePage, Close, TokenCall, apiVars, transferVars

\* A new request is the first of a chain, or follows one that a page shows with
\* an error; the page then shows the new one.
LEMMA NewRequest ==
    ASSUME TransferTypeOK, [TransferNext]_transferVars, NEW r \in 1..asked', r \notin 1..asked
    PROVE  /\ asked \in Nat /\ asked' = asked + 1 /\ r = asked + 1
           /\ operation'[r] = "none"
           /\ \E p \in Page :
                 /\ shown' = [shown EXCEPT ![p] = asked + 1]
                 /\ \/ shown[p] = 0 /\ order'[r].first = asked + 1
                    \/ ShowsError(p) /\ order'[r] = order[shown[p]]
<1>1. PICK p \in Page : Ask(p) \/ Retry(p)
  BY DEF TransferNext, LosePage, Close, Handle, Check, Answer, Timeout, FireFly, Deliver, Mine, TokenCall,
         apiVars, transferVars
<1>2. PICK o \in Order : /\ Submit(p, o)
                         /\ \/ shown[p] = 0 /\ o.first = asked + 1
                            \/ ShowsError(p) /\ o = order[shown[p]]
  BY <1>1, SubmitCases
<1>3. asked \in Nat /\ asked' = asked + 1 /\ shown' = [shown EXCEPT ![p] = asked + 1]
  BY <1>2, TransferAssumption DEF Submit, TransferTypeOK
<1>4. r = asked + 1
  BY <1>3
<1>. QED
  BY <1>2, <1>3, <1>4, SubmitTyped

\* A balance that is shown is at most half a cent more than was read.
LEMMA ShownBounded ==
    ASSUME NEW read \in Nat
    PROVE  Shown(read) \in Nat /\ Shown(read) <= read + Cent \div 2
<1>. DEFINE sum == read + Cent \div 2
            cents == sum \div Cent
<1>1. Cent \in Nat /\ Cent > 0
  BY TransferAssumption
<1>2. sum \in Nat
  BY <1>1
<1>3. cents \in Nat /\ sum = cents * Cent + (sum % Cent) /\ sum % Cent \in 0..(Cent - 1)
  <2>. HIDE DEF sum
  <2>. QED
    BY <1>1, <1>2
<1>4. cents * Cent \in Nat
  <2>. HIDE DEF cents
  <2>. QED
    BY <1>1, <1>3
<1>5. Shown(read) = cents * Cent
  BY DEF Shown
<1>. HIDE DEF sum, cents
<1>6. cents * Cent <= sum
  <2>. DEFINE whole == cents * Cent
              rest  == sum % Cent
  <2>1. whole \in Nat /\ rest \in Nat /\ sum = whole + rest
    BY <1>1, <1>3, <1>4
  <2>. HIDE DEF whole, rest
  <2>2. whole <= sum
    BY <2>1
  <2>. QED
    BY <2>2 DEF whole
<1>. QED
  BY <1>4, <1>5, <1>6 DEF sum

\* What the check lets through is short of what is posted by Slack at most.
LEMMA RoundingBounded ==
    ASSUME NEW held \in Nat, NEW amount \in Nat, NEW wei \in Near(amount),
           \E read \in Near(held) : Shown(read) >= amount
    PROVE  wei <= held + Slack
<1>1. ConversionError \in Nat /\ Cent \div 2 \in Nat
  BY TransferAssumption
<1>2. PICK read \in Near(held) : Shown(read) >= amount
  OBVIOUS
<1>3. read \in Nat /\ read <= held + ConversionError
  BY <1>1 DEF Near
<1>4. wei \in Nat /\ wei <= amount + ConversionError
  BY <1>1 DEF Near
<1>5. Shown(read) \in Nat /\ Shown(read) <= read + Cent \div 2
  BY <1>3, ShownBounded
<1>. DEFINE half == Cent \div 2
<1>6. Slack = half + 2 * ConversionError /\ Shown(read) <= read + half /\ half \in Nat
  BY <1>1, <1>5 DEF Slack
<1>. HIDE DEF half
<1>. QED
  BY <1>1, <1>2, <1>3, <1>4, <1>5, <1>6

\* An operation that could move still can, or was disturbed.
LEMMA ChecksKept ==
    ASSUME TransferTypeOK, TransferTypeOK', AnswersSound, ChecksSound, [TransferNext]_transferVars
    PROVE  ChecksSound'
<1>1. CASE UNCHANGED transferVars
  BY <1>1 DEF ChecksSound, CanMove, transferVars, tokenVars, erc20Vars, apiVars
<1>2. CASE TransferNext
  <2>1. ASSUME NEW r \in 1..asked, operation'[r] \in {"sent", "accepted"}
        PROVE  r \in disturbed' \/ CanMove(order[r])'
    <3>. DEFINE held == balances[order[r].from]
    <3>1. /\ order[r].from \in Account /\ order[r].wei \in Uint /\ order[r].amount \in Uint
          /\ order[r].wei \in Near(order[r].amount) /\ order'[r] = order[r]
      BY TransferAssumption, RequestSteps DEF TransferTypeOK, Order
    <3>2. /\ order[r].wei \in Nat /\ order[r].amount \in Nat
          /\ held \in Nat /\ balances'[order[r].from] \in Nat
      BY <3>1 DEF TransferTypeOK, TokenTypeOK, ERC20TypeOK, Uint
    <3>3. SUFFICES ASSUME r \notin disturbed, ~Disturbs(r) PROVE CanMove(order[r])'
      BY <1>2, <2>1 DEF TransferNext, Record
    <3>4. /\ ~paused' /\ ~(balances'[order[r].from] < held)
          /\ operation[r] = "none" => ~(held < order[r].wei /\ order[r].wei <= held + Slack)
      BY <3>3 DEF Disturbs
    <3>5. SUFFICES held >= order[r].wei
      BY <3>1, <3>2, <3>4 DEF CanMove
    <3>6. CASE operation[r] \in {"sent", "accepted"}
      BY <3>3, <3>6 DEF ChecksSound, CanMove
    <3>7. CASE operation[r] \notin {"sent", "accepted"}
      <4>1. Check(r)
        BY <2>1, <3>7, RequestSteps DEF TransferTypeOK, FireFly, Deliver, Mine
      <4>2. /\ operation[r] = "none"
            /\ \E read \in Near(held) : Shown(read) >= order[r].amount
        BY <4>1, <2>1, <3>7 DEF Check, AnswersSound
      <4>3. order[r].wei <= held + Slack
        BY <3>1, <3>2, <4>2, RoundingBounded
      <4>4. ~(held < order[r].wei)
        BY <3>4, <4>2, <4>3
      <4>. QED
        BY <3>2, <4>4
    <3>. QED
      BY <3>6, <3>7
  <2>2. ASSUME NEW r \in 1..asked, operation'[r] = "reverted"
        PROVE  r \in disturbed'
    <3>1. r \in disturbed => r \in disturbed'
      BY <1>2, <2>2 DEF TransferNext, Record
    <3>2. CASE operation[r] = "reverted"
      BY <3>1, <3>2 DEF ChecksSound
    <3>3. CASE operation[r] # "reverted"
      <4>1. operation[r] = "accepted" /\ ~CanMove(order[r])
        BY <2>2, <3>3, RequestSteps DEF TransferTypeOK, Check, FireFly, Deliver, Mine
      <4>. QED
        BY <3>1, <4>1 DEF ChecksSound
    <3>. QED
      BY <3>2, <3>3
  <2>. QED
    BY <2>1, <2>2, NewRequest DEF ChecksSound
<1>. QED
  BY <1>1, <1>2

\* A chain goes on only from its last request, which failed or lost its page.
LEMMA ChainsKept ==
    ASSUME TransferTypeOK, TransferTypeOK', ChainsSound, [TransferNext]_transferVars
    PROVE  ChainsSound'
<1>1. ASSUME NEW r \in 1..asked
      PROVE  /\ r \in 1..asked' /\ order'[r] = order[r]
             /\ call[r] = "failed" => call'[r] = "failed"
             /\ r \in broken => r \in broken'
  <2>1. broken \subseteq broken'
    BY DEF TransferNext, Ask, LosePage, Retry, Submit, Close, Handle, Check, Answer, Timeout,
           FireFly, Deliver, Mine, TokenCall, apiVars, transferVars
  <2>. QED
    BY <2>1, RequestSteps DEF Handle, Check, Answer, Timeout
<1>2. /\ asked \in Nat /\ \A p \in Page : shown[p] # 0 => shown[p] \in 1..asked
      /\ \A r \in 1..asked : order[r].first \in Nat
  BY TransferAssumption DEF TransferTypeOK, Order, RequestId
<1>3. CASE 1..asked' = 1..asked
  <2>1. ASSUME NEW p \in Page PROVE ~Ask(p) /\ ~Retry(p)
    <3>1. SUFFICES ASSUME NEW o \in Order, Submit(p, o) PROVE FALSE
      BY SubmitCases
    <3>2. asked + 1 \in 1..asked'
      BY <1>2, <3>1 DEF Submit
    <3>3. asked + 1 \notin 1..asked
      BY <1>2
    <3>. QED
      BY <1>3, <3>2, <3>3
  <2>2. \A p \in Page : shown'[p] \in {shown[p], 0}
    BY <2>1
       DEF TransferTypeOK, TransferNext, LosePage, Close, Handle, Check, Answer, Timeout, FireFly, Deliver,
           Mine, TokenCall, apiVars, transferVars
  <2>3. \A r \in 1..asked :
           /\ order'[r] = order[r]
           /\ call[r] = "failed" \/ r \in broken => call'[r] = "failed" \/ r \in broken'
    BY <1>1
  <2>4. /\ \A r \in 1..asked' : order'[r].first <= r
        /\ \A r, s \in 1..asked' :
              r < s /\ order'[r].first = order'[s].first => call'[r] = "failed" \/ r \in broken'
    BY <1>3, <2>3 DEF ChainsSound
  <2>5. ASSUME NEW p \in Page, NEW r \in 1..asked',
               shown'[p] # 0, order'[r].first = order'[shown'[p]].first
        PROVE  r <= shown'[p]
    <3>1. shown'[p] = shown[p] /\ shown[p] \in 1..asked /\ r \in 1..asked
      BY <1>2, <1>3, <2>2, <2>5
    <3>2. order[r].first = order[shown[p]].first
      BY <2>3, <2>5, <3>1
    <3>. QED
      BY <3>1, <3>2 DEF ChainsSound
  <2>6. ASSUME NEW p \in Page, NEW q \in Page, p # q, shown'[p] # 0, shown'[q] # 0
        PROVE  order'[shown'[p]].first # order'[shown'[q]].first
    <3>1. /\ shown'[p] = shown[p] /\ order'[shown[p]] = order[shown[p]]
          /\ shown'[q] = shown[q] /\ order'[shown[q]] = order[shown[q]]
      BY <1>2, <2>2, <2>3, <2>6
    <3>. QED
      BY <2>6, <3>1 DEF ChainsSound
  <2>. QED
    BY <2>4, <2>5, <2>6 DEF ChainsSound
<1>4. ASSUME NEW new \in 1..asked', new \notin 1..asked
      PROVE  ChainsSound'
  <2>1. new = asked + 1 /\ \A r \in 1..asked' : r \in 1..asked \/ r = new
    BY <1>4, NewRequest
  <2>2. PICK p \in Page :
           /\ shown' = [shown EXCEPT ![p] = new]
           /\ \/ shown[p] = 0 /\ order'[new].first = new
              \/ ShowsError(p) /\ order'[new] = order[shown[p]]
    BY <1>4, <2>1, NewRequest
  <2>3. \A q \in Page : shown'[q] = IF q = p THEN new ELSE shown[q]
    BY <2>2 DEF TransferTypeOK
  <2>4. \A r \in 1..asked :
           order[r].first = order'[new].first => r < new /\ (call[r] = "failed" \/ r \in broken)
    BY <1>2, <2>1, <2>2 DEF ChainsSound, ShowsError
  <2>5. order'[new].first <= new
    BY <1>2, <2>1, <2>2 DEF ChainsSound, ShowsError
  <2>6. \A q \in Page \ {p} : shown[q] # 0 => order[shown[q]].first # order'[new].first
    BY <1>2, <2>1, <2>2 DEF ChainsSound, ShowsError
  <2>. QED
    BY <1>1, <1>2, <2>1, <2>3, <2>4, <2>5, <2>6 DEF ChainsSound
<1>. QED
  BY <1>1, <1>3, <1>4

\* The inductive invariant of the transfers holds in every reachable state, for
\* any pages, organizations and amounts (tokens.service.ts and tokens/page.tsx).
THEOREM TransferInvariantHolds == TransferSpec => []TransferInvariant
<1>1. TransferInvariant /\ [TransferNext]_transferVars => TransferInvariant'
  <2>. SUFFICES ASSUME TransferInvariant, [TransferNext]_transferVars
                PROVE  TransferInvariant'
    OBVIOUS
  <2>1. (TokenTypeOK /\ SupplyIsSumOfBalances)'
    BY TokenKept DEF TransferInvariant
  <2>2. TransferTypeOK'
    BY <2>1, RequestsTyped DEF TransferInvariant
  <2>. QED
    BY <2>1, <2>2, AnswersKept, ChecksKept, ChainsKept DEF TransferInvariant
<1>. QED
  BY TransferInitEstablishes, <1>1, PTL DEF TransferSpec

\* Every variable keeps its type: balances and supply stay in range, whoever
\* calls the contract.
THEOREM TransferTypeCorrect == TransferSpec => []TransferTypeOK
<1>1. TransferInvariant => TransferTypeOK
  BY DEF TransferInvariant
<1>. QED
  BY <1>1, TransferInvariantHolds, PTL

\* The supply of the KSC token is the sum of its balances, under every call.
THEOREM KSCSupplyIsSum == TransferSpec => []SupplyIsSumOfBalances
<1>1. TransferInvariant => SupplyIsSumOfBalances
  BY DEF TransferInvariant
<1>. QED
  BY <1>1, TransferInvariantHolds, PTL

\* A transfer that passed the check is refused only if another call overtook it
\* or rounding let it through with a little too much.
THEOREM RefusalsDisturbed == TransferSpec => []RevertedOnlyIfDisturbed
<1>1. TransferInvariant => RevertedOnlyIfDisturbed
  BY DEF TransferInvariant, ChecksSound, RevertedOnlyIfDisturbed
<1>. QED
  BY <1>1, TransferInvariantHolds, PTL

\* A transfer asked for again and again moves once, and once more for every
\* answer that was lost: a timeout of the API, or a page's fetch that broke.
THEOREM MovesOnce == TransferSpec => []MovedOncePlusLostAnswers
<1>1. TransferInvariant => MovedOncePlusLostAnswers
  BY DEF TransferInvariant, AnswersSound, ChainsSound, MovedOncePlusLostAnswers
<1>. QED
  BY <1>1, TransferInvariantHolds, PTL

-----------------------------------------------------------------------------
(***************************************************************************)
(* FireFlyGateway.                                                         *)
(*                                                                         *)
(* RequestsSound says where the messages of a request are, EventsSound that*)
(* an event is in one place only, and EventsPlaced that it is somewhere.   *)
(* The refinement of EventFeed rests on them: what is counted or lost was  *)
(* waiting.                                                                *)
(***************************************************************************)

\* A request is where its messages say: what is posted was not executed, what
\* is logged was.
RequestsSound ==
    /\ posts \cap executed = {}
    /\ answers \subseteq executed
    /\ \A r \in Request : phase[r] = "idle" => r \notin posts \cup executed
    /\ \A r \in Request : phase[r] = "auditing" => r \in executed
    /\ \A r \in Request : phase[r] \in {"answering", "done"} => r \in audited
    /\ audited \subseteq executed

\* An event is in one place only: the gateway, one answer, the count or lost.
EventsSound ==
    /\ \A r \in Request : counts[r] = 1 => r \in executed \ PoolRequest
    /\ (events \cup lost) \cap PoolRequest = {}
    /\ \A r \in events \cup lost : counts[r] = 0
    /\ events \cap lost = {}
    /\ \A q \in Poll : /\ carried[q] \cap (events \cup lost \cup PoolRequest) = {}
                       /\ \A r \in carried[q] : counts[r] = 0
    /\ \A p, q \in Poll : p # q => carried[p] \cap carried[q] = {}

\* No event is nowhere.
EventsPlaced ==
    \A r \in executed \ PoolRequest :
        r \in events \cup lost \/ counts[r] = 1 \/ \E q \in Poll : r \in carried[q]

GatewayInvariant == GatewayTypeOK /\ RequestsSound /\ EventsSound /\ EventsPlaced

\* Nothing has happened yet.
LEMMA GatewayInitEstablishes == GatewayInit => GatewayInvariant
BY GatewayAssumption
   DEF GatewayInit, GatewayInvariant, GatewayTypeOK, RequestsSound, EventsSound, EventsPlaced

\* Every step keeps the types; that no event is counted twice needs that an answer
\* carries only events that were not counted.
LEMMA GatewayTypePreserved ==
    ASSUME GatewayTypeOK, EventsSound, [GatewayNext]_gatewayVars
    PROVE  GatewayTypeOK'
<1>. USE DEF GatewayTypeOK, EventsSound, requestVars, pollVars
<1>1. ASSUME NEW r \in Request, Post(r)
      PROVE  GatewayTypeOK'
  BY <1>1 DEF Post, Goto
<1>2. ASSUME NEW r \in Request, Receive(r)
      PROVE  GatewayTypeOK'
  BY <1>2 DEF Receive, Goto
<1>3. ASSUME NEW r \in Request, Fail(r)
      PROVE  GatewayTypeOK'
  BY <1>3 DEF Fail, Goto
<1>4. ASSUME NEW r \in Request, Audit(r)
      PROVE  GatewayTypeOK'
  BY <1>4 DEF Audit, Goto
<1>5. ASSUME NEW r \in Request, Reply(r)
      PROVE  GatewayTypeOK'
  BY <1>5 DEF Reply, Goto
<1>6. ASSUME NEW r \in Request, Execute(r)
      PROVE  GatewayTypeOK'
  BY <1>6 DEF Execute
<1>7. ASSUME NEW q \in Poll, GetEvents(q)
      PROVE  GatewayTypeOK'
  BY <1>7 DEF GetEvents
<1>8. ASSUME NEW q \in Poll, StartPoll(q)
      PROVE  GatewayTypeOK'
  BY <1>8 DEF StartPoll
<1>9. ASSUME NEW q \in Poll, Count(q)
      PROVE  GatewayTypeOK'
  BY <1>9 DEF Count
<1>10. ASSUME NEW q \in Poll, PollFails(q)
      PROVE  GatewayTypeOK'
  BY <1>10 DEF PollFails
<1>11. CASE RestartAPI
  BY <1>11 DEF RestartAPI
<1>12. CASE RestartGateway
  BY <1>12 DEF RestartGateway
<1>13. CASE RestartRelay
  BY <1>13 DEF RestartRelay
<1>14. CASE UNCHANGED gatewayVars
  BY <1>14 DEF gatewayVars
<1>. QED
  BY <1>1, <1>2, <1>3, <1>4, <1>5, <1>6, <1>7, <1>8, <1>9, <1>10, <1>11,
     <1>12, <1>13, <1>14
     DEF GatewayNext, Work

\* A request is answered and logged only after it was executed, and executed
\* once.
LEMMA RequestsPreserved ==
    ASSUME GatewayTypeOK, RequestsSound, [GatewayNext]_gatewayVars
    PROVE  RequestsSound'
<1>. USE DEF GatewayTypeOK, RequestsSound, requestVars, pollVars
<1>1. ASSUME NEW r \in Request, Post(r)
      PROVE  RequestsSound'
  BY <1>1 DEF Post, Goto
<1>2. ASSUME NEW r \in Request, Receive(r)
      PROVE  RequestsSound'
  BY <1>2 DEF Receive, Goto
<1>3. ASSUME NEW r \in Request, Fail(r)
      PROVE  RequestsSound'
  BY <1>3 DEF Fail, Goto
<1>4. ASSUME NEW r \in Request, Audit(r)
      PROVE  RequestsSound'
  BY <1>4 DEF Audit, Goto
<1>5. ASSUME NEW r \in Request, Reply(r)
      PROVE  RequestsSound'
  BY <1>5 DEF Reply, Goto
<1>6. ASSUME NEW r \in Request, Execute(r)
      PROVE  RequestsSound'
  BY <1>6 DEF Execute
<1>7. ASSUME NEW q \in Poll, GetEvents(q)
      PROVE  RequestsSound'
  BY <1>7 DEF GetEvents
<1>8. ASSUME NEW q \in Poll, StartPoll(q)
      PROVE  RequestsSound'
  BY <1>8 DEF StartPoll
<1>9. ASSUME NEW q \in Poll, Count(q)
      PROVE  RequestsSound'
  BY <1>9 DEF Count
<1>10. ASSUME NEW q \in Poll, PollFails(q)
      PROVE  RequestsSound'
  BY <1>10 DEF PollFails
<1>11. CASE RestartAPI
  BY <1>11 DEF RestartAPI
<1>12. CASE RestartGateway
  BY <1>12 DEF RestartGateway
<1>13. CASE RestartRelay
  BY <1>13 DEF RestartRelay
<1>14. CASE UNCHANGED gatewayVars
  BY <1>14 DEF gatewayVars
<1>. QED
  BY <1>1, <1>2, <1>3, <1>4, <1>5, <1>6, <1>7, <1>8, <1>9, <1>10, <1>11,
     <1>12, <1>13, <1>14
     DEF GatewayNext, Work

\* A step takes an event from one place to another.
LEMMA EventsPreserved ==
    ASSUME GatewayTypeOK, RequestsSound, EventsSound, [GatewayNext]_gatewayVars
    PROVE  EventsSound'
<1>. USE DEF GatewayTypeOK, RequestsSound, EventsSound, requestVars, pollVars
<1>1. ASSUME NEW r \in Request, Post(r)
      PROVE  EventsSound'
  BY <1>1 DEF Post, Goto
<1>2. ASSUME NEW r \in Request, Receive(r)
      PROVE  EventsSound'
  BY <1>2 DEF Receive, Goto
<1>3. ASSUME NEW r \in Request, Fail(r)
      PROVE  EventsSound'
  BY <1>3 DEF Fail, Goto
<1>4. ASSUME NEW r \in Request, Audit(r)
      PROVE  EventsSound'
  BY <1>4 DEF Audit, Goto
<1>5. ASSUME NEW r \in Request, Reply(r)
      PROVE  EventsSound'
  BY <1>5 DEF Reply, Goto
<1>6. ASSUME NEW r \in Request, Execute(r)
      PROVE  EventsSound'
  BY <1>6 DEF Execute
<1>7. ASSUME NEW q \in Poll, GetEvents(q)
      PROVE  EventsSound'
  BY <1>7 DEF GetEvents
<1>8. ASSUME NEW q \in Poll, StartPoll(q)
      PROVE  EventsSound'
  BY <1>8 DEF StartPoll
<1>9. ASSUME NEW q \in Poll, Count(q)
      PROVE  EventsSound'
  BY <1>9 DEF Count
<1>10. ASSUME NEW q \in Poll, PollFails(q)
      PROVE  EventsSound'
  BY <1>10 DEF PollFails
<1>11. CASE RestartAPI
  BY <1>11 DEF RestartAPI
<1>12. CASE RestartGateway
  BY <1>12 DEF RestartGateway
<1>13. CASE RestartRelay
  BY <1>13 DEF RestartRelay
<1>14. CASE UNCHANGED gatewayVars
  BY <1>14 DEF gatewayVars
<1>. QED
  BY <1>1, <1>2, <1>3, <1>4, <1>5, <1>6, <1>7, <1>8, <1>9, <1>10, <1>11,
     <1>12, <1>13, <1>14
     DEF GatewayNext, Work

\* A step leaves no event nowhere.
LEMMA PlacesPreserved ==
    ASSUME GatewayTypeOK, EventsSound, EventsPlaced, [GatewayNext]_gatewayVars
    PROVE  EventsPlaced'
<1>. USE DEF GatewayTypeOK, EventsSound, EventsPlaced, requestVars, pollVars
<1>1. ASSUME NEW r \in Request, Post(r)
      PROVE  EventsPlaced'
  BY <1>1 DEF Post, Goto
<1>2. ASSUME NEW r \in Request, Receive(r)
      PROVE  EventsPlaced'
  BY <1>2 DEF Receive, Goto
<1>3. ASSUME NEW r \in Request, Fail(r)
      PROVE  EventsPlaced'
  BY <1>3 DEF Fail, Goto
<1>4. ASSUME NEW r \in Request, Audit(r)
      PROVE  EventsPlaced'
  BY <1>4 DEF Audit, Goto
<1>5. ASSUME NEW r \in Request, Reply(r)
      PROVE  EventsPlaced'
  BY <1>5 DEF Reply, Goto
<1>6. ASSUME NEW r \in Request, Execute(r)
      PROVE  EventsPlaced'
  BY <1>6 DEF Execute
<1>7. ASSUME NEW q \in Poll, GetEvents(q)
      PROVE  EventsPlaced'
  BY <1>7 DEF GetEvents
<1>8. ASSUME NEW q \in Poll, StartPoll(q)
      PROVE  EventsPlaced'
  BY <1>8 DEF StartPoll
<1>9. ASSUME NEW q \in Poll, Count(q)
      PROVE  EventsPlaced'
  BY <1>9 DEF Count
<1>10. ASSUME NEW q \in Poll, PollFails(q)
      PROVE  EventsPlaced'
  BY <1>10 DEF PollFails
<1>11. CASE RestartAPI
  BY <1>11 DEF RestartAPI
<1>12. CASE RestartGateway
  BY <1>12 DEF RestartGateway
<1>13. CASE RestartRelay
  BY <1>13 DEF RestartRelay
<1>14. CASE UNCHANGED gatewayVars
  BY <1>14 DEF gatewayVars
<1>. QED
  BY <1>1, <1>2, <1>3, <1>4, <1>5, <1>6, <1>7, <1>8, <1>9, <1>10, <1>11,
     <1>12, <1>13, <1>14
     DEF GatewayNext, Work

-----------------------------------------------------------------------------
\* The inductive invariant of the gateway holds in every reachable state, for any
\* requests and polls (firefly.controller.ts, mocks/firefly and relay).
THEOREM GatewayInvariantHolds == GatewaySpec => []GatewayInvariant
<1>1. GatewayInvariant /\ [GatewayNext]_gatewayVars => GatewayInvariant'
  BY GatewayTypePreserved, RequestsPreserved, EventsPreserved, PlacesPreserved
     DEF GatewayInvariant
<1>. QED
  BY GatewayInitEstablishes, <1>1, PTL DEF GatewaySpec

\* Every variable keeps its type: an event is of an operation that was executed,
\* and is counted once at most.
THEOREM GatewayTypeCorrect == GatewaySpec => []GatewayTypeOK
<1>1. GatewayInvariant => GatewayTypeOK
  BY DEF GatewayInvariant
<1>. QED
  BY <1>1, GatewayInvariantHolds, PTL

\* The audit trail is of operations that were executed, and has every one the
\* user was told of.
THEOREM AuditTrailTrue == GatewaySpec => []TrailIsTrue
<1>1. GatewayInvariant => TrailIsTrue
  BY DEF GatewayInvariant, RequestsSound, TrailIsTrue
<1>. QED
  BY <1>1, GatewayInvariantHolds, PTL

\* The gateway begins as a feed without events.
LEMMA FeedInit == GatewayInit => Feed!Init
BY DEF GatewayInit, Feed!Init

\* Every step of the gateway, the network and the relay is a step of the feed, or
\* none: to execute is to publish, to count an answer to deliver it, and whatever
\* empties the buffer or an answer otherwise loses what was waiting there.
LEMMA FeedStep ==
    ASSUME GatewayTypeOK, RequestsSound, EventsSound, [GatewayNext]_gatewayVars
    PROVE  [Feed!Next]_Feed!vars
<1>1. /\ events \in SUBSET Feed!Waiting
      /\ \A q \in Poll : carried[q] \in SUBSET Feed!Waiting
  BY DEF GatewayTypeOK, EventsSound, Feed!Waiting
<1>2. ASSUME NEW r \in Request, Execute(r)
      PROVE  [Feed!Next]_Feed!vars
  <2>1. executed' = executed \cup {r} /\ r \notin executed /\ UNCHANGED <<lost, counts>>
    BY <1>2 DEF Execute, RequestsSound, pollVars
  <2>2. CASE r \in PoolRequest
    BY <2>1, <2>2 DEF Feed!vars
  <2>3. CASE r \notin PoolRequest
    <3>1. /\ r \in (Request \ PoolRequest) \ (executed \ PoolRequest)
          /\ executed' \ PoolRequest = (executed \ PoolRequest) \cup {r}
      BY <2>1, <2>3
    <3>. QED
      BY <2>1, <3>1 DEF Feed!Next, Feed!Publish
  <2>. QED
    BY <2>2, <2>3
<1>3. ASSUME NEW q \in Poll, Count(q)
      PROVE  [Feed!Next]_Feed!vars
  <2>1. \A r \in Request : counts'[r] = IF r \in carried[q] THEN 1 ELSE counts[r]
    BY <1>3 DEF Count, GatewayTypeOK, EventsSound
  <2>2. UNCHANGED <<executed, lost>>
    BY <1>3 DEF Count, requestVars
  <2>. QED
    BY <1>1, <2>1, <2>2 DEF Feed!Next, Feed!Deliver
<1>4. ASSUME UNCHANGED <<executed, counts>>,
             NEW gone \in SUBSET Feed!Waiting, lost' = lost \cup gone
      PROVE  [Feed!Next]_Feed!vars
  BY <1>4 DEF Feed!Next, Feed!Lose
<1>5. CASE UNCHANGED <<executed, counts, lost>>
  BY <1>5 DEF Feed!vars
<1>6. ASSUME NEW q \in Poll, GetEvents(q) \/ PollFails(q)
      PROVE  [Feed!Next]_Feed!vars
  <2>1. UNCHANGED <<executed, counts>>
    BY <1>6 DEF GetEvents, PollFails, requestVars
  <2>2. lost' = lost \/ lost' = lost \cup events \/ lost' = lost \cup carried[q]
    BY <1>6 DEF GetEvents, PollFails
  <2>. QED
    BY <1>1, <1>4, <1>5, <2>1, <2>2
<1>7. CASE RestartGateway
  BY <1>1, <1>4, <1>7 DEF RestartGateway
<1>8. CASE RestartRelay
  <2>1. UNCHANGED <<executed, counts>> /\ lost' = lost \cup UNION {carried[q] : q \in Poll}
    BY <1>8 DEF RestartRelay, requestVars
  <2>2. UNION {carried[q] : q \in Poll} \in SUBSET Feed!Waiting
    BY <1>1
  <2>. QED
    BY <1>4, <2>1, <2>2
<1>. QED
  BY <1>2, <1>3, <1>5, <1>6, <1>7, <1>8
     DEF GatewayNext, Work, Post, Receive, Fail, Audit, Reply, StartPoll, RestartAPI, gatewayVars,
         requestVars, pollVars

\* The gateway, the network and the relay together implement the feed.
THEOREM ImplementsEventFeed == GatewaySpec => ImplementsFeed
<1>1. GatewayInit => Feed!Init
  BY FeedInit
<1>2. GatewayInvariant /\ [GatewayNext]_gatewayVars => [Feed!Next]_Feed!vars
  BY FeedStep DEF GatewayInvariant
<1>. QED
  BY <1>1, <1>2, GatewayInvariantHolds, PTL DEF GatewaySpec, ImplementsFeed, Feed!Spec

=============================================================================
