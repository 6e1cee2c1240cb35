--------------------------- MODULE ERC20Theorems ----------------------------
(***************************************************************************)
(* What the ERC20 base keeps for every contract built on it: a move of     *)
(* tokens preserves the types and the balance sheet.                       *)
(***************************************************************************)
EXTENDS ERC20, BalanceSheetTheorems

\* Deployment: all balances and the supply are zero and in order.
LEMMA ERC20InitSound ==
    ASSUME ERC20Init
    PROVE  ERC20TypeOK /\ SupplyIsSumOfBalances
<1>1. ERC20TypeOK
  BY ERC20Assumption DEF ERC20Init, ERC20TypeOK, Account, Uint
<1>2. SumsTo(balances, MaxAddress, 0)
  <2>1. \A k \in 1..MaxAddress : balances[k] = 0
    BY DEF ERC20Init, Account
  <2>. QED
    BY <2>1, SumOfZeros, ERC20Assumption
<1>. QED
  BY <1>1, <1>2 DEF SupplyIsSumOfBalances, ERC20Init

\* No account holds more than the supply.
LEMMA BalanceBound ==
    ASSUME ERC20TypeOK, SupplyIsSumOfBalances, NEW a \in Account
    PROVE  balances[a] <= totalSupply
<1>1. balances \in [1..MaxAddress -> Nat] /\ totalSupply \in Nat
  BY ERC20Assumption DEF ERC20TypeOK, Account, Uint
<1>. QED
  BY <1>1, TermBound, ERC20Assumption DEF Account, SupplyIsSumOfBalances

\* A move (transfer, mint or burn) keeps balances and supply in range and
\* keeps the supply the sum of the balances, although _update neither checks
\* the recipient's balance for overflow nor the supply for underflow.
LEMMA UpdateSound ==
    ASSUME ERC20TypeOK, SupplyIsSumOfBalances,
           NEW from \in Address, NEW to \in Address, NEW value \in Uint,
           Update(from, to, value)
    PROVE  /\ balances' \in [Account -> Uint]
           /\ totalSupply' \in Uint
           /\ SupplyIsSumOfBalances'
<1>. USE ERC20Assumption
<1> DEFINE n == MaxAddress
<1>1. /\ balances \in [1..n -> Nat] /\ totalSupply \in 0..MaxUint
      /\ value \in 0..MaxUint /\ from \in 0..n /\ to \in 0..n /\ n \in Nat
  BY DEF ERC20TypeOK, Account, Uint, Address
<1>2. from # 0 => balances[from] >= value
  BY DEF Update, ZeroAddress
<1>3. \A a \in 1..n : balances'[a] = balances[a] - (IF a = from THEN value ELSE 0)
                                               + (IF a = to THEN value ELSE 0)
  BY DEF Update, Moved, AtEnd, Account
<1>4. totalSupply' = totalSupply + (IF 0 = from THEN value ELSE 0)
                                 - (IF 0 = to THEN value ELSE 0)
  BY DEF Update, AtEnd, ZeroAddress
<1>5. SumsTo(balances', n, totalSupply')
  <2>1. SumsTo(balances, n, totalSupply)
    BY DEF SupplyIsSumOfBalances
  <2>2. totalSupply \in Nat /\ value \in Nat
    BY <1>1
  <2>3. EntriesMoved(balances, balances', n, from, to, value)
    BY <1>3 DEF EntriesMoved
  <2>4. totalSupply' = TotalMoved(totalSupply, from, to, value)
    BY <1>4 DEF TotalMoved
  <2>. HIDE DEF n
  <2>. QED
    BY <1>1, <1>2, <2>1, <2>2, <2>3, <2>4, SumAfterMove
<1>6. balances' \in [1..n -> Nat]
  <2>1. balances' = [a \in 1..n |-> balances'[a]]
    BY DEF Update, Moved, Account
  <2>2. ASSUME NEW a \in 1..n PROVE balances'[a] \in Nat
    BY <1>1, <1>2, <1>3
  <2>. QED
    BY <2>1, <2>2
<1>7. totalSupply' \in Uint
  <2>1. CASE from = 0
    BY <2>1, <1>1, <1>4 DEF Update, ZeroAddress, Uint
  <2>2. CASE from # 0
    <3>1. balances[from] <= totalSupply
      BY <2>2, <1>1, BalanceBound DEF Account
    <3>2. balances[from] \in Nat
      BY <2>2, <1>1
    <3>. QED
      BY <2>2, <3>1, <3>2, <1>1, <1>2, <1>4 DEF Uint
  <2>. QED
    BY <2>1, <2>2
<1>8. ASSUME NEW a \in 1..n PROVE balances'[a] <= totalSupply'
  <2>1. totalSupply' \in Nat
    BY <1>7 DEF Uint
  <2>. QED
    BY <1>1, <1>5, <1>6, <2>1, TermBound
<1>. QED
  BY <1>5, <1>6, <1>7, <1>8 DEF SupplyIsSumOfBalances, Account, Uint

\* An allowance that is granted or partly spent stays an allowance.
LEMMA AllowanceSound ==
    ASSUME ERC20TypeOK,
           NEW owner \in Account, NEW spender \in Account, NEW value \in Uint,
           SetAllowance(owner, spender, value) \/ SpendAllowance(owner, spender, value)
    PROVE  allowances' \in [Account -> [Account -> Uint]]
<1>1. allowances[owner][spender] \in 0..MaxUint /\ value \in 0..MaxUint
  BY DEF ERC20TypeOK, Uint
<1>2. CASE SetAllowance(owner, spender, value)
  BY <1>2 DEF ERC20TypeOK, SetAllowance
<1>3. CASE allowances[owner][spender] = MaxUint /\ UNCHANGED allowances
  BY <1>3 DEF ERC20TypeOK
<1>4. CASE /\ value <= allowances[owner][spender]
           /\ SetAllowance(owner, spender, allowances[owner][spender] - value)
  <2>1. allowances[owner][spender] - value \in Uint
    BY <1>1, <1>4, ERC20Assumption DEF Uint
  <2>. QED
    BY <1>4, <2>1 DEF ERC20TypeOK, SetAllowance
<1>. QED
  BY <1>2, <1>3, <1>4 DEF SpendAllowance

=============================================================================
