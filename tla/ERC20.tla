------------------------------- MODULE ERC20 --------------------------------
(***************************************************************************)
(* The OpenZeppelin 5.x ERC20 base contract, as the contracts under src/   *)
(* use it: external code, modelled by what _update, _approve and           *)
(* _spendAllowance do to the token's state.  A call that reverts is a      *)
(* disabled action.                                                        *)
(*                                                                         *)
(* Addresses are numbers, as in the EVM: 0 is address(0) and 1..MaxAddress *)
(* the accounts in play.  A uint256 is a number up to MaxUint; checked     *)
(* arithmetic that would leave that range reverts.                         *)
(***************************************************************************)
EXTENDS BalanceSheet

CONSTANTS MaxAddress,   \* the accounts are 1..MaxAddress
          MaxUint       \* type(uint256).max, scaled down

ASSUME ERC20Assumption == MaxAddress \in Nat \ {0} /\ MaxUint \in Nat \ {0}

VARIABLES balances,     \* _balances: tokens of each account
          totalSupply,  \* _totalSupply
          allowances    \* _allowances[owner][spender]

erc20Vars == <<balances, totalSupply, allowances>>

ZeroAddress == 0
Account     == 1..MaxAddress
Address     == 0..MaxAddress
Uint        == 0..MaxUint

ERC20TypeOK ==
    /\ balances \in [Account -> Uint]
    /\ totalSupply \in Uint
    /\ allowances \in [Account -> [Account -> Uint]]

ERC20Init ==
    /\ balances = [a \in Account |-> 0]
    /\ totalSupply = 0
    /\ allowances = [o \in Account |-> [s \in Account |-> 0]]

\* The part of value an address gains or loses when it is "end" of a move.
AtEnd(a, end, value) == IF a = end THEN value ELSE 0

Moved(from, to, value) ==
    [a \in Account |-> balances[a] - AtEnd(a, from, value) + AtEnd(a, to, value)]

\* Mutation: a mint credits the recipient and leaves the supply alone.
UpdateForgetsSupply(from, to, value) ==
    /\ from # ZeroAddress => balances[from] >= value
    /\ totalSupply' = totalSupply - AtEnd(ZeroAddress, to, value)
    /\ balances' = Moved(from, to, value)

\* _update: a move from address(0) mints, a move to it burns.
Update(from, to, value) ==
    /\ from = ZeroAddress => totalSupply + value <= MaxUint
    /\ from # ZeroAddress => balances[from] >= value
    /\ totalSupply' = totalSupply + AtEnd(ZeroAddress, from, value)
                                  - AtEnd(ZeroAddress, to, value)
    /\ balances' = Moved(from, to, value)

SetAllowance(owner, spender, value) ==
    allowances' = [allowances EXCEPT ![owner][spender] = value]

\* _spendAllowance: the maximal allowance is never used up.
SpendAllowance(owner, spender, value) ==
    \/ /\ allowances[owner][spender] = MaxUint
       /\ UNCHANGED allowances
    \/ /\ value <= allowances[owner][spender]
       /\ allowances[owner][spender] < MaxUint
       /\ SetAllowance(owner, spender, allowances[owner][spender] - value)

-----------------------------------------------------------------------------
\* The supply is the sum of what the accounts hold, after every mint, batch,
\* burn and transfer of a contract built on this one (the unchecked
\* arithmetic of _update relies on it).
SupplyIsSumOfBalances == SumsTo(balances, MaxAddress, totalSupply)

=============================================================================
