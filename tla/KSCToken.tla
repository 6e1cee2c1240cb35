------------------------------ MODULE KSCToken ------------------------------
(***************************************************************************)
(* contracts/KSCToken.sol: the plain KSC token, pausable, burnable and     *)
(* minted by its owner.  One action per external function; a call that     *)
(* reverts is a disabled action, and onlyOwner is not a guard: the owner   *)
(* may always call.  permit is an Approve that the holder signed.          *)
(***************************************************************************)
EXTENDS ERC20

CONSTANTS Deployer,        \* msg.sender of the constructor
          InitialSupply

ASSUME KSCTokenAssumption == Deployer \in Account /\ InitialSupply \in Uint

VARIABLE paused

tokenVars == <<erc20Vars, paused>>

TokenTypeOK == ERC20TypeOK /\ paused \in BOOLEAN

TokenInit ==
    /\ balances = [a \in Account |-> IF a = Deployer THEN InitialSupply ELSE 0]
    /\ totalSupply = InitialSupply
    /\ allowances = [o \in Account |-> [s \in Account |-> 0]]
    /\ paused = FALSE

\* The _update override.
Move(from, to, value) == ~paused /\ Update(from, to, value)

Mint(to, amount) == Move(ZeroAddress, to, amount) /\ UNCHANGED <<allowances, paused>>

Pause   == ~paused /\ paused' = TRUE  /\ UNCHANGED erc20Vars
Unpause == paused  /\ paused' = FALSE /\ UNCHANGED erc20Vars

Transfer(sender, to, value) == Move(sender, to, value) /\ UNCHANGED <<allowances, paused>>

TransferFrom(spender, from, to, value) ==
    /\ SpendAllowance(from, spender, value)
    /\ Move(from, to, value)
    /\ UNCHANGED paused

BurnOwn(holder, value) == Move(holder, ZeroAddress, value) /\ UNCHANGED <<allowances, paused>>

BurnFrom(spender, from, value) ==
    /\ SpendAllowance(from, spender, value)
    /\ Move(from, ZeroAddress, value)
    /\ UNCHANGED paused

Approve(owner, spender, value) ==
    /\ SetAllowance(owner, spender, value)
    /\ UNCHANGED <<balances, totalSupply, paused>>
=============================================================================
