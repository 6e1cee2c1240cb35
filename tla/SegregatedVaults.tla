-------------------------- MODULE SegregatedVaults --------------------------
(***************************************************************************)
(* What a custodian promises ("asset segregation"): every customer has a   *)
(* vault of its own for each token, and every NFT a box.  A vault or a box *)
(* changes only with a receipt in the name of the customer whose it is.    *)
(* What else arrives is spare, and so is what a withdrawal leaves with the *)
(* custodian; nobody takes from that.  Receipts are kept for one block.    *)
(***************************************************************************)
EXTENDS Integers

CONSTANTS Customer, Token, NFT,
          Amount,   \* amounts of one deposit or withdrawal
          Nobody    \* whose an empty box is

VARIABLES vault,    \* tokens in the vault of each customer
          spare,    \* tokens in no vault
          boxOf,    \* whose the NFT in each box is
          receipts  \* of the current block

vars == <<vault, spare, boxOf, receipts>>

Init ==
    /\ vault = [c \in Customer |-> [t \in Token |-> 0]]
    /\ spare = [t \in Token |-> 0]
    /\ boxOf = [n \in NFT |-> Nobody]
    /\ receipts = {}

Sign(c, asset, amount, kind) ==
    receipts' = receipts \cup
        {[customer |-> c, asset |-> asset, amount |-> amount, kind |-> kind]}

-----------------------------------------------------------------------------
Deposit(c, t, amount) ==
    /\ vault' = [vault EXCEPT ![c][t] = @ + amount]
    /\ Sign(c, t, amount, "deposit")
    /\ UNCHANGED <<spare, boxOf>>

\* The recipient is outside, or the custodian.
Withdraw(c, t, amount) ==
    /\ vault[c][t] >= amount
    /\ vault' = [vault EXCEPT ![c][t] = @ - amount]
    /\ \/ UNCHANGED spare
       \/ spare' = [spare EXCEPT ![t] = @ + amount]
    /\ Sign(c, t, amount, "withdraw")
    /\ UNCHANGED boxOf

Store(c, n) ==
    /\ boxOf[n] = Nobody
    /\ boxOf' = [boxOf EXCEPT ![n] = c]
    /\ Sign(c, n, 0, "deposit-nft")
    /\ UNCHANGED <<vault, spare>>

Fetch(c, n) ==
    /\ boxOf[n] = c
    /\ boxOf' = [boxOf EXCEPT ![n] = Nobody]
    /\ Sign(c, n, 0, "withdraw-nft")
    /\ UNCHANGED <<vault, spare>>

Arrive(t, amount) ==
    /\ spare' = [spare EXCEPT ![t] = @ + amount]
    /\ UNCHANGED <<vault, boxOf, receipts>>

CloseBlock ==
    /\ receipts' = {}
    /\ UNCHANGED <<vault, spare, boxOf>>

Next ==
    \/ \E c \in Customer, t \in Token, amount \in Amount :
          Deposit(c, t, amount) \/ Withdraw(c, t, amount)
    \/ \E c \in Customer, n \in NFT : Store(c, n) \/ Fetch(c, n)
    \/ \E t \in Token, amount \in Amount : Arrive(t, amount)
    \/ CloseBlock

Spec == Init /\ [][Next]_vars

=============================================================================
