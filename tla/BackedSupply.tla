---------------------------- MODULE BackedSupply ----------------------------
(***************************************************************************)
(* What a reserve-backed token promises, whatever its accounts, limits and *)
(* compliance lists: tokens are issued together with their reserve, and a  *)
(* reserve is released only together with tokens.  Tokens may disappear    *)
(* without their reserve (a holder destroys them); a reserve never         *)
(* disappears without tokens.                                              *)
(***************************************************************************)
EXTENDS Integers

VARIABLES supply,    \* tokens in circulation
          reserves   \* units of currency held against them

TypeOK == supply \in Nat /\ reserves \in Nat

Init == supply = 0 /\ reserves = 0

\* Tokens and reserve grow by the same amount.
Issue == /\ supply' > supply
         /\ reserves' - reserves = supply' - supply

\* Tokens and reserve shrink by the same amount, never below zero.
Redeem == /\ supply' < supply
          /\ supply' >= 0
          /\ reserves' - reserves = supply' - supply

\* Tokens are destroyed and their reserve stays.
Forfeit == /\ supply' < supply
           /\ supply' >= 0
           /\ UNCHANGED reserves

Next == Issue \/ Redeem \/ Forfeit

vars == <<supply, reserves>>

Spec == Init /\ [][Next]_vars

=============================================================================
