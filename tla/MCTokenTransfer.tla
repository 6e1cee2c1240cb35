-------------------------- MODULE MCTokenTransfer ---------------------------
(***************************************************************************)
(* The instance of TokenTransfer that TLC checks.                          *)
(***************************************************************************)
EXTENDS TokenTransfer

\* Every page is of organization 1.
PageOfOne == [p \in Page |-> 1]
=============================================================================
