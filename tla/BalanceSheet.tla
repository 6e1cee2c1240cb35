---------------------------- MODULE BalanceSheet ----------------------------
(***************************************************************************)
(* What it means for a column of naturals f[1], ..., f[n] to add up to s.  *)
(*                                                                         *)
(* The contracts keep a total beside a mapping (totalSupply beside         *)
(* _balances, totalStaked beside the stakes); whether the total is the sum *)
(* of the mapping is the question behind most of their properties.  The    *)
(* sum is stated without recursion, by the existence of its running        *)
(* totals, so that TLC can evaluate it on small columns and TLAPS can      *)
(* reason about columns of any length.                                     *)
(***************************************************************************)
EXTENDS Integers

\* run[k] is the sum of the first k entries of f, and run[n] is s.
IsRunningTotal(run, f, n, s) ==
    /\ run[0] = 0
    /\ run[n] = s
    /\ \A k \in 1..n : run[k] = run[k-1] + f[k]

SumsTo(f, n, s) ==
    \E run \in [0..n -> 0..s] : IsRunningTotal(run, f, n, s)

\* The total of f, if it is at most max.
TotalOf(f, n, max) == CHOOSE s \in 0..max : SumsTo(f, n, s)

=============================================================================
