------------------------ MODULE BalanceSheetTheorems ------------------------
(***************************************************************************)
(* Facts about columns and their totals, for columns of any length.        *)
(***************************************************************************)
EXTENDS BalanceSheet, WellFoundedInduction, TLAPS

-----------------------------------------------------------------------------
(* Induction over the naturals, stated for sets.                           *)

\* A set of naturals has a least element.
LEMMA LeastNatural ==
    ASSUME NEW S \in SUBSET Nat, S # {}
    PROVE  \E m \in S : \A k \in S : m <= k
<1> DEFINE Less == OpToRel(<, Nat)
<1>1. IsWellFoundedOn(Less, Nat)
  BY NatLessThanWellFounded
<1>2. \A j, k \in Nat : j < k => <<j, k>> \in Less
  BY DEF OpToRel
<1> HIDE DEF Less
<1>3. PICK m \in S : \A k \in S : <<k, m>> \notin Less
  BY <1>1, WFMin
<1>4. ASSUME NEW k \in S PROVE m <= k
  <2>1. k \in Nat /\ m \in Nat /\ ~(k < m)
    BY <1>2, <1>3
  <2>. QED
    BY <2>1
<1>. QED
  BY <1>4

\* What holds of 0, and of k when it holds of k - 1, holds up to n.
LEMMA UpTo ==
    ASSUME NEW n \in Nat, NEW S, 0 \in S, \A k \in 1..n : k - 1 \in S => k \in S
    PROVE  0..n \subseteq S
<1> DEFINE Rest == 0..n \ S
<1>. SUFFICES ASSUME Rest # {} PROVE FALSE
  OBVIOUS
<1>1. Rest \in SUBSET Nat
  OBVIOUS
<1>2. PICK m \in Rest : \A k \in Rest : m <= k
  <2>. HIDE DEF Rest
  <2>. QED
    BY <1>1, LeastNatural
<1>3. m \in 1..n /\ m - 1 \in 0..n
  OBVIOUS
<1>4. m - 1 \in S
  BY <1>2, <1>3
<1>. QED
  BY <1>3, <1>4

-----------------------------------------------------------------------------
(* Columns and their totals.                                               *)

\* Running totals of naturals grow, and stay between 0 and the last.
LEMMA TotalsGrow ==
    ASSUME NEW n \in Nat, NEW s, NEW f, \A k \in 1..n : f[k] \in Nat,
           NEW run, IsRunningTotal(run, f, n, s)
    PROVE  s \in Nat /\ \A k \in 0..n : run[k] \in 0..s
<1>. USE DEF IsRunningTotal
<1>1. \A k \in 0..n : run[k] \in Nat
  <2> DEFINE S == {k \in 0..n : run[k] \in Nat}
  <2>1. 0 \in S /\ \A k \in 1..n : k - 1 \in S => k \in S
    OBVIOUS
  <2> HIDE DEF S
  <2>2. 0..n \subseteq S
    BY <2>1, UpTo
  <2>. QED
    BY <2>2 DEF S
<1>2. \A k \in 0..n : run[k] <= s
  <2> DEFINE S == {k \in 0..n : run[n - k] <= run[n]}
  <2>1. 0 \in S
    BY <1>1
  <2>2. ASSUME NEW k \in 1..n, k - 1 \in S PROVE k \in S
    <3>1. /\ n - k + 1 \in 1..n /\ n - k \in 0..n /\ k \in 0..n
          /\ n - (k - 1) = n - k + 1 /\ (n - k + 1) - 1 = n - k
      OBVIOUS
    <3>2. run[n - k + 1] = run[n - k] + f[n - k + 1]
      BY <3>1
    <3>3. run[n - k] \in Nat /\ run[n - k + 1] \in Nat /\ run[n] \in Nat
      BY <1>1, <3>1
    <3>4. f[n - k + 1] \in Nat /\ run[n - k + 1] <= run[n]
      BY <2>2, <3>1
    <3>. QED
      BY <3>1, <3>2, <3>3, <3>4
  <2> HIDE DEF S
  <2>3. 0..n \subseteq S
    BY <2>1, <2>2, UpTo
  <2>4. ASSUME NEW k \in 0..n PROVE run[k] <= s
    <3>1. n - k \in S /\ n - (n - k) = k
      BY <2>3
    <3>. QED
      BY <3>1 DEF S
  <2>. QED
    BY <2>4
<1>. QED
  BY <1>1, <1>2

\* The running totals of a column of naturals establish its total.
LEMMA TotalFromRun ==
    ASSUME NEW n \in Nat, NEW s, NEW f, \A k \in 1..n : f[k] \in Nat,
           NEW run, IsRunningTotal(run, f, n, s), run = [k \in 0..n |-> run[k]]
    PROVE  SumsTo(f, n, s)
BY TotalsGrow DEF SumsTo

\* A total is a natural.
LEMMA TotalIsNatural ==
    ASSUME NEW n \in Nat, NEW f \in [1..n -> Nat], NEW s, SumsTo(f, n, s)
    PROVE  s \in Nat
BY TotalsGrow DEF SumsTo

\* A column has one total: the supply that is the sum of the balances is the only
\* one that could be.
THEOREM TotalIsUnique ==
    ASSUME NEW n \in Nat, NEW f \in [1..n -> Nat], NEW s \in Nat, NEW t \in Nat,
           SumsTo(f, n, s), SumsTo(f, n, t)
    PROVE  s = t
<1>1. PICK p \in [0..n -> 0..s] : IsRunningTotal(p, f, n, s)
  BY DEF SumsTo
<1>2. PICK q \in [0..n -> 0..t] : IsRunningTotal(q, f, n, t)
  BY DEF SumsTo
<1> DEFINE S == {k \in 0..n : p[k] = q[k]}
<1>3. 0 \in S
  BY <1>1, <1>2 DEF IsRunningTotal
<1>4. ASSUME NEW k \in 1..n, k - 1 \in S PROVE k \in S
  BY <1>1, <1>2, <1>4 DEF IsRunningTotal
<1> HIDE DEF S
<1>5. 0..n \subseteq S
  BY <1>3, <1>4, UpTo
<1>6. p[n] = q[n]
  BY <1>5 DEF S
<1>. QED
  BY <1>1, <1>2, <1>6 DEF IsRunningTotal

\* The total that is chosen is the one there is.
LEMMA TotalChosen ==
    ASSUME NEW n \in Nat, NEW f \in [1..n -> Nat], NEW max \in Nat,
           NEW s \in 0..max, SumsTo(f, n, s)
    PROVE  TotalOf(f, n, max) = s
<1>1. \A t \in 0..max : SumsTo(f, n, t) => t = s
  BY TotalIsUnique
<1>. QED
  BY <1>1 DEF TotalOf

\* A column of zeros adds up to zero: the mappings of a contract just
\* deployed, and the totals beside them.
LEMMA SumOfZeros ==
    ASSUME NEW n \in Nat, NEW f, \A k \in 1..n : f[k] = 0
    PROVE  SumsTo(f, n, 0)
<1> DEFINE run == [k \in 0..n |-> 0]
<1>1. run \in [0..n -> 0..0]
  OBVIOUS
<1>2. IsRunningTotal(run, f, n, 0)
  BY DEF IsRunningTotal
<1>. QED
  BY <1>1, <1>2 DEF SumsTo

\* Columns that agree on their entries have the same totals.
LEMMA SumOfEqual ==
    ASSUME NEW n \in Nat, NEW s \in Nat, NEW f, NEW g,
           \A k \in 1..n : f[k] = g[k],
           SumsTo(f, n, s)
    PROVE  SumsTo(g, n, s)
BY DEF SumsTo, IsRunningTotal

\* No entry exceeds the total: no balance exceeds the supply.
LEMMA TermBound ==
    ASSUME NEW n \in Nat, NEW s \in Nat, NEW f \in [1..n -> Nat],
           SumsTo(f, n, s), NEW i \in 1..n
    PROVE  f[i] <= s
<1>1. PICK run \in [0..n -> 0..s] : IsRunningTotal(run, f, n, s)
  BY DEF SumsTo
<1>2. run[i] = run[i-1] + f[i] /\ i - 1 \in 0..n /\ i \in 0..n
  BY <1>1 DEF IsRunningTotal
<1>. QED
  BY <1>1, <1>2

\* Adding two columns entry by entry adds their totals: a batch of payments
\* raises the balances and their total alike.
LEMMA SumOfColumns ==
    ASSUME NEW n \in Nat, NEW s \in Nat, NEW t \in Nat,
           NEW f \in [1..n -> Nat], NEW g \in [1..n -> Nat],
           SumsTo(f, n, s), SumsTo(g, n, t),
           NEW h, \A k \in 1..n : h[k] = f[k] + g[k],
           NEW u, u = s + t
    PROVE  SumsTo(h, n, u)
<1>1. PICK p \in [0..n -> 0..s] : IsRunningTotal(p, f, n, s)
  BY DEF SumsTo
<1>2. PICK q \in [0..n -> 0..t] : IsRunningTotal(q, g, n, t)
  BY DEF SumsTo
<1> DEFINE run == [k \in 0..n |-> p[k] + q[k]]
<1>3. IsRunningTotal(run, h, n, u)
  <2>1. run[0] = 0 /\ run[n] = u
    BY <1>1, <1>2 DEF IsRunningTotal
  <2>2. ASSUME NEW k \in 1..n PROVE run[k] = run[k-1] + h[k]
    <3>1. k \in 0..n /\ k - 1 \in 0..n
      OBVIOUS
    <3>2. p[k] = p[k-1] + f[k] /\ q[k] = q[k-1] + g[k]
      BY <1>1, <1>2 DEF IsRunningTotal
    <3>. QED
      BY <3>1, <3>2
  <2>. QED
    BY <2>1, <2>2 DEF IsRunningTotal
<1>4. \A k \in 1..n : h[k] \in Nat
  OBVIOUS
<1>5. run = [k \in 0..n |-> run[k]]
  OBVIOUS
<1> HIDE DEF run
<1>. QED
  BY <1>3, <1>4, <1>5, TotalFromRun

\* Multiplying every entry multiplies the total: equal shares for the members
\* of a column of zeros and ones add up to the share times their number.
LEMMA SumOfMultiples ==
    ASSUME NEW n \in Nat, NEW s \in Nat, NEW f \in [1..n -> Nat], SumsTo(f, n, s),
           NEW c \in Nat, NEW h, \A k \in 1..n : h[k] = c * f[k]
    PROVE  SumsTo(h, n, c * s)
<1>1. PICK p \in [0..n -> 0..s] : IsRunningTotal(p, f, n, s)
  BY DEF SumsTo
<1> DEFINE run == [k \in 0..n |-> c * p[k]]
<1>2. ASSUME NEW x \in Nat, NEW y \in Nat PROVE c * (x + y) = c * x + c * y
  OBVIOUS
<1>3. IsRunningTotal(run, h, n, c * s)
  <2>1. run[0] = 0 /\ run[n] = c * s
    BY <1>1 DEF IsRunningTotal
  <2>2. ASSUME NEW k \in 1..n PROVE run[k] = run[k-1] + h[k]
    <3>1. k \in 0..n /\ k - 1 \in 0..n
      OBVIOUS
    <3>2. p[k] = p[k-1] + f[k] /\ p[k-1] \in Nat /\ f[k] \in Nat
      BY <1>1, <3>1 DEF IsRunningTotal
    <3>3. c * p[k] = c * p[k-1] + c * f[k]
      BY <1>2, <3>2
    <3>. QED
      BY <3>1, <3>3
  <2>. QED
    BY <2>1, <2>2 DEF IsRunningTotal
<1>4. \A k \in 1..n : h[k] \in Nat
  <2>1. ASSUME NEW k \in 1..n PROVE c * f[k] \in Nat
    <3>1. f[k] \in Nat
      OBVIOUS
    <3>. QED
      BY <3>1
  <2>. QED
    BY <2>1
<1>5. run = [k \in 0..n |-> run[k]]
  OBVIOUS
<1> HIDE DEF run
<1>. QED
  BY <1>3, <1>4, <1>5, TotalFromRun

\* g is column f after v moved from entry a to entry b, and the total that
\* goes with it; entry 0 is the outside of the column.
EntriesMoved(f, g, n, a, b, v) ==
    \A k \in 1..n : g[k] = f[k] - (IF k = a THEN v ELSE 0)
                                + (IF k = b THEN v ELSE 0)

TotalMoved(s, a, b, v) ==
    s + (IF 0 = a THEN v ELSE 0) - (IF 0 = b THEN v ELSE 0)

\* Moving v from entry a to entry b changes the total by what enters or
\* leaves the column, where 0 stands for outside the column.  With the zero
\* address as entry 0 these are a transfer, a mint (a = 0) and a burn (b = 0).
LEMMA SumAfterMove ==
    ASSUME NEW n \in Nat, NEW s \in Nat, NEW f \in [1..n -> Nat],
           SumsTo(f, n, s),
           NEW a \in 0..n, NEW b \in 0..n, NEW v \in Nat,
           a # 0 => f[a] >= v,
           NEW g, EntriesMoved(f, g, n, a, b, v),
           NEW t, t = TotalMoved(s, a, b, v)
    PROVE  SumsTo(g, n, t)
<1>. USE DEF EntriesMoved, TotalMoved
<1>1. PICK p \in [0..n -> 0..s] : IsRunningTotal(p, f, n, s)
  BY DEF SumsTo
<1> DEFINE moved(k) == (IF b # 0 /\ b <= k THEN v ELSE 0)
                         - (IF a # 0 /\ a <= k THEN v ELSE 0)
           run == [k \in 0..n |-> p[k] + moved(k)]
<1>2. run[0] = 0
  BY <1>1 DEF IsRunningTotal
<1>3. run[n] = t
  <2>1. run[n] = s + moved(n)
    BY <1>1 DEF IsRunningTotal
  <2>2. moved(n) = (IF b = 0 THEN 0 ELSE v) - (IF a = 0 THEN 0 ELSE v)
    OBVIOUS
  <2>. HIDE DEF run, moved
  <2>. QED
    BY <2>1, <2>2
<1>4. ASSUME NEW k \in 1..n PROVE run[k] = run[k-1] + g[k]
  <2>. DEFINE gone == IF k = a THEN v ELSE 0
              come == IF k = b THEN v ELSE 0
              change == come - gone
  <2>1. k \in 0..n /\ k - 1 \in 0..n
    OBVIOUS
  <2>2. p[k] = p[k-1] + f[k] /\ p[k-1] \in Int /\ f[k] \in Int
    BY <1>1, <2>1 DEF IsRunningTotal
  <2>3. moved(k) = moved(k-1) + change /\ moved(k-1) \in Int /\ change \in Int
    OBVIOUS
  <2>4. g[k] = f[k] + change
    <3>1. g[k] = f[k] - gone + come /\ gone \in Int /\ come \in Int
      OBVIOUS
    <3>. HIDE DEF gone, come
    <3>. QED
      BY <2>2, <3>1
  <2>5. run[k] = p[k] + moved(k) /\ run[k-1] = p[k-1] + moved(k-1)
    BY <2>1
  <2>. HIDE DEF run, moved, change
  <2>. QED
    BY <2>2, <2>3, <2>4, <2>5
<1>5. \A k \in 1..n : g[k] \in Nat
  OBVIOUS
<1>6. run = [k \in 0..n |-> run[k]]
  OBVIOUS
<1> HIDE DEF run
<1>7. IsRunningTotal(run, g, n, t)
  BY <1>2, <1>3, <1>4 DEF IsRunningTotal
<1>. QED
  BY <1>5, <1>6, <1>7, TotalFromRun

\* Every column has a total.
LEMMA TotalExists ==
    ASSUME NEW n \in Nat, NEW f \in [1..n -> Nat]
    PROVE  \E s \in Nat : SumsTo(f, n, s)
<1> DEFINE Summed(m, run) == run = [k \in 0..m |-> run[k]] /\ IsRunningTotal(run, f, m, run[m])
           S == {m \in 0..n : \E run : Summed(m, run)}
<1>1. 0 \in S
  <2>1. Summed(0, [k \in 0..0 |-> 0])
    BY DEF IsRunningTotal
  <2>. QED
    BY <2>1
<1>2. ASSUME NEW m \in 1..n, m - 1 \in S PROVE m \in S
  <2>1. PICK old : Summed(m - 1, old)
    BY <1>2
  <2> DEFINE run == [k \in 0..m |-> IF k = m THEN old[m-1] + f[m] ELSE old[k]]
  <2>2. /\ m \in 0..n /\ m - 1 \in 0..m /\ m \in 1..m
        /\ \A k \in 1..m : k - 1 \in 0..m /\ k - 1 # m /\ (k # m => k \in 1..(m - 1))
    OBVIOUS
  <2>3. /\ old[0] = 0
        /\ \A k \in 1..(m - 1) : old[k] = old[k-1] + f[k]
    BY <2>1 DEF IsRunningTotal
  <2>4. /\ \A k \in 0..m : k # m => run[k] = old[k]
        /\ run[m] = old[m-1] + f[m]
    BY <2>2
  <2>5. run = [k \in 0..m |-> run[k]]
    OBVIOUS
  <2> HIDE DEF run
  <2>6. IsRunningTotal(run, f, m, run[m])
    BY <2>2, <2>3, <2>4 DEF IsRunningTotal
  <2>. QED
    BY <2>2, <2>5, <2>6
<1> HIDE DEF S
<1>3. 0..n \subseteq S
  BY <1>1, <1>2, UpTo
<1>4. PICK run : Summed(n, run)
  BY <1>3 DEF S
<1>. QED
  BY <1>4, TotalFromRun, TotalsGrow

=============================================================================
