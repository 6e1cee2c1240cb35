--------------------------- MODULE TokenTransfer ----------------------------
(***************************************************************************)
(* Transfers of KSC between organizations: pages of the web site ask the   *)
(* API (tokens.service.ts), which reads the sender's balance from the      *)
(* chain, compares, and posts a transfer to FireFly (external).  FireFly   *)
(* answers when it has accepted the transfer and executes it on the token  *)
(* contract later; the API waits for the answer for a minute.  Meanwhile   *)
(* anybody calls the contract.  A page that shows an error, because it was *)
(* told of a failure or because its own fetch broke, may ask again, and    *)
(* one that waits may go back to its form: the request goes on, and        *)
(* nothing tells a transfer that is asked for again from a new one.        *)
(*                                                                         *)
(* Amounts travel as floating-point numbers of KSC and become wei in the   *)
(* API, and balances become numbers of KSC: each conversion may be off by  *)
(* ConversionError wei, up or down.                                        *)
(***************************************************************************)
EXTENDS KSCToken, Sequences

CONSTANTS Page,
          MaxRequests,       \* bound on what the pages ask
          Organization,      \* accounts of the organizations
          orgId,             \* the organization that each page is of
          Amounts,           \* amounts that are asked for, in wei
          Cent,              \* wei in the last digit of balance.toFixed(2)
          ConversionError,   \* bound on the error of a conversion, in wei
          CallAmounts,       \* amounts of other calls of the contract
          Spenders           \* accounts that organizations approve

ASSUME TransferAssumption ==
    /\ MaxRequests \in Nat \ {0} /\ Cent \in Nat \ {0} /\ ConversionError \in Nat
    /\ orgId \in [Page -> Organization]
    /\ Organization \subseteq Account /\ Spenders \subseteq Account
    /\ Amounts \subseteq Uint \ {0} /\ CallAmounts \subseteq Uint

VARIABLES asked,        \* requests so far: 1..asked
          order,        \* what each asks for
          call,         \* how far the API is with each
          operation,    \* what became of its POST to FireFly
          shown,        \* the request a page waits for or shows, 0: the form
          broken,       \* requests of which the page's fetch was rejected
          timedOut,     \* history: requests of which the API gave up waiting
          disturbed     \* history: operations overtaken by another call, or
                        \* let through with less than they need by rounding

apiVars == <<asked, order, call, operation, shown, broken, timedOut>>
transferVars == <<tokenVars, apiVars, disturbed>>

RequestId == 1..MaxRequests

\* What a number of wei may come to after a conversion.
Near(wei) == {w \in (wei - ConversionError)..(wei + ConversionError) : w >= 0}

\* "wei" is what the API posts for the amount, Math.floor(amount * 1e18), and
\* "first" the request that a chain of retries began with.
Order == {o \in [from : Organization, to : Organization, amount : Amounts, wei : Uint,
                 first : RequestId] :
            o.from # o.to /\ o.wei \in Near(o.amount)}

CallStatus      == {"reading", "posting", "failed", "succeeded"}
OperationStatus == {"none", "sent", "lost", "accepted", "mined", "reverted"}

TransferTypeOK ==
    /\ TokenTypeOK
    /\ asked \in 0..MaxRequests
    /\ order \in [1..asked -> Order]
    /\ call \in [1..asked -> CallStatus]
    /\ operation \in [1..asked -> OperationStatus]
    /\ shown \in [Page -> 0..asked]
    /\ broken \cup timedOut \cup disturbed \subseteq 1..asked

TransferInit ==
    /\ TokenInit
    /\ asked = 0 /\ order = <<>> /\ call = <<>> /\ operation = <<>>
    /\ shown = [p \in Page |-> 0]
    /\ broken = {} /\ timedOut = {} /\ disturbed = {}

-----------------------------------------------------------------------------
(* The page.                                                               *)

Submit(p, o) ==
    /\ asked < MaxRequests
    /\ asked' = asked + 1
    /\ order' = Append(order, o)
    /\ call' = Append(call, "reading")
    /\ operation' = Append(operation, "none")
    /\ shown' = [shown EXCEPT ![p] = asked + 1]
    /\ UNCHANGED <<tokenVars, broken, timedOut>>

\* handleTransfer, with the form.
Ask(p) ==
    /\ shown[p] = 0
    /\ \E o \in Order : o.from = orgId[p] /\ o.first = asked + 1 /\ Submit(p, o)

\* The fetch is rejected while the API goes on; a reply that is lost on its way
\* is a fetch that broke just before.
LosePage(p) ==
    /\ shown[p] # 0
    /\ shown[p] \notin broken
    /\ call[shown[p]] \in {"reading", "posting"}
    /\ broken' = broken \cup {shown[p]}
    /\ UNCHANGED <<tokenVars, asked, order, call, operation, shown, timedOut>>

ShowsError(p) == shown[p] # 0 /\ (call[shown[p]] = "failed" \/ shown[p] \in broken)

\* handleTransfer again, from the form that shows the error.
Retry(p) == ShowsError(p) /\ Submit(p, order[shown[p]])

\* The button that cancels, pressed at any time, or the end of the success
\* message: nothing is aborted.
Close(p) ==
    /\ shown[p] # 0
    /\ shown' = [shown EXCEPT ![p] = 0]
    /\ UNCHANGED <<tokenVars, asked, order, call, operation, broken, timedOut>>

-----------------------------------------------------------------------------
(* transferKSC.                                                            *)

\* getKSCBalances: the balance with two decimals, rounded.
Shown(balance) == ((balance + Cent \div 2) \div Cent) * Cent

\* The most that rounding and conversions add to what the sender has.
Slack == Cent \div 2 + 2 * ConversionError

\* Mutation: the transfer is posted whatever the balance.
CheckNothing(r) ==
    /\ call[r] = "reading"
    /\ call' = [call EXCEPT ![r] = "posting"]
    /\ operation' = [operation EXCEPT ![r] = "sent"]
    /\ UNCHANGED <<tokenVars, asked, order, shown, broken, timedOut>>

\* The answer of eth_call, the comparison of amounts of KSC, and the POST of
\* order[r].wei; eth_call may fail, and having no timeout it may never answer.
Check(r) ==
    /\ call[r] = "reading"
    /\ \/ /\ \E read \in Near(balances[order[r].from]) : Shown(read) >= order[r].amount
          /\ call' = [call EXCEPT ![r] = "posting"]
          /\ operation' = [operation EXCEPT ![r] = "sent"]
       \/ /\ call' = [call EXCEPT ![r] = "failed"]
          /\ UNCHANGED operation
    /\ UNCHANGED <<tokenVars, asked, order, shown, broken, timedOut>>

\* Mutation: an answer that says the transfer is still pending is an error.
AnswerPending(r) ==
    /\ call[r] = "posting"
    /\ operation[r] \in {"accepted", "mined", "reverted"}
    /\ call' = [call EXCEPT ![r] = IF operation[r] = "accepted" THEN "failed" ELSE "succeeded"]
    /\ UNCHANGED <<tokenVars, asked, order, operation, shown, broken, timedOut>>

\* Mutation: success is reported once the POST is sent.
AnswerEarly(r) ==
    /\ call[r] = "posting"
    /\ call' = [call EXCEPT ![r] = "succeeded"]
    /\ UNCHANGED <<tokenVars, asked, order, operation, shown, broken, timedOut>>

\* FireFly answers, and success is reported.
Answer(r) ==
    /\ call[r] = "posting"
    /\ operation[r] \in {"accepted", "mined", "reverted"}
    /\ call' = [call EXCEPT ![r] = "succeeded"]
    /\ UNCHANGED <<tokenVars, asked, order, operation, shown, broken, timedOut>>

\* Mutation: the POST has no timeout.
TimeoutNever(r) == call[r] = "never" /\ UNCHANGED <<tokenVars, apiVars>>

\* The timeout, or the end of the connection, whatever became of the POST.
Timeout(r) ==
    /\ call[r] = "posting"
    /\ call' = [call EXCEPT ![r] = "failed"]
    /\ timedOut' = timedOut \cup {r}
    /\ UNCHANGED <<tokenVars, asked, order, operation, shown, broken>>

-----------------------------------------------------------------------------
(* FireFly, the network and the chain.                                     *)

Deliver(r) ==
    /\ operation[r] = "sent"
    /\ \E fate \in {"accepted", "lost"} : operation' = [operation EXCEPT ![r] = fate]
    /\ UNCHANGED <<tokenVars, asked, order, call, shown, broken, timedOut>>

CanMove(o) == ~paused /\ balances[o.from] >= o.wei

\* The transaction, signed with the key of the sender, is in a block.
Mine(r) ==
    /\ operation[r] = "accepted"
    /\ \/ /\ Transfer(order[r].from, order[r].to, order[r].wei)
          /\ operation' = [operation EXCEPT ![r] = "mined"]
       \/ /\ ~CanMove(order[r])
          /\ operation' = [operation EXCEPT ![r] = "reverted"]
          /\ UNCHANGED tokenVars
    /\ UNCHANGED <<asked, order, call, shown, broken, timedOut>>

\* What others call.
TokenCall ==
    /\ \/ \E to \in Account, value \in CallAmounts :
             \/ Mint(to, value)
             \/ \E from \in Account : Transfer(from, to, value)
             \/ \E spender \in Spenders, from \in Organization :
                   TransferFrom(spender, from, to, value)
       \/ \E from \in Organization, value \in CallAmounts :
             \/ BurnOwn(from, value)
             \/ \E spender \in Spenders :
                   BurnFrom(spender, from, value) \/ Approve(from, spender, value)
       \/ Pause
       \/ Unpause
    /\ UNCHANGED apiVars

\* An operation is disturbed if, after its check, tokens leave its sender or
\* the token is paused, or if it was posted for more than there was, but by no
\* more than rounding accounts for; forgotten once it moved or was lost.
Disturbs(r) ==
    LET held == balances[order[r].from]
    IN  \/ paused'
        \/ balances'[order[r].from] < held
        \/ /\ operation[r] = "none"
           /\ held < order[r].wei /\ order[r].wei <= held + Slack

Record ==
    disturbed' =
        {r \in 1..asked :
            \/ r \in disturbed /\ operation'[r] = "reverted"
            \/ /\ operation'[r] \in {"sent", "accepted"}
               /\ r \in disturbed \/ Disturbs(r)}

Handle(r)  == Check(r) \/ Answer(r) \/ Timeout(r)
FireFly(r) == Deliver(r) \/ Mine(r)

TransferNext ==
    /\ \/ \E p \in Page : Ask(p) \/ LosePage(p) \/ Retry(p) \/ Close(p)
       \/ \E r \in 1..asked : Handle(r) \/ FireFly(r)
       \/ TokenCall
    /\ Record

\* A POST is answered or times out, and FireFly executes what it accepted.
\* Nothing makes the balance read end.
TransferFairness ==
    \A r \in RequestId :
        /\ WF_transferVars(r <= asked /\ (Answer(r) \/ Timeout(r)) /\ Record)
        /\ WF_transferVars(r <= asked /\ Mine(r) /\ Record)

TransferSpec == TransferInit /\ [][TransferNext]_transferVars /\ TransferFairness

-----------------------------------------------------------------------------
\* A transfer that passed the check of transferKSC is refused by the contract
\* only if another call overtook it, or if it was posted for more than its
\* sender had, by less than half a cent and the errors of two conversions.
RevertedOnlyIfDisturbed ==
    \A r \in 1..asked : operation[r] = "reverted" => r \in disturbed

\* A transfer that a page asks for again and again is executed once, and once
\* more for every answer that was lost: each time the API gave up waiting for
\* FireFly, or the page's fetch broke while the API went on.
MovedOncePlusLostAnswers ==
    \A r, s \in 1..asked :
        /\ r < s /\ order[r].first = order[s].first
        /\ operation[r] = "mined" /\ operation[s] = "mined"
        => r \in timedOut \cup broken

\* What the API reports as a success is executed, or refused, in the end.
SuccessIsExecuted ==
    \A r \in RequestId :
        (r <= asked /\ call[r] = "succeeded")
            ~> (r <= asked /\ operation[r] \in {"mined", "reverted"})

\* Every request whose transfer was posted is answered.
PostEnds ==
    \A r \in RequestId :
        (r <= asked /\ call[r] = "posting")
            ~> (r <= asked /\ call[r] \in {"failed", "succeeded"})
=============================================================================
