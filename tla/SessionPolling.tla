--------------------------- MODULE SessionPolling ---------------------------
(***************************************************************************)
(* One POST /biometric/verify: the server polls the biometric service for  *)
(* the result of a session (biometric.service.ts), while the page that     *)
(* asked waits for an answer of the server (web/lib/auth/api.ts).          *)
(*                                                                         *)
(* Time is in seconds from the request and jumps to the next deadline; a   *)
(* step that is due happens before time goes on.  What the service answers *)
(* is a record of the fields the code reads; "none" is a missing field, or *)
(* an object without keys.                                                 *)
(***************************************************************************)
EXTENDS Integers

CONSTANTS InitialDelay, MaxAttempts, Delay,   \* getSessionResult
          Timeout,                            \* of one fetch
          ClientWait,                         \* verifyBiometricSession
          Latency,                            \* how long a fetch may take
          Status, Verdict, Check, Document    \* what the service reports

ASSUME PollingAssumption ==
    /\ InitialDelay \in Nat /\ Delay \in Nat /\ Timeout \in Nat /\ ClientWait \in Nat
    /\ MaxAttempts \in Nat \ {0}
    /\ Latency \subseteq 0..Timeout

ASSUME AnswerAssumption ==
    /\ Status \subseteq {"none", "PROGRESS", "FINISHED"}
    /\ Verdict \subseteq {"none", "passed", "failed"}
    /\ Check \subseteq {"none", "passed", "failed", "unclear"}
    /\ Document \subseteq {"none", "nameless", "named"}

VARIABLES now,
          polling,     \* what the server waits for, or "over"
          attempt,     \* fetches begun
          wake,        \* when the server's delay or fetch ends
          spent,       \* history: seconds given to fetches
          answer,      \* what the service answered to the fetch, on its way
          last,        \* lastData
          outcome,     \* of loginWithBiometric
          session,     \* the session as the service knows it
          failedFirst, \* history: it had failed when the last fetch began
          page         \* the page that sent the request

server      == <<polling, attempt, wake, spent, answer, last, outcome, failedFirst>>
pollingVars == <<now, server, session, page>>

Answer == [status : Status, verdict : Verdict, live : Check, face : Check, doc : Document]
Empty  == [status |-> "none", verdict |-> "none", live |-> "none", face |-> "none",
           doc |-> "none"]
Checks(a) == {a.live, a.face}
Failed(a) == a.verdict = "failed" \/ "failed" \in Checks(a)

\* The bound the constants of getSessionResult give.
LastWake == InitialDelay + MaxAttempts * Timeout + (MaxAttempts - 1) * Delay

PollingTypeOK ==
    /\ now \in Nat /\ wake \in Nat /\ spent \in Nat
    /\ polling \in {"delay", "fetching", "answered", "timingOut", "over"}
    /\ attempt \in 0..MaxAttempts
    /\ answer \in Answer \cup {Empty} /\ last \in Answer \cup {Empty}
    /\ outcome \in {"none", "login", "refused", "error"}
    /\ polling = "over" <=> outcome # "none"
    /\ session \in Answer /\ failedFirst \in BOOLEAN
    /\ page \in {"waiting", "loggedIn", "failed", "gaveUp"}
    /\ polling # "over" => now <= wake
    /\ page = "waiting" => now <= ClientWait

-----------------------------------------------------------------------------
(* What the code makes of an answer.                                       *)

\* getReadyStatus.
Ready(a) ==
    IF a.status = "FINISHED" /\ a.verdict # "none"
    THEN IF a.verdict = "passed" THEN "ready" ELSE "failed"
    ELSE IF a.status = "PROGRESS" \/ (Checks(a) = {"none"} /\ a.doc = "none")
         THEN "pending"
         ELSE "ready"

\* validateResult.
Valid(a) ==
    /\ ~Failed(a)
    /\ a.doc = "named"

-----------------------------------------------------------------------------
PollingInit ==
    /\ now = 0
    /\ polling = "delay" /\ attempt = 0 /\ wake = InitialDelay /\ spent = 0
    /\ answer = Empty /\ last = Empty
    /\ outcome = "none"
    /\ session \in {a \in Answer : a.status # "FINISHED" /\ a.verdict = "none"}
    /\ failedFirst = FALSE
    /\ page = "waiting"

Due == polling # "over" /\ now = wake

\* Mutation: a fetch that times out is sent once more.
FetchTwice ==
    /\ Due /\ polling = "delay"
    /\ attempt' = attempt + 1
    /\ \E l \in Latency : LET t == IF l = Timeout THEN 2 * l ELSE l IN
          /\ wake' = now + t
          /\ spent' = spent + t
          /\ polling' = IF l = Timeout THEN "timingOut" ELSE "fetching"
    /\ failedFirst' = Failed(session)
    /\ UNCHANGED <<now, answer, last, outcome, session, page>>

StartFetch ==
    /\ Due /\ polling = "delay"
    /\ attempt' = attempt + 1
    /\ \E l \in Latency :
          /\ wake' = now + l
          /\ spent' = spent + l
          /\ polling' = IF l = Timeout THEN "timingOut" ELSE "fetching"
    /\ failedFirst' = Failed(session)
    /\ UNCHANGED <<now, answer, last, outcome, session, page>>

\* getSessionResult returns a, and loginWithBiometric validates it.
Return(a) ==
    /\ polling' = "over"
    /\ outcome' = IF Valid(a) THEN "login" ELSE "refused"
    /\ UNCHANGED wake

\* Mutation: the initial delay before each attempt.
RetrySlowly ==
    /\ attempt < MaxAttempts
    /\ polling' = "delay"
    /\ wake' = now + InitialDelay
    /\ UNCHANGED outcome

Retry ==
    /\ attempt < MaxAttempts
    /\ polling' = "delay"
    /\ wake' = now + Delay
    /\ UNCHANGED outcome

\* An answer that is ready, or has failed, is returned; a pending one is too
\* after the last attempt.
Take(a) ==
    IF Ready(a) = "pending" /\ attempt < MaxAttempts THEN Retry ELSE Return(a)

\* The answer arrives; the session may have changed since it was given.
FetchAnswer ==
    /\ Due /\ polling = "answered"
    /\ last' = answer
    /\ Take(answer)
    /\ answer' = Empty
    /\ UNCHANGED <<now, attempt, spent, session, failedFirst, page>>

\* The fetch ended without an answer.
FetchFails ==
    /\ Due /\ polling \in {"fetching", "answered", "timingOut"}
    /\ answer' = Empty
    /\ UNCHANGED <<now, attempt, spent, last, session, failedFirst, page>>

\* Mutation: the last answer there was is used when the last fetch fails.
FetchErrorOrLast ==
    /\ FetchFails
    /\ \/ Retry
       \/ attempt = MaxAttempts /\ Return(last)

\* Mutation: nothing is thrown after the last attempt.
FetchErrorKept ==
    /\ FetchFails
    /\ Retry

FetchError ==
    /\ FetchFails
    /\ \/ Retry
       \/ /\ attempt = MaxAttempts
          /\ polling' = "over" /\ outcome' = "error"
          /\ UNCHANGED wake

-----------------------------------------------------------------------------
(* The biometric service.                                                  *)

\* At some moment of a fetch the service answers with what it knows then, or
\* with empty objects.
Respond ==
    /\ polling = "fetching"
    /\ polling' = "answered"
    /\ answer' \in {session, Empty}
    /\ UNCHANGED <<now, attempt, wake, spent, last, outcome, session, failedFirst, page>>

Later(a, b) ==
    /\ a.live # "none" => b.live = a.live
    /\ a.face # "none" => b.face = a.face
    /\ a.doc # "none" => b.doc = a.doc

\* Results are added while a session lasts; it finishes with a verdict that no
\* failed check contradicts, and then stays as it is.
Report ==
    /\ session.status # "FINISHED"
    /\ session' \in {b \in Answer :
          /\ Later(session, b)
          /\ b.status \in {session.status, "FINISHED"}
          /\ b.status # "FINISHED" => b.verdict = "none"
          /\ b.verdict = "passed" => "failed" \notin Checks(b)}
    /\ UNCHANGED <<now, server, page>>

-----------------------------------------------------------------------------
(* The page.                                                               *)

\* The answer of the server reaches the page.
Deliver ==
    /\ page = "waiting" /\ outcome # "none"
    /\ page' = IF outcome = "login" THEN "loggedIn" ELSE "failed"
    /\ UNCHANGED <<now, server, session>>

\* The AbortController; the server goes on.
GiveUp ==
    /\ page = "waiting" /\ now = ClientWait
    /\ page' = "gaveUp"
    /\ UNCHANGED <<now, server, session>>

\* The connection breaks; the server goes on.
Disconnect ==
    /\ page = "waiting"
    /\ page' = "failed"
    /\ UNCHANGED <<now, server, session>>

-----------------------------------------------------------------------------
Deadlines == (IF polling # "over" THEN {wake} ELSE {})
             \cup (IF page = "waiting" THEN {ClientWait} ELSE {})

\* Time passes to the next deadline, when nothing is due.
Tick ==
    /\ ~(page = "waiting" /\ outcome # "none")
    /\ now' \in Deadlines
    /\ \A t \in Deadlines : now < t /\ now' <= t
    /\ UNCHANGED <<server, session, page>>

Server == StartFetch \/ FetchAnswer \/ FetchError

PollingNext == Server \/ Respond \/ Report \/ Deliver \/ GiveUp \/ Disconnect \/ Tick

\* Timers run and fetches end, with an answer, an error or a timeout; neither the
\* service nor the user has to do anything.
PollingFairness ==
    /\ WF_pollingVars(Server) /\ WF_pollingVars(Deliver)
    /\ WF_pollingVars(GiveUp) /\ WF_pollingVars(Tick)

PollingSpec == PollingInit /\ [][PollingNext]_pollingVars /\ PollingFairness

-----------------------------------------------------------------------------
(* Properties.                                                             *)

\* Polling is over before the initial delay, every fetch at its timeout and the
\* delays between them could have passed (getSessionResult).
PollsWithinBound == outcome = "none" => wake <= LastWake

\* The page gives up on a server that still polls only if the fetches took what
\* the delays left of its time: 13 of 60 seconds with the delays of the code.
GivesUpOnlyIfSlow ==
    page = "gaveUp" /\ outcome = "none"
      => InitialDelay + (MaxAttempts - 1) * Delay + spent >= ClientWait

\* An answer that is still pending decides a login only after the last attempt.
DecidedOrLast ==
    outcome \in {"login", "refused"} => Ready(last) # "pending" \/ attempt = MaxAttempts

\* Nobody is logged in by an answer given before the last fetch began: a session
\* that had failed by then logs nobody in, though one that fails while its answer
\* is on its way, for less than Timeout, still does.
LoginIsCurrent ==
    [][outcome = "none" /\ outcome' = "login"
         => ~failedFirst /\ session.doc = "named"]_pollingVars

\* Every verification is decided, and the page hears of it or gives up.
VerificationEnds == <>(outcome # "none" /\ page # "waiting")

=============================================================================
