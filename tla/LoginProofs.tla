---------------------------- MODULE LoginProofs -----------------------------
(***************************************************************************)
(* Theorems about the login: its queries (BiometricLogin), the polling of  *)
(* a session (SessionPolling) and the page (LoginPage), for any requests,  *)
(* persons, delays, attempts, timeouts, latencies and numbers of sessions. *)
(***************************************************************************)
EXTENDS BiometricLogin, SessionPolling, LoginPage, TLAPS

-----------------------------------------------------------------------------
(***************************************************************************)
(* BiometricLogin.                                                         *)
(*                                                                         *)
(* TablesSound relates the tables to the steps of the requests in every    *)
(* interleaving.  SerialSound says where the one login of a person stands  *)
(* that has never overlapped with another: what it read is still true, and *)
(* when it inserts a role there is none.  RolesKept extends RoleOrRepair   *)
(* to the requests that are about to sign a token: a save of stale roles   *)
(* is always followed by a look for a role by the same request.            *)
(***************************************************************************)

KnowsUser == {"saveUser", "findRole", "saveRole", "loadRoles", "saveToken"}
RowsFor(p) == {r \in rows : person[r] = p}

TablesSound ==
    /\ LoginTypeOK
    /\ \A r \in Request : step[r] \in KnowsUser => person[r] \in users
    /\ \A r \in Request : step[r] = "saveUser" => loaded[r] \subseteq RowsFor(person[r])

SerialSound ==
    \A p \in Person \ overlapped :
        /\ \A r, q \in Underway(p) : r = q
        /\ \A r, q \in RowsFor(p) : r = q /\ r \in bound
        /\ \A r \in Underway(p) : step[r] = "saveUser" => loaded[r] = RolesOf(p)
        /\ \A r \in Underway(p) : step[r] = "saveRole" => RowsFor(p) = {}

Repairing(p) == \E r \in Request : person[r] = p /\ step[r] \in {"findRole", "saveRole"}
Relying(p) ==
    \/ p \in tokens
    \/ \E r \in Request : person[r] = p /\ step[r] \in {"loadRoles", "saveToken"}

RolesKept ==
    ~failed => \A p \in Person : Relying(p) => RolesOf(p) # {} \/ Repairing(p)

LoginInvariant == TablesSound /\ SerialSound /\ RolesKept

-----------------------------------------------------------------------------
\* Nothing has happened yet.
LEMMA LoginInitEstablishes == LoginInit => LoginInvariant
BY DEF LoginInit, LoginInvariant, TablesSound, LoginTypeOK, SerialSound, RolesKept, Relying,
       KnowsUser, Writing, Finished, Underway, RowsFor

\* The tables and the steps agree, in every interleaving.
LEMMA TablesPreserved ==
    ASSUME TablesSound, [LoginNext]_loginVars
    PROVE  TablesSound'
<1>. USE DEF TablesSound, LoginTypeOK, KnowsUser, RowsFor, Writing, Finished, GoTo, tables, history
<1>1. ASSUME NEW r \in Request, Arrive(r) \/ Verify(r)
      PROVE  TablesSound'
  BY <1>1 DEF Arrive, Verify
<1>2. ASSUME NEW r \in Request, FindUser(r)
      PROVE  TablesSound'
  BY <1>2 DEF FindUser, RolesOf
<1>3. ASSUME NEW r \in Request, InsertUser(r)
      PROVE  TablesSound'
  BY <1>3 DEF InsertUser
<1>4. ASSUME NEW r \in Request, SaveUser(r)
      PROVE  TablesSound'
  BY <1>4 DEF SaveUser, RolesOf
<1>5. ASSUME NEW r \in Request, FindRole(r)
      PROVE  TablesSound'
  BY <1>5 DEF FindRole
<1>6. ASSUME NEW r \in Request, SaveRole(r)
      PROVE  TablesSound'
  BY <1>6 DEF SaveRole
<1>7. ASSUME NEW r \in Request, LoadRoles(r)
      PROVE  TablesSound'
  BY <1>7 DEF LoadRoles, RolesOf
<1>8. ASSUME NEW r \in Request, SaveToken(r)
      PROVE  TablesSound'
  BY <1>8 DEF SaveToken
<1>9. ASSUME NEW p \in Person, Expire(p)
      PROVE  TablesSound'
  BY <1>9 DEF Expire
<1>10. ASSUME NEW r \in Request, Fail(r)
       PROVE  TablesSound'
  BY <1>10 DEF Fail
<1>11. CASE Crash
  BY <1>11 DEF Crash
<1>12. CASE UNCHANGED loginVars
  BY <1>12 DEF loginVars
<1>. QED
  BY <1>1, <1>2, <1>3, <1>4, <1>5, <1>6, <1>7, <1>8, <1>9, <1>10, <1>11, <1>12 DEF LoginNext, Login

\* What a login that does not overlap with another has read stays true.
LEMMA SerialPreserved ==
    ASSUME TablesSound, SerialSound, [LoginNext]_loginVars
    PROVE  SerialSound'
<1>. USE DEF TablesSound, LoginTypeOK, SerialSound, RowsFor, RolesOf, Underway, Writing, GoTo,
             tables, history
<1>1. ASSUME NEW r \in Request, Arrive(r) \/ Verify(r)
      PROVE  SerialSound'
  BY <1>1 DEF Arrive, Verify
<1>2. ASSUME NEW r \in Request, FindUser(r)
      PROVE  SerialSound'
  <2>1. CASE Underway(person[r]) = {}
    BY <1>2, <2>1 DEF FindUser
  <2>2. CASE Underway(person[r]) # {}
    BY <1>2, <2>2 DEF FindUser
  <2>. QED
    BY <2>1, <2>2
<1>3. ASSUME NEW r \in Request, InsertUser(r)
      PROVE  SerialSound'
  BY <1>3 DEF InsertUser
<1>4. ASSUME NEW r \in Request, SaveUser(r)
      PROVE  SerialSound'
  BY <1>4 DEF SaveUser
<1>5. ASSUME NEW r \in Request, FindRole(r)
      PROVE  SerialSound'
  BY <1>5 DEF FindRole
<1>6. ASSUME NEW r \in Request, SaveRole(r)
      PROVE  SerialSound'
  BY <1>6 DEF SaveRole
<1>7. ASSUME NEW r \in Request, LoadRoles(r)
      PROVE  SerialSound'
  BY <1>7 DEF LoadRoles
<1>8. ASSUME NEW r \in Request, SaveToken(r)
      PROVE  SerialSound'
  BY <1>8 DEF SaveToken
<1>9. ASSUME NEW q \in Person, Expire(q)
      PROVE  SerialSound'
  BY <1>9 DEF Expire
<1>10. ASSUME NEW r \in Request, Fail(r)
       PROVE  SerialSound'
  BY <1>10 DEF Fail
<1>11. CASE Crash
  BY <1>11 DEF Crash
<1>12. CASE UNCHANGED loginVars
  BY <1>12 DEF loginVars
<1>. QED
  BY <1>1, <1>2, <1>3, <1>4, <1>5, <1>6, <1>7, <1>8, <1>9, <1>10, <1>11, <1>12 DEF LoginNext, Login

\* No step loses a role without the look for one being under way.
LEMMA RolesKeptPreserved ==
    ASSUME TablesSound, RolesKept, [LoginNext]_loginVars
    PROVE  RolesKept'
<1>. USE DEF TablesSound, LoginTypeOK, RolesKept, Relying, Repairing, RowsFor, RolesOf, GoTo,
             tables, history
<1>1. ASSUME NEW r \in Request, Arrive(r) \/ Verify(r)
      PROVE  RolesKept'
  BY <1>1 DEF Arrive, Verify
<1>2. ASSUME NEW r \in Request, FindUser(r)
      PROVE  RolesKept'
  BY <1>2 DEF FindUser
<1>3. ASSUME NEW r \in Request, InsertUser(r)
      PROVE  RolesKept'
  BY <1>3 DEF InsertUser
<1>4. ASSUME NEW r \in Request, SaveUser(r)
      PROVE  RolesKept'
  BY <1>4 DEF SaveUser
<1>5. ASSUME NEW r \in Request, FindRole(r)
      PROVE  RolesKept'
  BY <1>5 DEF FindRole
<1>6. ASSUME NEW r \in Request, SaveRole(r)
      PROVE  RolesKept'
  BY <1>6 DEF SaveRole
<1>7. ASSUME NEW r \in Request, LoadRoles(r)
      PROVE  RolesKept'
  BY <1>7 DEF LoadRoles
<1>8. ASSUME NEW r \in Request, SaveToken(r)
      PROVE  RolesKept'
  BY <1>8 DEF SaveToken
<1>9. ASSUME NEW q \in Person, Expire(q)
      PROVE  RolesKept'
  BY <1>9 DEF Expire
<1>10. ASSUME (\E r \in Request : Fail(r)) \/ Crash
       PROVE  RolesKept'
  BY <1>10 DEF Fail, Crash
<1>11. CASE UNCHANGED loginVars
  BY <1>11 DEF loginVars
<1>. QED
  BY <1>1, <1>2, <1>3, <1>4, <1>5, <1>6, <1>7, <1>8, <1>9, <1>10, <1>11 DEF LoginNext, Login

-----------------------------------------------------------------------------
\* The inductive invariant holds in every reachable state, for any number of
\* logins of any persons (auth.service.ts and users).
THEOREM LoginInvariantHolds == LoginSpec => []LoginInvariant
<1>1. LoginInvariant /\ [LoginNext]_loginVars => LoginInvariant'
  BY TablesPreserved, SerialPreserved, RolesKeptPreserved DEF LoginInvariant
<1>. QED
  BY LoginInitEstablishes, <1>1, PTL DEF LoginSpec

\* Every variable keeps its type: a role or a token belongs to a user that
\* exists.
THEOREM LoginTypeCorrect == LoginSpec => []LoginTypeOK
<1>1. LoginInvariant => LoginTypeOK
  BY DEF LoginInvariant, TablesSound
<1>. QED
  BY <1>1, LoginInvariantHolds, PTL

\* A person whose logins never overlapped has one role at most, and keeps it.
THEOREM OneRole == LoginSpec => []OneRoleWithoutOverlap
<1>1. LoginInvariant => OneRoleWithoutOverlap
  BY DEF LoginInvariant, SerialSound, OneRoleWithoutOverlap, RowsFor
<1>. QED
  BY <1>1, LoginInvariantHolds, PTL

\* However logins overlap, the owner of a refresh token has a role or is about
\* to be given one, as long as no request ends halfway.
THEOREM RoleIsRepaired == LoginSpec => []RoleOrRepair
<1>1. LoginInvariant => RoleOrRepair
  BY DEF LoginInvariant, TablesSound, LoginTypeOK, RolesKept, Relying, Repairing, RoleOrRepair
<1>. QED
  BY <1>1, LoginInvariantHolds, PTL

-----------------------------------------------------------------------------
(***************************************************************************)
(* SessionPolling.                                                         *)
(*                                                                         *)
(* ClockSound accounts for every second: until the server is done, its     *)
(* next deadline is the initial delay, the fetches and the delays so far.  *)
(* Both bounds on time follow from it.  AnswerSound relates an answer on   *)
(* its way to the session, which may have changed since it was given.      *)
(***************************************************************************)

\* Delays begun after the first fetch.
Delays == IF polling = "delay" THEN attempt ELSE attempt - 1

ClockSound ==
    /\ polling = "delay" => attempt < MaxAttempts
    /\ polling # "delay" => attempt >= 1
    /\ wake = InitialDelay + spent + Delays * Delay
    /\ spent <= attempt * Timeout
    /\ page = "gaveUp" => ClientWait <= now

\* What fails stays failed, and an answer on its way says nothing that the
\* session does not say still.
AnswerSound ==
    /\ session.verdict # "none" => session.status = "FINISHED"
    /\ failedFirst => Failed(session)
    /\ answer # Empty =>
          /\ polling = "answered"
          /\ answer.doc # "none" => session.doc = answer.doc
          /\ failedFirst => Failed(answer)

PollingInvariant == PollingTypeOK /\ ClockSound /\ AnswerSound

-----------------------------------------------------------------------------
\* A product with one more, and with at most as many.
LEMMA Products ==
    ASSUME NEW m \in Nat, NEW n \in Nat, NEW d \in Nat, m <= n
    PROVE  /\ (m + 1) * d = m * d + d
           /\ m * d \in Nat
           /\ m * d <= n * d
<1>1. (m + 1) * d = m * d + d
  OBVIOUS
<1>2. \A k \in Nat : k * d \in Nat
  OBVIOUS
<1>3. PICK k \in Nat : n = m + k
  <2>1. n - m \in Nat /\ n = m + (n - m)
    OBVIOUS
  <2>. QED
    BY <2>1
<1>4. n * d = m * d + k * d
  BY <1>3
<1>. QED
  BY <1>1, <1>2, <1>4

LEMMA PollingInitEstablishes == PollingInit => PollingInvariant
<1>. SUFFICES ASSUME PollingInit PROVE PollingInvariant
  OBVIOUS
<1>1. PollingTypeOK
  <2>1. session \in Answer /\ answer \in Answer \cup {Empty} /\ last \in Answer \cup {Empty}
    BY DEF PollingInit
  <2>2. failedFirst \in BOOLEAN
    BY DEF PollingInit
  <2>. QED
    BY <2>1, <2>2, PollingAssumption DEF PollingInit, PollingTypeOK
<1>2. Delays = 0 /\ 0 * Delay = 0 /\ 0 * Timeout = 0
  BY PollingAssumption DEF PollingInit, Delays
<1>3. ClockSound
  BY <1>2, PollingAssumption DEF PollingInit, ClockSound
<1>4. AnswerSound
  BY DEF PollingInit, AnswerSound
<1>. QED
  BY <1>1, <1>3, <1>4 DEF PollingInvariant

\* A fetch begins when the delay before it is over.
LEMMA StartFetchPreserves ==
    ASSUME PollingInvariant, StartFetch
    PROVE  PollingInvariant'
<1>. USE PollingAssumption DEF PollingInvariant
<1>1. PICK l \in Latency : /\ wake' = now + l
                           /\ spent' = spent + l
                           /\ polling' = IF l = Timeout THEN "timingOut" ELSE "fetching"
  BY DEF StartFetch
<1>2. l \in Nat /\ l <= Timeout
  OBVIOUS
<1>3. PollingTypeOK'
  <2>1. failedFirst' \in BOOLEAN
    BY DEF StartFetch, Failed
  <2>. QED
    BY <1>1, <1>2, <2>1 DEF StartFetch, Due, PollingTypeOK, ClockSound
<1>4. Delays' = attempt /\ Delays = attempt
  BY <1>1 DEF StartFetch, Delays, PollingTypeOK
<1>5. wake' = InitialDelay + spent' + Delays' * Delay
  <2>1. attempt * Delay \in Nat
    BY Products DEF PollingTypeOK
  <2>. QED
    BY <1>1, <1>2, <1>4, <2>1 DEF StartFetch, Due, PollingTypeOK, ClockSound
<1>6. spent' <= attempt' * Timeout
  <2>1. (attempt + 1) * Timeout = attempt * Timeout + Timeout /\ attempt * Timeout \in Nat
    BY Products DEF PollingTypeOK
  <2>. QED
    BY <1>1, <1>2, <2>1 DEF StartFetch, PollingTypeOK, ClockSound
<1>7. AnswerSound'
  BY DEF StartFetch, AnswerSound, Failed, Checks
<1>. QED
  BY <1>1, <1>3, <1>5, <1>6, <1>7 DEF StartFetch, PollingTypeOK, ClockSound

\* The service answers with what it knows, which the clock does not notice.
LEMMA RespondPreserves ==
    ASSUME PollingInvariant, Respond
    PROVE  PollingInvariant'
<1>. USE DEF PollingInvariant
<1>1. PollingTypeOK'
  BY DEF Respond, PollingTypeOK
<1>2. ClockSound'
  BY DEF Respond, ClockSound, Delays
<1>3. AnswerSound'
  BY DEF Respond, AnswerSound, Failed, Checks
<1>. QED
  BY <1>1, <1>2, <1>3

\* A fetch ends in a delay before the next one, or polling is over.
LEMMA FetchPreserves ==
    ASSUME PollingInvariant, FetchAnswer \/ FetchError
    PROVE  PollingInvariant'
<1>. USE PollingAssumption DEF PollingInvariant
<1>1. /\ Due /\ polling \in {"fetching", "answered", "timingOut"}
      /\ UNCHANGED <<now, attempt, spent, session, failedFirst, page>>
      /\ last' \in Answer \cup {Empty} /\ answer' = Empty
  BY DEF FetchAnswer, FetchError, FetchFails, PollingTypeOK
<1>2. Retry \/ (polling' = "over" /\ outcome' \in {"login", "refused", "error"} /\ UNCHANGED wake)
  <2>1. CASE FetchAnswer
    BY <2>1 DEF FetchAnswer, Take, Return
  <2>2. CASE FetchError
    BY <2>2 DEF FetchError
  <2>. QED
    BY <2>1, <2>2
<1>3. PollingTypeOK'
  BY <1>1, <1>2 DEF Retry, Due, PollingTypeOK
<1>4. Delays = attempt - 1 /\ attempt - 1 \in Nat
  BY <1>1 DEF Delays, PollingTypeOK, ClockSound
<1>5. attempt * Delay = (attempt - 1) * Delay + Delay /\ (attempt - 1) * Delay \in Nat
  BY <1>4, Products DEF PollingTypeOK
<1>6. wake' = InitialDelay + spent' + Delays' * Delay
  <2>1. CASE Retry
    BY <1>1, <1>4, <1>5, <2>1 DEF Retry, Due, Delays, PollingTypeOK, ClockSound
  <2>2. CASE polling' = "over" /\ UNCHANGED wake
    BY <1>1, <1>4, <2>2 DEF Delays, PollingTypeOK, ClockSound
  <2>. QED
    BY <1>2, <2>1, <2>2
<1>7. polling' = "delay" => attempt' < MaxAttempts
  BY <1>1, <1>2 DEF Retry
<1>8. AnswerSound'
  BY <1>1 DEF AnswerSound, Failed, Checks, Empty
<1>. QED
  BY <1>1, <1>3, <1>6, <1>7, <1>8 DEF PollingTypeOK, ClockSound

\* What the service reports is added to what it said.
LEMMA ReportKeepsAnswers ==
    ASSUME PollingInvariant, Report
    PROVE  AnswerSound'
<1>. USE DEF PollingInvariant, server
<1>1. /\ session.status # "FINISHED" /\ session.verdict = "none"
      /\ session'.verdict # "none" => session'.status = "FINISHED"
      /\ Later(session, session')
      /\ UNCHANGED server
  BY DEF Report, AnswerSound
<1>2. Failed(session) => Failed(session)'
  BY <1>1 DEF Failed, Checks, Later
<1>3. session.doc # "none" => session'.doc = session.doc
  BY <1>1 DEF Later
<1>4. Failed(answer)' <=> Failed(answer)
  BY <1>1 DEF Failed, Checks
<1>. QED
  BY <1>1, <1>2, <1>3, <1>4 DEF AnswerSound

\* The service, the page and the clock leave the server's account alone.
LEMMA OthersPreserve ==
    ASSUME PollingInvariant,
           Report \/ Deliver \/ GiveUp \/ Disconnect \/ Tick \/ UNCHANGED pollingVars
    PROVE  PollingInvariant'
<1>. USE PollingAssumption DEF PollingInvariant, server
<1>1. UNCHANGED server /\ Delays' = Delays
  BY DEF Report, Deliver, GiveUp, Disconnect, Tick, pollingVars, Delays
<1>2. now' \in Nat /\ now <= now' /\ (polling # "over" => now' <= wake)
                   /\ (page' = "waiting" => now' <= ClientWait)
  <2>1. CASE Tick
    BY <2>1 DEF Tick, Deadlines, PollingTypeOK
  <2>2. CASE UNCHANGED now /\ (page' = page \/ page' # "waiting")
    BY <2>2 DEF PollingTypeOK
  <2>. QED
    BY <2>1, <2>2 DEF Report, Deliver, GiveUp, Disconnect, pollingVars
<1>3. session' \in Answer /\ page' \in {"waiting", "loggedIn", "failed", "gaveUp"}
  BY DEF Report, Deliver, GiveUp, Disconnect, Tick, pollingVars, PollingTypeOK
<1>4. PollingTypeOK'
  BY <1>1, <1>2, <1>3 DEF PollingTypeOK
<1>5. page' = "gaveUp" => ClientWait <= now'
  BY <1>2 DEF Report, Deliver, GiveUp, Disconnect, Tick, pollingVars, PollingTypeOK, ClockSound
<1>6. AnswerSound'
  <2>1. CASE Report
    BY <2>1, ReportKeepsAnswers
  <2>2. CASE UNCHANGED session
    BY <1>1, <2>2 DEF AnswerSound, Failed, Checks
  <2>. QED
    BY <2>1, <2>2 DEF Deliver, GiveUp, Disconnect, Tick, pollingVars
<1>. QED
  BY <1>1, <1>4, <1>5, <1>6 DEF ClockSound

-----------------------------------------------------------------------------
\* The inductive invariant holds in every reachable state (getSessionResult and
\* verifyBiometricSession).
THEOREM PollingInvariantHolds == PollingSpec => []PollingInvariant
<1>1. PollingInvariant /\ [PollingNext]_pollingVars => PollingInvariant'
  BY StartFetchPreserves, RespondPreserves, FetchPreserves, OthersPreserve DEF PollingNext, Server
<1>. QED
  BY PollingInitEstablishes, <1>1, PTL DEF PollingSpec

\* Every variable keeps its type, and time never passes a deadline.
THEOREM PollingTypeCorrect == PollingSpec => []PollingTypeOK
<1>1. PollingInvariant => PollingTypeOK
  BY DEF PollingInvariant
<1>. QED
  BY <1>1, PollingInvariantHolds, PTL

\* Polling ends within the bound that its constants give.
THEOREM PollingBounded == PollingSpec => []PollsWithinBound
<1>1. PollingInvariant => PollsWithinBound
  <2>. SUFFICES ASSUME PollingInvariant, outcome = "none"
                PROVE  wake <= LastWake
    BY DEF PollsWithinBound
  <2>. USE PollingAssumption DEF PollingInvariant
  <2>1. Delays \in Nat /\ Delays <= MaxAttempts - 1 /\ MaxAttempts - 1 \in Nat
    BY DEF Delays, PollingTypeOK, ClockSound
  <2>2. Delays * Delay \in Nat /\ (MaxAttempts - 1) * Delay \in Nat
    BY <2>1, Products
  <2>3. Delays * Delay <= (MaxAttempts - 1) * Delay
    BY <2>1, Products
  <2>4. attempt * Timeout <= MaxAttempts * Timeout /\ attempt * Timeout \in Nat
                                                   /\ MaxAttempts * Timeout \in Nat
    BY Products DEF PollingTypeOK
  <2>. QED
    BY <2>2, <2>3, <2>4 DEF LastWake, PollingTypeOK, ClockSound
<1>. QED
  BY <1>1, PollingInvariantHolds, PTL

\* The page gives up on a polling server only after slow fetches.
THEOREM GiveUpSlow == PollingSpec => []GivesUpOnlyIfSlow
<1>1. PollingInvariant => GivesUpOnlyIfSlow
  <2>. SUFFICES ASSUME PollingInvariant, page = "gaveUp", outcome = "none"
                PROVE  InitialDelay + (MaxAttempts - 1) * Delay + spent >= ClientWait
    BY DEF GivesUpOnlyIfSlow
  <2>. USE PollingAssumption DEF PollingInvariant
  <2>1. Delays \in Nat /\ Delays <= MaxAttempts - 1 /\ MaxAttempts - 1 \in Nat
    BY DEF Delays, PollingTypeOK, ClockSound
  <2>2. Delays * Delay \in Nat /\ (MaxAttempts - 1) * Delay \in Nat
    BY <2>1, Products
  <2>3. Delays * Delay <= (MaxAttempts - 1) * Delay
    BY <2>1, Products
  <2>. QED
    BY <2>2, <2>3 DEF PollingTypeOK, ClockSound
<1>. QED
  BY <1>1, PollingInvariantHolds, PTL

\* A pending answer decides a login only after the last attempt.
THEOREM PendingOnlyLast == PollingSpec => []DecidedOrLast
<1>. DEFINE Inv == PollingInvariant /\ DecidedOrLast
<1>1. PollingInit => Inv
  BY PollingInitEstablishes DEF PollingInit, DecidedOrLast
<1>2. Inv /\ [PollingNext]_pollingVars => Inv'
  <2>. SUFFICES ASSUME Inv, [PollingNext]_pollingVars PROVE DecidedOrLast'
    BY StartFetchPreserves, RespondPreserves, FetchPreserves, OthersPreserve DEF PollingNext, Server
  <2>1. CASE UNCHANGED <<outcome, last, attempt>>
    BY <2>1 DEF DecidedOrLast, Ready, Checks
  <2>2. CASE StartFetch
    BY <2>2 DEF StartFetch, Due, PollingInvariant, PollingTypeOK, DecidedOrLast
  <2>3. CASE FetchAnswer
    <3>. DEFINE a == answer
    <3>1. last' = a /\ Take(a)
      BY <2>3 DEF FetchAnswer
    <3>2. attempt' = attempt /\ attempt \in 0..MaxAttempts /\ outcome = "none"
      BY <2>3 DEF FetchAnswer, Due, PollingInvariant, PollingTypeOK
    <3>3. Ready(last)' = Ready(a)
      BY <3>1 DEF Ready, Checks
    <3>4. CASE Ready(a) = "pending" /\ attempt < MaxAttempts
      BY <3>1, <3>2, <3>4 DEF Take, Retry, DecidedOrLast
    <3>5. CASE ~(Ready(a) = "pending" /\ attempt < MaxAttempts)
      BY <3>2, <3>3, <3>5, PollingAssumption DEF DecidedOrLast
    <3>. QED
      BY <3>4, <3>5
  <2>4. CASE FetchError
    BY <2>4 DEF FetchError, FetchFails, Due, Retry, PollingInvariant, PollingTypeOK, DecidedOrLast
  <2>. QED
    BY <2>1, <2>2, <2>3, <2>4
       DEF PollingNext, Server, Respond, Report, Deliver, GiveUp, Disconnect, Tick,
           pollingVars, server
<1>3. Inv => DecidedOrLast
  OBVIOUS
<1>. QED
  BY <1>1, <1>2, <1>3, PTL DEF PollingSpec

\* A login rests on an answer given since the last fetch began, never on one that
\* a failure had overtaken by then.
THEOREM LoginsCurrent == PollingSpec => LoginIsCurrent
<1>. DEFINE Current == outcome = "none" /\ outcome' = "login"
                         => ~failedFirst /\ session.doc = "named"
<1>1. PollingInvariant /\ [PollingNext]_pollingVars => Current
  <2>. SUFFICES ASSUME PollingInvariant, [PollingNext]_pollingVars,
                       outcome = "none", outcome' = "login"
                PROVE  ~failedFirst /\ session.doc = "named"
    OBVIOUS
  <2>1. FetchAnswer
    BY DEF PollingNext, Server, StartFetch, FetchError, FetchFails, Retry, Respond, Report,
           Deliver, GiveUp, Disconnect, Tick, pollingVars, server
  <2>2. Take(answer)
    BY <2>1 DEF FetchAnswer
  <2>3. Valid(answer)
    BY <2>2 DEF Take, Retry, Return
  <2>4. answer # Empty
    BY <2>3 DEF Valid, Empty
  <2>. QED
    BY <2>3, <2>4 DEF Valid, PollingInvariant, AnswerSound
<1>. QED
  BY <1>1, PollingInvariantHolds, PTL DEF PollingSpec, LoginIsCurrent

-----------------------------------------------------------------------------
(***************************************************************************)
(* LoginPage.                                                              *)
(*                                                                         *)
(* VerifiesWhatItShowed is about the moment a widget finishes.  OneAtATime *)
(* and WidgetsAccounted say, for every moment before, that nothing can     *)
(* replace the session of a widget that may still finish, as long as no    *)
(* Start overtook an earlier one: a request in flight is alone, and every  *)
(* widget is the one on the page or was cancelled.                         *)
(***************************************************************************)

\* PageTypeOK in three parts.
Places ==
    /\ status \in {"idle", "creating_session", "verifying", "checking_result", "success", "error"}
    /\ sessionId \in 0..given /\ given \in 0..MaxSessions
    /\ creating \in 0..(MaxSessions - given)
Flags ==
    /\ widgetScriptLoaded \in BOOLEAN /\ widgetStarted \in BOOLEAN /\ library \in BOOLEAN
    /\ timer \in BOOLEAN /\ overlap \in BOOLEAN
    /\ timer => sessionId # None /\ widgetScriptLoaded /\ ~widgetStarted
Sets ==
    /\ scripts \cup widgets \cup passed \cup cancelled \subseteq 1..given
    /\ waits \subseteq Call /\ calls \subseteq Call /\ stored \in 0..given

\* A widget that was started has its session on the page, and a session its
\* script as soon as there is one.
WidgetSound ==
    /\ widgetStarted => sessionId # None /\ status \notin {"idle", "creating_session"}
    /\ library /\ sessionId # None => widgetScriptLoaded
    /\ sessionId \notin cancelled

\* While no Start overtook another, a request in flight is the only one, and
\* nothing else will start a widget meanwhile.
OneAtATime ==
    creating > 0 => creating = 1 /\ ~widgetStarted /\ ~timer /\ scripts = {}

\* Every widget that may finish is the one on the page, or was cancelled.
WidgetsAccounted ==
    \A w \in widgets : w \in cancelled \/ (w = sessionId /\ widgetStarted)

PageInvariant ==
    /\ PageTypeOK
    /\ WidgetSound
    /\ ~overlap => OneAtATime /\ WidgetsAccounted
    /\ VerifiesWhatItShowed

\* Nothing has happened yet.
LEMMA PageInitEstablishes == PageInit => PageInvariant
<1>. SUFFICES ASSUME PageInit PROVE PageInvariant
  OBVIOUS
<1>. USE PageAssumption DEF PageInit, None
<1>1. Places
  BY DEF Places
<1>2. Flags
  BY DEF Flags
<1>3. Sets
  BY DEF Sets
<1>4. WidgetSound /\ OneAtATime
  BY DEF WidgetSound, OneAtATime
<1>5. WidgetsAccounted /\ VerifiesWhatItShowed
  BY DEF WidgetsAccounted, VerifiesWhatItShowed, Checking
<1>. QED
  BY <1>1, <1>2, <1>3, <1>4, <1>5 DEF PageInvariant, PageTypeOK, Places, Flags, Sets

\* Every step of the page keeps the types.
LEMMA PageTypePreserved ==
    ASSUME PageTypeOK, [PageNext]_pageVars
    PROVE  PageTypeOK'
<1>. USE PageAssumption DEF PageTypeOK, None, Session, Call, formVars, callVars
<1>1. CASE Start
  <2>1. Places'
    BY <1>1 DEF Start, Render, Places
  <2>2. Flags'
    BY <1>1 DEF Start, Render, Flags
  <2>3. Sets'
    BY <1>1 DEF Start, Render, Sets
  <2>. QED
    BY <2>1, <2>2, <2>3 DEF Places, Flags, Sets
<1>2. CASE Created
  <2>1. Places'
    BY <1>2 DEF Created, Render, Places
  <2>2. Flags'
    BY <1>2 DEF Created, Render, Flags
  <2>3. Sets'
    BY <1>2 DEF Created, Render, Sets
  <2>. QED
    BY <2>1, <2>2, <2>3 DEF Places, Flags, Sets
<1>3. CASE CreationFails
  <2>1. Places'
    BY <1>3 DEF CreationFails, Places
  <2>2. Flags'
    BY <1>3 DEF CreationFails, Flags
  <2>3. Sets'
    BY <1>3 DEF CreationFails, Sets
  <2>. QED
    BY <2>1, <2>2, <2>3 DEF Places, Flags, Sets
<1>4. ASSUME NEW s \in scripts, ScriptLoads(s) \/ ScriptFails(s)
      PROVE  PageTypeOK'
  <2>1. Places'
    BY <1>4 DEF ScriptLoads, ScriptFails, Places
  <2>2. Flags'
    <3>1. CASE ScriptLoads(s)
      BY <3>1 DEF ScriptLoads, Flags
    <3>2. CASE ScriptFails(s)
      BY <3>2 DEF ScriptFails, Flags
    <3>. QED
      BY <1>4, <3>1, <3>2
  <2>3. Sets'
    BY <1>4 DEF ScriptLoads, ScriptFails, Sets
  <2>. QED
    BY <2>1, <2>2, <2>3 DEF Places, Flags, Sets
<1>5. CASE Timer
  <2>1. Places'
    BY <1>5 DEF Timer, Places
  <2>2. Flags'
    BY <1>5 DEF Timer, Flags
  <2>3. Sets'
    BY <1>5 DEF Timer, Sets
  <2>. QED
    BY <2>1, <2>2, <2>3 DEF Places, Flags, Sets
<1>6. ASSUME NEW w \in widgets, NEW ok \in BOOLEAN, Finish(w, ok)
      PROVE  PageTypeOK'
  <2>1. Places'
    BY <1>6 DEF Finish, Places
  <2>2. Flags'
    BY <1>6 DEF Finish, Flags
  <2>3. Sets'
    BY <1>6 DEF Finish, Sets
  <2>. QED
    BY <2>1, <2>2, <2>3 DEF Places, Flags, Sets
<1>7. ASSUME NEW c \in calls, Verified(c) \/ VerificationFails(c)
      PROVE  PageTypeOK'
  <2>1. Places'
    BY <1>7 DEF Verified, VerificationFails, Places
  <2>2. Flags'
    BY <1>7 DEF Verified, VerificationFails, Flags
  <2>3. Sets'
    BY <1>7 DEF Verified, VerificationFails, Sets
  <2>. QED
    BY <2>1, <2>2, <2>3 DEF Places, Flags, Sets
<1>8. CASE Cancel
  <2>1. Places'
    BY <1>8 DEF Cancel, Overlay, Render, Places
  <2>2. Flags'
    BY <1>8 DEF Cancel, Overlay, Render, Flags
  <2>3. Sets'
    BY <1>8 DEF Cancel, Overlay, Render, Sets
  <2>. QED
    BY <2>1, <2>2, <2>3 DEF Places, Flags, Sets
<1>9. CASE UNCHANGED pageVars
  BY <1>9 DEF pageVars
<1>10. ASSUME NEW c \in waits, SendRequest(c)
       PROVE  PageTypeOK'
  <2>1. Places'
    BY <1>10 DEF SendRequest, Places
  <2>2. Flags'
    BY <1>10 DEF SendRequest, Flags
  <2>3. Sets'
    BY <1>10 DEF SendRequest, Sets
  <2>. QED
    BY <2>1, <2>2, <2>3 DEF Places, Flags, Sets
<1>. QED
  BY <1>1, <1>2, <1>3, <1>4, <1>5, <1>6, <1>7, <1>8, <1>9, <1>10
     DEF PageNext, Script, Waited, CallEnds

\* What is on the page goes together.
LEMMA WidgetSoundPreserved ==
    ASSUME PageTypeOK, WidgetSound, [PageNext]_pageVars
    PROVE  WidgetSound'
<1>. USE DEF PageTypeOK, WidgetSound, None, formVars, callVars
<1>1. CASE Start
  BY <1>1 DEF Start, Render
<1>2. CASE Created
  BY <1>2 DEF Created, Render
<1>3. CASE CreationFails
  BY <1>3 DEF CreationFails
<1>4. ASSUME NEW s \in scripts, ScriptLoads(s) \/ ScriptFails(s)
      PROVE  WidgetSound'
  BY <1>4 DEF ScriptLoads, ScriptFails
<1>5. CASE Timer
  BY <1>5 DEF Timer
<1>6. ASSUME NEW w \in widgets, NEW ok \in BOOLEAN, Finish(w, ok)
      PROVE  WidgetSound'
  BY <1>6 DEF Finish
<1>7. ASSUME NEW c \in calls, Verified(c) \/ VerificationFails(c)
      PROVE  WidgetSound'
  BY <1>7 DEF Verified, VerificationFails
<1>8. CASE Cancel
  BY <1>8 DEF Cancel, Overlay, Render
<1>9. ASSUME \/ \E c \in waits : SendRequest(c)
             \/ UNCHANGED pageVars
      PROVE  WidgetSound'
  BY <1>9 DEF SendRequest, pageVars
<1>. QED
  BY <1>1, <1>2, <1>3, <1>4, <1>5, <1>6, <1>7, <1>8, <1>9
     DEF PageNext, Script, Waited, CallEnds

\* The history is kept.
LEMMA HistoryKept ==
    ASSUME [PageNext]_pageVars
    PROVE  /\ ~overlap' => ~overlap
           /\ cancelled \subseteq cancelled'
<1>. USE DEF PageNext, Script, Waited, CallEnds, Start, Created, CreationFails, Timer, Cancel,
             ScriptLoads, ScriptFails, SendRequest, Verified, VerificationFails, Finish, pageVars
<1>1. ~overlap' => ~overlap
  OBVIOUS
<1>2. cancelled \subseteq cancelled'
  OBVIOUS
<1>. QED
  BY <1>1, <1>2

\* A widget leaves the page by Cancel only, as long as no Start overtakes
\* another.
LEMMA AccountPreserved ==
    ASSUME PageInvariant, [PageNext]_pageVars, ~overlap'
    PROVE  (OneAtATime /\ WidgetsAccounted)'
<1>. USE DEF PageInvariant, PageTypeOK, WidgetSound, OneAtATime, WidgetsAccounted, None,
             formVars, callVars
<1>0. ~overlap
  BY HistoryKept
<1>1. CASE Start
  <2>1. ~(overlap \/ creating > 0 \/ timer \/ scripts # {})
    BY <1>1 DEF Start
  <2>2. creating = 0 /\ ~timer /\ scripts = {}
    BY <2>1
  <2>3. ~widgetStarted
    BY <1>1 DEF Start, Overlay
  <2>4. ~timer' /\ ~widgetStarted' /\ scripts' = {}
    BY <1>1, <2>2, <2>3 DEF Start, Render
  <2>5. creating' = 1 /\ UNCHANGED <<widgets, cancelled>>
    BY <1>1, <2>2 DEF Start
  <2>. QED
    BY <1>0, <2>3, <2>4, <2>5
<1>2. CASE Created
  BY <1>0, <1>2 DEF Created, Render
<1>3. CASE CreationFails
  BY <1>0, <1>3 DEF CreationFails
<1>4. ASSUME NEW s \in scripts, ScriptLoads(s) \/ ScriptFails(s)
      PROVE  (OneAtATime /\ WidgetsAccounted)'
  BY <1>0, <1>4 DEF ScriptLoads, ScriptFails
<1>5. CASE Timer
  BY <1>0, <1>5 DEF Timer
<1>6. ASSUME NEW w \in widgets, NEW ok \in BOOLEAN, Finish(w, ok)
      PROVE  (OneAtATime /\ WidgetsAccounted)'
  BY <1>0, <1>6 DEF Finish
<1>7. ASSUME NEW c \in calls, Verified(c) \/ VerificationFails(c)
      PROVE  (OneAtATime /\ WidgetsAccounted)'
  BY <1>0, <1>7 DEF Verified, VerificationFails
<1>8. CASE Cancel
  BY <1>0, <1>8 DEF Cancel, Render
<1>9. ASSUME \/ \E c \in waits : SendRequest(c)
             \/ UNCHANGED pageVars
      PROVE  (OneAtATime /\ WidgetsAccounted)'
  BY <1>0, <1>9 DEF SendRequest, pageVars
<1>. QED
  BY <1>1, <1>2, <1>3, <1>4, <1>5, <1>6, <1>7, <1>8, <1>9
     DEF PageNext, Script, Waited, CallEnds

\* Only the end of a widget leads to a verification, of the session then on the
\* page.
LEMMA ChecksBegin ==
    ASSUME [PageNext]_pageVars, NEW c \in Checking', c \notin Checking
    PROVE  /\ sessionId # None
           /\ \E w \in widgets : c = [widget |-> w, session |-> sessionId]
<1>. USE DEF Checking, formVars, callVars
<1>1. PICK w \in widgets, ok \in BOOLEAN : Finish(w, ok)
  BY DEF PageNext, Script, Waited, CallEnds, Start, Created, CreationFails, Timer, Cancel,
         ScriptLoads, ScriptFails, SendRequest, Verified, VerificationFails, pageVars
<1>. QED
  BY <1>1 DEF Finish

\* What the page verifies is what it showed, still.
LEMMA VerifiesPreserved ==
    ASSUME PageInvariant, [PageNext]_pageVars
    PROVE  VerifiesWhatItShowed'
<1>. SUFFICES ASSUME ~overlap', NEW c \in Checking'
              PROVE  c.widget = c.session \/ c.widget \in cancelled'
  BY DEF VerifiesWhatItShowed
<1>1. ~overlap /\ cancelled \subseteq cancelled'
  BY HistoryKept
<1>2. CASE c \in Checking
  BY <1>1, <1>2 DEF PageInvariant, VerifiesWhatItShowed
<1>3. CASE c \notin Checking
  <2>1. PICK w \in widgets : c = [widget |-> w, session |-> sessionId]
    BY <1>3, ChecksBegin
  <2>. QED
    BY <1>1, <2>1 DEF PageInvariant, WidgetsAccounted
<1>. QED
  BY <1>2, <1>3

-----------------------------------------------------------------------------
\* The inductive invariant of the login page holds in every reachable state, for
\* any number of sessions (LoginForm.tsx).
THEOREM PageInvariantHolds == PageSpec => []PageInvariant
<1>1. PageInvariant /\ [PageNext]_pageVars => PageInvariant'
  BY PageTypePreserved, WidgetSoundPreserved, AccountPreserved, VerifiesPreserved
     DEF PageInvariant
<1>. QED
  BY PageInitEstablishes, <1>1, PTL DEF PageSpec

\* Every variable keeps its type: a timer is set for a session whose script is
\* loaded and whose widget is not started.
THEOREM PageTypeCorrect == PageSpec => []PageTypeOK
<1>1. PageInvariant => PageTypeOK
  BY DEF PageInvariant
<1>. QED
  BY <1>1, PageInvariantHolds, PTL

\* Unless Start overtook an attempt that was pending, the page verifies the
\* session whose widget finished, or that widget was cancelled.
THEOREM VerifiedWasShown == PageSpec => []VerifiesWhatItShowed
<1>1. PageInvariant => VerifiesWhatItShowed
  BY DEF PageInvariant
<1>. QED
  BY <1>1, PageInvariantHolds, PTL

\* No widget's end is taken for a session that Cancel left (handleCancel,
\* handleFinish).
THEOREM CancelledNotTaken == PageSpec => NoFinishAfterCancel
<1>1. PageInvariant /\ [PageNext]_pageVars
        => [\A c \in Checking' \ Checking : c.session \notin cancelled]_pageVars
  <2>. SUFFICES ASSUME PageInvariant, [PageNext]_pageVars, NEW c \in Checking' \ Checking
                PROVE  c.session \notin cancelled
    OBVIOUS
  <2>. QED
    BY ChecksBegin DEF PageInvariant, WidgetSound
<1>. QED
  BY <1>1, PageInvariantHolds, PTL DEF PageSpec, NoFinishAfterCancel

=============================================================================
