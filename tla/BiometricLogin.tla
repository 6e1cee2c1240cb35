--------------------------- MODULE BiometricLogin ---------------------------
(***************************************************************************)
(* apps/api/src/modules/auth and users: what a verified login does to the  *)
(* tables users, role_assignments and refresh_tokens, when several logins  *)
(* are in flight.                                                          *)
(*                                                                         *)
(* The server runs one request until it awaits a query, so that a login is *)
(* a chain of steps with one query each.  Waiting for the verification     *)
(* itself is one step here; SessionPolling models what happens in it.      *)
(*                                                                         *)
(* Every query is about one person (an iin and the user that has it) in    *)
(* one organization (demo-bank).  A row of role_assignments is named by    *)
(* the request that inserted it.                                           *)
(***************************************************************************)
EXTENDS Naturals

CONSTANTS Request,     \* the verify requests that arrive, in any order
          Person

VARIABLES users,       \* persons with a row in the table users
          rows,        \* rows of role_assignments
          bound,       \* rows whose userId is set
          tokens,      \* persons who hold an unexpired refresh token
          person,      \* person[r]: whom the session of request r verifies
          step,        \* step[r]: what request r does next
          loaded,      \* loaded[r]: the roles of its user, as r last read them
          overlapped,  \* history: persons two of whose logins overlapped
          failed       \* history: some request ended before its last step

tables    == <<users, rows, bound, tokens>>
history   == <<overlapped, failed>>
loginVars == <<tables, person, step, loaded, history>>

RolesOf(p) == {r \in bound : person[r] = p}

\* A login that has read its user and may still write what it read.
Writing   == {"insertUser", "saveUser", "findRole", "saveRole"}
Finished  == {"done", "refused"}
Underway(p) == {r \in Request : step[r] \in Writing /\ person[r] = p}

LoginTypeOK ==
    /\ users \subseteq Person
    /\ rows \subseteq Request
    /\ bound \subseteq rows
    /\ person \in [Request -> Person]
    /\ \A r \in rows : person[r] \in users
    /\ tokens \subseteq users
    /\ step \in [Request -> Writing \cup Finished \cup
                            {"idle", "verify", "findUser", "loadRoles", "saveToken"}]
    /\ loaded \in [Request -> SUBSET Request]
    /\ overlapped \subseteq Person
    /\ failed \in BOOLEAN

LoginInit ==
    /\ users = {} /\ rows = {} /\ bound = {} /\ tokens = {}
    /\ person \in [Request -> Person]
    /\ step = [r \in Request |-> "idle"]
    /\ loaded = [r \in Request |-> {}]
    /\ overlapped = {}
    /\ failed = FALSE

-----------------------------------------------------------------------------
GoTo(r, next) == step' = [step EXCEPT ![r] = next]

\* POST /biometric/verify, from any page that has the session.
Arrive(r) ==
    /\ step[r] = "idle"
    /\ GoTo(r, "verify")
    /\ UNCHANGED <<tables, person, loaded, history>>

\* getSessionResult and validateResult: the person is verified, or refused.
Verify(r) ==
    /\ step[r] = "verify"
    /\ GoTo(r, "findUser") \/ GoTo(r, "refused")
    /\ UNCHANGED <<tables, person, loaded, history>>

\* findOrCreateByBiometric: the user is found with its roles, or not.
FindUser(r) ==
    /\ step[r] = "findUser"
    /\ loaded' = [loaded EXCEPT ![r] = RolesOf(person[r])]
    /\ GoTo(r, IF person[r] \in users THEN "saveUser" ELSE "insertUser")
    /\ overlapped' = IF Underway(person[r]) = {} THEN overlapped
                                                 ELSE overlapped \cup {person[r]}
    /\ UNCHANGED <<tables, person, failed>>

\* iin is unique: the second insertion is refused, and the login with it.
InsertUser(r) ==
    /\ step[r] = "insertUser"
    /\ users' = users \cup {person[r]}
    /\ GoTo(r, IF person[r] \in users THEN "refused" ELSE "findRole")
    /\ UNCHANGED <<rows, bound, tokens, person, loaded, history>>

\* Mutation: only a new user is assigned a role.
SaveUserOnly(r) ==
    /\ step[r] = "saveUser"
    /\ bound' = (bound \ RolesOf(person[r])) \cup loaded[r]
    /\ GoTo(r, "loadRoles")
    /\ UNCHANGED <<users, rows, tokens, person, loaded, history>>

\* The object was read with the relation roles, so save makes the roles of the
\* user the ones that were read: rows inserted since lose their userId, rows
\* that lost it meanwhile get it back.
SaveUser(r) ==
    /\ step[r] = "saveUser"
    /\ bound' = (bound \ RolesOf(person[r])) \cup loaded[r]
    /\ GoTo(r, "findRole")
    /\ UNCHANGED <<users, rows, tokens, person, loaded, history>>

-----------------------------------------------------------------------------
(* assignRoleByBiometric.                                                  *)

\* Mutation: a role is assigned at each login.
FindNoRole(r) ==
    /\ step[r] = "findRole"
    /\ GoTo(r, "saveRole")
    /\ UNCHANGED <<tables, person, loaded, history>>

\* Mutation: a user without a role is refused.
FindRoleOrRefuse(r) ==
    /\ step[r] = "findRole"
    /\ GoTo(r, IF RolesOf(person[r]) = {} THEN "refused" ELSE "loadRoles")
    /\ UNCHANGED <<tables, person, loaded, history>>

FindRole(r) ==
    /\ step[r] = "findRole"
    /\ GoTo(r, IF RolesOf(person[r]) = {} THEN "saveRole" ELSE "loadRoles")
    /\ UNCHANGED <<tables, person, loaded, history>>

SaveRole(r) ==
    /\ step[r] = "saveRole"
    /\ rows' = rows \cup {r}
    /\ bound' = bound \cup {r}
    /\ GoTo(r, "loadRoles")
    /\ UNCHANGED <<users, tokens, person, loaded, history>>

-----------------------------------------------------------------------------
(* The tokens.                                                             *)

\* The user is read again and the access token signed with the roles it has.
LoadRoles(r) ==
    /\ step[r] = "loadRoles"
    /\ loaded' = [loaded EXCEPT ![r] = RolesOf(person[r])]
    /\ GoTo(r, "saveToken")
    /\ UNCHANGED <<tables, person, history>>

SaveToken(r) ==
    /\ step[r] = "saveToken"
    /\ tokens' = tokens \cup {person[r]}
    /\ GoTo(r, "done")
    /\ UNCHANGED <<users, rows, bound, person, loaded, history>>

\* Seven days after the last login.
Expire(p) ==
    /\ p \in tokens
    /\ tokens' = tokens \ {p}
    /\ UNCHANGED <<users, rows, bound, person, step, loaded, history>>

-----------------------------------------------------------------------------
(* What goes wrong.                                                        *)

InFlight == {r \in Request : step[r] \notin {"idle"} \cup Finished}

\* A query throws, or demo-bank is missing: the request is answered with an error.
Fail(r) ==
    /\ r \in InFlight
    /\ GoTo(r, "refused")
    /\ failed' = TRUE
    /\ UNCHANGED <<tables, person, loaded, overlapped>>

\* The requests in flight are lost; the tables are kept.
Crash ==
    /\ InFlight # {}
    /\ step' = [r \in Request |-> IF r \in InFlight THEN "refused" ELSE step[r]]
    /\ failed' = TRUE
    /\ UNCHANGED <<tables, person, loaded, overlapped>>

-----------------------------------------------------------------------------
Login(r) ==
    \/ Verify(r)
    \/ FindUser(r) \/ InsertUser(r) \/ SaveUser(r)
    \/ FindRole(r) \/ SaveRole(r)
    \/ LoadRoles(r) \/ SaveToken(r)

LoginNext ==
    \/ \E r \in Request : Arrive(r)
    \/ \E r \in Request : Login(r)
    \/ \E r \in Request : Fail(r)
    \/ \E p \in Person : Expire(p)
    \/ Crash

\* Nobody has to log in; a request that has arrived is worked on.
LoginFairness == \A r \in Request : WF_loginVars(Login(r))

LoginSpec == LoginInit /\ [][LoginNext]_loginVars /\ LoginFairness

-----------------------------------------------------------------------------
(* Properties.                                                             *)

\* A person whose logins never overlapped has one role at most, which no save
\* of the user took away (assignRoleByBiometric looks for a role before it
\* inserts one, and nothing in the database forbids a second).
OneRoleWithoutOverlap ==
    \A p \in Person \ overlapped :
        \A r, q \in {x \in rows : person[x] = p} : r = q /\ r \in bound

\* However logins overlap, a person who got a refresh token has a role, or a
\* login that took it away is about to assign one again, as long as no request
\* ends halfway.
RoleOrRepair ==
    ~failed => \A p \in tokens :
        \/ RolesOf(p) # {}
        \/ \E r \in Request : person[r] = p /\ step[r] \in {"findRole", "saveRole"}

\* Once the verification has passed, and unless something fails, the person ends
\* up with a role for good, whichever of several first logins inserts the user.
VerifiedGetsRole ==
    \A r \in Request :
        step[r] = "findUser" ~> [](RolesOf(person[r]) # {}) \/ failed

=============================================================================
