------------------------------ MODULE Diplomas ------------------------------
(***************************************************************************)
(* apps/api/src/modules/diplomas: the row of one diploma and its NFTs,     *)
(* under sync and revoke requests that run concurrently.                   *)
(*                                                                         *)
(* The server runs one request until it awaits something, so that a        *)
(* request is a chain of steps, each ending in a query or a call to        *)
(* another service.  Steps that touch nothing modelled here (resolving the *)
(* organization, FireFly, the audit log) are part of their neighbours.     *)
(*                                                                         *)
(* The row is found into an object, changed there, and saved: save writes  *)
(* every column that was loaded, changed or not.  The columns kept are the *)
(* ones the properties speak of.  One diploma is enough: every query is by *)
(* its ediplomaId or its id.                                               *)
(***************************************************************************)
EXTENDS Integers, Sequences

CONSTANTS Request,     \* the requests that arrive, in any order
          Org

VARIABLES row,         \* the row of the diploma in the table diplomas
          nfts,        \* nfts[m]: status of the m-th asset minted for it
          step,        \* step[r]: what request r does next
          caller,      \* caller[r]: the organization the request is made for
          local,       \* local[r]: the variable diploma of the request
          disturbed    \* history: requests overlapped, failed, or somebody
                       \* changed the NFTs directly

vars == <<row, nfts, step, caller, local, disturbed>>

NoMint == 0
Mints  == 1..Len(nfts)
Status == {"issued", "updated", "revoked"}
NoRow  == [exists |-> FALSE]
Row    == [exists : {TRUE}, org : Org, status : Status, revokedAt : BOOLEAN, mint : Nat]

InFlight == {r \in Request : step[r] \notin {"idle", "done"}}

TypeOK ==
    /\ row \in Row \cup {NoRow}
    /\ nfts \in Seq(Status)
    /\ step \in [Request -> {"idle", "publish", "mint", "save", "saveRevoked",
                             "revokeNFT", "done"}]
    /\ caller \in [Request -> Org]
    /\ local \in [Request -> Row \cup {NoRow}]
    /\ row.exists => row.mint \in Mints \cup {NoMint}
    /\ disturbed \in BOOLEAN

Init ==
    /\ row = NoRow
    /\ nfts = <<>>
    /\ step = [r \in Request |-> "idle"]
    /\ caller \in [Request -> Org]
    /\ local = [r \in Request |-> NoRow]
    /\ disturbed = FALSE

-----------------------------------------------------------------------------
GoTo(r, next) == step' = [step EXCEPT ![r] = next]

\* A request arrives while others are in flight, or not.
Arrive(r, next) ==
    /\ step[r] = "idle"
    /\ GoTo(r, next)
    /\ disturbed' = (disturbed \/ InFlight # {})

\* An exception ends the request; the caller gets an error.
Throw(r) ==
    /\ GoTo(r, "done")
    /\ disturbed' = TRUE

\* Mutation: an NFT is minted whether the diploma has one or not.
MintAnyway(r) == "mint"

\* Once published, a diploma that has no NFT is minted one.
AfterPublish(r) == IF local[r].mint = NoMint THEN "mint" ELSE "save"

-----------------------------------------------------------------------------
(* syncFromEdiploma.                                                       *)

\* findOne, and the object it is copied into or a new one created for it.
SyncFind(r) ==
    /\ Arrive(r, "publish")
    /\ local' = [local EXCEPT ![r] =
                   IF row.exists
                   THEN [row EXCEPT !.status = "updated"]
                   ELSE [exists |-> TRUE, org |-> caller[r], status |-> "issued",
                         revokedAt |-> FALSE, mint |-> NoMint]]
    /\ UNCHANGED <<row, nfts, caller>>

\* Uploads to IPFS, which may throw, and the FireFly transaction, which may not.
SyncPublish(r) ==
    /\ step[r] = "publish"
    /\ \/ GoTo(r, AfterPublish(r)) /\ UNCHANGED disturbed
       \/ Throw(r)
    /\ UNCHANGED <<row, nfts, caller, local>>

\* solana.mint saves an asset, then logs it; whichever throws is caught, and
\* the diploma goes on without the address.
SyncMint(r) ==
    /\ step[r] = "mint"
    /\ GoTo(r, "save")
    /\ \/ /\ nfts' = Append(nfts, "issued")
          /\ local' = [local EXCEPT ![r].mint = Len(nfts) + 1]
          /\ UNCHANGED disturbed
       \/ /\ nfts' \in {nfts, Append(nfts, "issued")}
          /\ UNCHANGED local
          /\ disturbed' = TRUE
    /\ UNCHANGED <<row, caller>>

\* The object was created and not found when its status is still "issued".
\* Inserting it is refused if the row exists by now: ediplomaId is unique.
SyncSave(r) ==
    /\ step[r] = "save"
    /\ \/ /\ local[r].status = "issued" => ~row.exists
          /\ row' = local[r]
          /\ GoTo(r, "done")
          /\ UNCHANGED disturbed
       \/ Throw(r) /\ UNCHANGED row
    /\ UNCHANGED <<nfts, caller, local>>

-----------------------------------------------------------------------------
(* revoke.                                                                 *)

\* Mutation: any organization may revoke.
RevokeFindAnyOrg(r) ==
    /\ row.exists
    /\ Arrive(r, "saveRevoked")
    /\ local' = [local EXCEPT ![r] = [row EXCEPT !.status = "revoked", !.revokedAt = TRUE]]
    /\ UNCHANGED <<row, nfts, caller>>

\* Not found, or another organization's: the request is refused.
RevokeFind(r) ==
    /\ \/ /\ row.exists
          /\ row.org = caller[r]
          /\ Arrive(r, "saveRevoked")
          /\ local' = [local EXCEPT ![r] =
                         [row EXCEPT !.status = "revoked", !.revokedAt = TRUE]]
       \/ /\ row.exists => row.org # caller[r]
          /\ Arrive(r, "done")
          /\ UNCHANGED local
    /\ UNCHANGED <<row, nfts, caller>>

\* Mutation: the NFT is left as it is.
RevokeSaveOnly(r) ==
    /\ step[r] = "saveRevoked"
    /\ row' = local[r]
    /\ GoTo(r, "done")
    /\ UNCHANGED <<nfts, caller, local, disturbed>>

RevokeSave(r) ==
    /\ step[r] = "saveRevoked"
    /\ \/ /\ row' = local[r]
          /\ GoTo(r, IF local[r].mint = NoMint THEN "done" ELSE "revokeNFT")
          /\ UNCHANGED disturbed
       \/ Throw(r) /\ UNCHANGED row
    /\ UNCHANGED <<nfts, caller, local>>

\* solana.revoke; a failure is caught and the NFT stays as it is.
RevokeNFT(r) ==
    /\ step[r] = "revokeNFT"
    /\ GoTo(r, "done")
    /\ \/ nfts' = [nfts EXCEPT ![local[r].mint] = "revoked"] /\ UNCHANGED disturbed
       \/ UNCHANGED nfts /\ disturbed' = TRUE
    /\ UNCHANGED <<row, caller, local>>

-----------------------------------------------------------------------------
(* The Solana endpoints, and a crash of the server.                        *)

\* updateMetadata and revoke of the solana controller, on any asset.
SetAssetStatus(m, status) ==
    /\ nfts' = [nfts EXCEPT ![m] = status]
    /\ disturbed' = TRUE
    /\ UNCHANGED <<row, step, caller, local>>

UpdateMetadata(m) == SetAssetStatus(m, "updated")
RevokeAsset(m)    == SetAssetStatus(m, "revoked")

\* The requests in flight are lost; row and assets are in the database.
Crash ==
    /\ InFlight # {}
    /\ step' = [r \in Request |-> IF r \in InFlight THEN "done" ELSE step[r]]
    /\ disturbed' = TRUE
    /\ UNCHANGED <<row, nfts, caller, local>>

-----------------------------------------------------------------------------
Sync(r)   == SyncFind(r) \/ SyncPublish(r) \/ SyncMint(r) \/ SyncSave(r)
Revoke(r) == RevokeFind(r) \/ RevokeSave(r) \/ RevokeNFT(r)

Next ==
    \/ \E r \in Request : Sync(r) \/ Revoke(r)
    \/ \E m \in Mints : UpdateMetadata(m)
    \/ \E m \in Mints : RevokeAsset(m)
    \/ Crash

Spec == Init /\ [][Next]_vars

-----------------------------------------------------------------------------
(* Properties.                                                             *)

Quiet == InFlight = {} /\ row.exists

\* The diploma stays with the organization that issued it, although sync does
\* not ask whether the diploma it updates is its caller's.
OrganizationKept == [][row.exists => row'.exists /\ row'.org = row.org]_vars

\* A diploma becomes revoked only in a revoke request of its own organization,
\* whatever older copies of the row other requests save meanwhile.
RevokedByOwnOrganization ==
    [][row'.exists /\ row'.status = "revoked" /\ row # row'
         => \E r \in Request : step[r] = "saveRevoked" /\ caller[r] = row'.org]_vars

\* As long as requests come one after the other and none fails, however often
\* the diploma is synced and revoked, it is minted one NFT.
MintedOnceUndisturbed == ~disturbed => Len(nfts) <= 1

\* As long as requests come one after the other and none fails, the NFT of a
\* revoked diploma is revoked once its request is over, and never before the
\* diploma ever was.
RevocationReachesNFT ==
    ~disturbed /\ Quiet
      => /\ row.mint # NoMint
         /\ row.revokedAt <=> nfts[row.mint] = "revoked"

\* "6. Create the NFT on Solana (if it is not created yet)" (line 145): there
\* is one NFT of a diploma, also when requests overlap or fail.
MintedOnce == Len(nfts) <= 1

=============================================================================
