--------------------------- MODULE DiplomasProofs ---------------------------
(***************************************************************************)
(* Theorems about Diplomas, for any set of requests and organizations.     *)
(*                                                                         *)
(* CopiesSound holds in every interleaving: what a request has copied from *)
(* the row, however old, is of the row's organization.  SerialSound says   *)
(* where a request stands as long as requests come one after the other and *)
(* nothing fails: each step has its own relation between the row, the      *)
(* request's copy and the NFT.                                             *)
(***************************************************************************)
EXTENDS Diplomas, SequenceTheorems, TLAPS

Syncing(r)  == step[r] \in {"publish", "mint", "save"}
Revoking(r) == step[r] \in {"saveRevoked", "revokeNFT"}

MintKnown(copy) == copy.mint \in Mints \cup {NoMint}

CopySound(r) ==
    /\ local[r] \in Row
    /\ MintKnown(local[r])
    /\ Syncing(r) => local[r].status \in {"issued", "updated"}
    /\ Revoking(r) => local[r].status = "revoked" /\ local[r].org = caller[r]
    /\ step[r] = "revokeNFT" => local[r].mint # NoMint
    /\ local[r].status # "issued" => row.exists /\ local[r].org = row.org

CopiesSound ==
    /\ TypeOK
    /\ \A r \in Request : r \in InFlight => CopySound(r)

\* The row between requests: there is one NFT, the row knows it, and it is
\* revoked when the row is.
Settled ==
    /\ Len(nfts) = 1
    /\ row.mint = 1
    /\ row.revokedAt <=> nfts[1] = "revoked"

RowSettled == IF row.exists THEN Settled ELSE nfts = <<>>

Copied(r) == local[r].mint = 1 /\ local[r].revokedAt = row.revokedAt

Fresh(r) == ~row.exists /\ local[r].status = "issued" /\ ~local[r].revokedAt

SerialAt(r) ==
    /\ step[r] = "publish" =>
          RowSettled /\ IF row.exists THEN Copied(r) /\ local[r].status = "updated"
                                      ELSE Fresh(r) /\ local[r].mint = NoMint
    /\ step[r] = "mint" => Fresh(r) /\ local[r].mint = NoMint /\ nfts = <<>>
    /\ step[r] = "save" =>
          /\ Len(nfts) = 1 /\ local[r].mint = 1
          /\ local[r].revokedAt <=> nfts[1] = "revoked"
    /\ step[r] = "saveRevoked" =>
          row.exists /\ RowSettled /\ local[r].mint = 1 /\ local[r].revokedAt
    /\ step[r] = "revokeNFT" =>
          /\ row.exists /\ row.mint = 1 /\ row.revokedAt
          /\ Len(nfts) = 1 /\ local[r].mint = 1

SerialSound ==
    ~disturbed =>
       /\ \A r, q \in InFlight : r = q
       /\ InFlight = {} => RowSettled
       /\ \A r \in InFlight : SerialAt(r)

DiplomaInvariant == CopiesSound /\ SerialSound

-----------------------------------------------------------------------------
(* Every interleaving.                                                     *)

\* NFTs are added and their statuses changed, never removed.
LEMMA AssetsStay ==
    ASSUME CopiesSound, [Next]_vars
    PROVE  nfts' \in Seq(Status) /\ Len(nfts') >= Len(nfts)
<1>1. nfts \in Seq(Status)
  BY DEF CopiesSound, TypeOK
<1>2. ASSUME NEW m \in Mints, NEW status \in Status, nfts' = [nfts EXCEPT ![m] = status]
      PROVE  nfts' \in Seq(Status) /\ Len(nfts') >= Len(nfts)
  BY <1>1, <1>2, ExceptSeq DEF Mints
<1>3. ASSUME nfts' = Append(nfts, "issued")
      PROVE  nfts' \in Seq(Status) /\ Len(nfts') >= Len(nfts)
  BY <1>1, <1>3, AppendProperties DEF Status
<1>4. CASE UNCHANGED nfts
  BY <1>1, <1>4
<1>5. ASSUME NEW r \in Request, Sync(r)
      PROVE  UNCHANGED nfts \/ nfts' = Append(nfts, "issued")
  BY <1>5 DEF Sync, SyncFind, SyncPublish, SyncMint, SyncSave
<1>6. ASSUME NEW r \in Request, Revoke(r)
      PROVE  UNCHANGED nfts \/ \E m \in Mints : nfts' = [nfts EXCEPT ![m] = "revoked"]
  <2>1. CASE RevokeFind(r) \/ RevokeSave(r)
    BY <2>1 DEF RevokeFind, RevokeSave
  <2>2. CASE RevokeNFT(r)
    <3>1. local[r].mint \in Mints
      BY <2>2 DEF CopiesSound, CopySound, MintKnown, InFlight, RevokeNFT
    <3>. QED
      BY <2>2, <3>1 DEF RevokeNFT
  <2>. QED
    BY <1>6, <2>1, <2>2 DEF Revoke
<1>7. "revoked" \in Status /\ "updated" \in Status
  BY DEF Status
<1>8. ASSUME NEW m \in Mints, UpdateMetadata(m) \/ RevokeAsset(m)
      PROVE  nfts' = [nfts EXCEPT ![m] = "updated"] \/ nfts' = [nfts EXCEPT ![m] = "revoked"]
  BY <1>8 DEF UpdateMetadata, RevokeAsset, SetAssetStatus
<1>9. CASE Crash \/ UNCHANGED vars
  BY <1>4, <1>9 DEF Crash, vars
<1>. QED
  BY <1>2, <1>3, <1>4, <1>5, <1>6, <1>7, <1>8, <1>9 DEF Next

\* A step writes the row only by saving the copy of a request, which is of
\* the row's organization unless there was no row.
LEMMA RowWritten ==
    ASSUME CopiesSound, [Next]_vars
    PROVE  \/ UNCHANGED row
           \/ \E r \in Request :
                 /\ step[r] \in {"save", "saveRevoked"}
                 /\ row' = local[r]
                 /\ CopySound(r)
                 /\ row.exists => row'.org = row.org
<1>1. CASE \E r \in Request : SyncSave(r) \/ RevokeSave(r)
  <2>1. PICK r \in Request : SyncSave(r) \/ RevokeSave(r)
    BY <1>1
  <2>2. step[r] \in {"save", "saveRevoked"} /\ CopySound(r)
    BY <2>1 DEF SyncSave, RevokeSave, CopiesSound, InFlight
  <2>3. CASE row' = local[r] /\ (local[r].status = "issued" => ~row.exists)
    <3>1. row.exists => local[r].org = row.org
      BY <2>2, <2>3 DEF CopySound
    <3>. QED
      BY <2>2, <2>3, <3>1
  <2>4. UNCHANGED row \/ (row' = local[r] /\ (local[r].status = "issued" => ~row.exists))
    BY <2>1, <2>2 DEF SyncSave, RevokeSave, CopySound, Revoking
  <2>. QED
    BY <2>3, <2>4
<1>2. ASSUME NEW r \in Request,
             SyncFind(r) \/ SyncPublish(r) \/ SyncMint(r) \/ RevokeFind(r) \/ RevokeNFT(r)
      PROVE  UNCHANGED row
  BY <1>2 DEF SyncFind, SyncPublish, SyncMint, RevokeFind, RevokeNFT
<1>3. CASE (\E m \in Mints : UpdateMetadata(m) \/ RevokeAsset(m)) \/ Crash \/ UNCHANGED vars
  BY <1>3 DEF UpdateMetadata, RevokeAsset, SetAssetStatus, Crash, vars
<1>. QED
  BY <1>1, <1>2, <1>3 DEF Next, Sync, Revoke

LEMMA RowKept ==
    ASSUME CopiesSound, [Next]_vars
    PROVE  /\ row' \in Row \cup {NoRow}
           /\ row.exists => row'.exists /\ row'.org = row.org
           /\ row'.exists => row'.mint \in Mints' \cup {NoMint}
<1>1. Mints \subseteq Mints'
  <2>1. nfts \in Seq(Status) /\ nfts' \in Seq(Status) /\ Len(nfts') >= Len(nfts)
    BY AssetsStay DEF CopiesSound, TypeOK
  <2>. QED
    BY <2>1, LenProperties DEF Mints
<1>2. CASE UNCHANGED row
  BY <1>1, <1>2 DEF CopiesSound, TypeOK
<1>3. ASSUME NEW r \in Request, row' = local[r], CopySound(r), row.exists => row'.org = row.org
      PROVE  /\ row' \in Row \cup {NoRow}
             /\ row.exists => row'.exists /\ row'.org = row.org
             /\ row'.exists => row'.mint \in Mints' \cup {NoMint}
  <2>1. row' \in Row /\ row'.mint \in Mints \cup {NoMint}
    BY <1>3 DEF CopySound, MintKnown
  <2>2. row'.exists
    BY <2>1 DEF Row
  <2>. QED
    BY <1>1, <1>3, <2>1, <2>2
<1>. QED
  BY <1>2, <1>3, RowWritten

-----------------------------------------------------------------------------
\* Requests that a step leaves where they are keep their copies sound.
LEMMA OthersKept ==
    ASSUME CopiesSound, [Next]_vars, NEW r \in Request,
           caller' = caller, step'[r] = step[r], local'[r] = local[r], r \in InFlight'
    PROVE  CopySound(r)'
<1>1. r \in InFlight
  BY DEF InFlight
<1>2. CopySound(r)
  BY <1>1 DEF CopiesSound
<1>3. Mints \subseteq Mints'
  <2>1. nfts \in Seq(Status) /\ nfts' \in Seq(Status) /\ Len(nfts') >= Len(nfts)
    BY AssetsStay DEF CopiesSound, TypeOK
  <2>. QED
    BY <2>1, LenProperties DEF Mints
<1>4. row.exists => row'.exists /\ row'.org = row.org
  BY RowKept
<1>. QED
  BY <1>2, <1>3, <1>4 DEF CopySound, MintKnown, Syncing, Revoking

\* A step of one request: it is enough to look at the copy of that request.
LEMMA OneRequestMoves ==
    ASSUME CopiesSound, [Next]_vars, NEW r \in Request,
           caller' = caller, disturbed' \in BOOLEAN,
           NEW next \in {"idle", "publish", "mint", "save", "saveRevoked", "revokeNFT", "done"},
           step' = [step EXCEPT ![r] = next],
           NEW copy \in Row \cup {NoRow}, local' = [local EXCEPT ![r] = copy],
           next \notin {"idle", "done"} => CopySound(r)'
    PROVE  CopiesSound'
<1>1. TypeOK'
  BY AssetsStay, RowKept DEF CopiesSound, TypeOK
<1>2. ASSUME NEW q \in Request, q \in InFlight' PROVE CopySound(q)'
  <2>1. CASE q = r
    BY <1>2, <2>1 DEF InFlight, CopiesSound, TypeOK
  <2>2. CASE q # r
    <3>1. step'[q] = step[q] /\ local'[q] = local[q]
      BY <2>2 DEF CopiesSound, TypeOK
    <3>. QED
      BY <1>2, <3>1, OthersKept
  <2>. QED
    BY <2>1, <2>2
<1>. QED
  BY <1>1, <1>2 DEF CopiesSound

LEMMA SyncKeepsCopies ==
    ASSUME CopiesSound, [Next]_vars, NEW r \in Request, Sync(r)
    PROVE  CopiesSound'
<1>. USE DEF GoTo
<1>1. row \in Row \cup {NoRow} /\ caller \in [Request -> Org] /\ disturbed \in BOOLEAN
  BY DEF CopiesSound, TypeOK
<1>2. step \in [Request -> {"idle", "publish", "mint", "save", "saveRevoked",
                            "revokeNFT", "done"}]
      /\ local \in [Request -> Row \cup {NoRow}]
  BY DEF CopiesSound, TypeOK
<1>3. local' = [local EXCEPT ![r] = local[r]] <=> local' = local
  BY <1>2
<1>4. CASE SyncFind(r)
  <2>. DEFINE copy == IF row.exists
                      THEN [row EXCEPT !.status = "updated"]
                      ELSE [exists |-> TRUE, org |-> caller[r], status |-> "issued",
                            revokedAt |-> FALSE, mint |-> NoMint]
  <2>1. step' = [step EXCEPT ![r] = "publish"] /\ local' = [local EXCEPT ![r] = copy]
        /\ UNCHANGED <<row, nfts, caller>> /\ disturbed' \in BOOLEAN
    BY <1>1, <1>4 DEF SyncFind, Arrive
  <2>2. copy \in Row
    <3>1. CASE row.exists
      <4>1. row \in Row /\ copy = [row EXCEPT !.status = "updated"]
        BY <1>1, <3>1 DEF NoRow
      <4>. QED
        BY <4>1 DEF Row, Status
    <3>2. CASE ~row.exists
      <4>1. caller[r] \in Org /\ NoMint \in Nat /\ "issued" \in Status
        BY <1>1 DEF NoMint, Status
      <4>. QED
        BY <3>2, <4>1 DEF Row
    <3>. QED
      BY <3>1, <3>2
  <2>3. copy.mint \in Mints \cup {NoMint} /\ copy.status \in {"issued", "updated"}
    BY <1>1 DEF Row, NoRow, CopiesSound, TypeOK
  <2>4. copy.status # "issued" => row.exists /\ copy.org = row.org
    BY <1>1 DEF Row, NoRow
  <2> HIDE DEF copy
  <2>5. step'[r] = "publish" /\ local'[r] = copy
    BY <1>2, <2>1
  <2>6. CopySound(r)'
    BY <2>1, <2>2, <2>3, <2>4, <2>5 DEF CopySound, MintKnown, Mints, Syncing, Revoking
  <2>. QED
    BY <2>1, <2>2, <2>6, OneRequestMoves
<1>5. CASE SyncPublish(r)
  <2>1. PICK next \in {"mint", "save", "done"} : step' = [step EXCEPT ![r] = next]
    BY <1>5 DEF SyncPublish, AfterPublish, Throw
  <2>2. UNCHANGED <<row, nfts, caller, local>> /\ disturbed' \in BOOLEAN
    BY <1>1, <1>5 DEF SyncPublish, Throw
  <2>3. CopySound(r) /\ Syncing(r)
    BY <1>5 DEF SyncPublish, CopiesSound, InFlight, Syncing
  <2>4. next # "done" => CopySound(r)'
    BY <1>2, <2>1, <2>2, <2>3 DEF CopySound, MintKnown, Mints, Syncing, Revoking
  <2>. QED
    BY <1>2, <1>3, <2>1, <2>2, <2>4, OneRequestMoves
<1>6. CASE SyncMint(r)
  <2>1. step' = [step EXCEPT ![r] = "save"] /\ UNCHANGED <<row, caller>>
        /\ disturbed' \in BOOLEAN
    BY <1>1, <1>6 DEF SyncMint
  <2>2. CopySound(r) /\ local[r] \in Row /\ local[r].status \in {"issued", "updated"}
    BY <1>6 DEF SyncMint, CopiesSound, CopySound, InFlight, Syncing
  <2>3. nfts \in Seq(Status) /\ "issued" \in Status
    BY DEF CopiesSound, TypeOK, Status
  <2>4. CASE nfts' = Append(nfts, "issued") /\ local' = [local EXCEPT ![r].mint = Len(nfts) + 1]
    <3>. DEFINE copy == [local[r] EXCEPT !.mint = Len(nfts) + 1]
    <3>1. Len(nfts) \in Nat /\ Len(nfts') = Len(nfts) + 1
      BY <2>3, <2>4, LenProperties, AppendProperties
    <3>2. /\ copy \in Row /\ copy.mint \in Mints'
          /\ copy.status = local[r].status /\ copy.org = local[r].org
      <4>1. Len(nfts) + 1 \in Nat /\ Len(nfts) + 1 \in Mints'
        BY <3>1 DEF Mints
      <4>2. copy.mint = Len(nfts) + 1
        BY <2>2 DEF Row
      <4>3. copy \in Row
        BY <2>2, <4>1 DEF Row
      <4>4. copy.status = local[r].status /\ copy.org = local[r].org
        BY <2>2 DEF Row
      <4>. QED
        BY <4>1, <4>2, <4>3, <4>4
    <3>3. local' = [local EXCEPT ![r] = copy]
      BY <1>2, <2>4
    <3> HIDE DEF copy
    <3>4. step'[r] = "save" /\ local'[r] = copy
      BY <1>2, <2>1, <3>3
    <3>5. CopySound(r)'
      BY <2>1, <2>2, <3>2, <3>4 DEF CopySound, MintKnown, Syncing, Revoking
    <3>. QED
      BY <2>1, <3>2, <3>3, <3>5, OneRequestMoves
  <2>5. CASE UNCHANGED local
    <3>1. Len(nfts) \in Nat /\ Len(nfts') \in Nat /\ Len(nfts') >= Len(nfts)
      BY <2>3, AssetsStay, LenProperties
    <3>2. MintKnown(local[r])'
      BY <2>2, <2>5, <3>1 DEF CopySound, MintKnown, Mints
    <3>3. CopySound(r)'
      BY <1>2, <2>1, <2>2, <2>5, <3>2 DEF CopySound, Syncing, Revoking
    <3>. QED
      BY <1>2, <1>3, <2>1, <2>5, <3>3, OneRequestMoves
  <2>. QED
    BY <1>6, <2>4, <2>5 DEF SyncMint
<1>7. CASE SyncSave(r)
  <2>1. step' = [step EXCEPT ![r] = "done"] /\ UNCHANGED <<caller, local>>
        /\ disturbed' \in BOOLEAN
    BY <1>1, <1>7 DEF SyncSave, Throw
  <2>. QED
    BY <1>2, <1>3, <2>1, OneRequestMoves
<1>. QED
  BY <1>4, <1>5, <1>6, <1>7 DEF Sync

LEMMA RevokeKeepsCopies ==
    ASSUME CopiesSound, [Next]_vars, NEW r \in Request, Revoke(r)
    PROVE  CopiesSound'
<1>. USE DEF GoTo
<1>1. row \in Row \cup {NoRow} /\ caller \in [Request -> Org] /\ disturbed \in BOOLEAN
  BY DEF CopiesSound, TypeOK
<1>2. step \in [Request -> {"idle", "publish", "mint", "save", "saveRevoked",
                            "revokeNFT", "done"}]
      /\ local \in [Request -> Row \cup {NoRow}]
  BY DEF CopiesSound, TypeOK
<1>3. local' = [local EXCEPT ![r] = local[r]] <=> local' = local
  BY <1>2
<1>4. CASE RevokeFind(r)
  <2>. DEFINE copy == [row EXCEPT !.status = "revoked", !.revokedAt = TRUE]
  <2>1. UNCHANGED <<row, nfts, caller>> /\ disturbed' \in BOOLEAN
    BY <1>1, <1>4 DEF RevokeFind, Arrive
  <2>2. CASE row.exists /\ row.org = caller[r] /\ step' = [step EXCEPT ![r] = "saveRevoked"]
             /\ local' = [local EXCEPT ![r] = copy]
    <3>1. row \in Row
      BY <1>1, <2>2 DEF NoRow
    <3>2. copy \in Row /\ copy.mint = row.mint /\ copy.status = "revoked"
          /\ copy.org = row.org
      BY <3>1 DEF Row, Status
    <3>3. copy.mint \in Mints \cup {NoMint}
      BY <2>2, <3>2 DEF CopiesSound, TypeOK
    <3> HIDE DEF copy
    <3>4. step'[r] = "saveRevoked" /\ local'[r] = copy
      BY <1>2, <2>2
    <3>5. CopySound(r)'
      BY <2>1, <2>2, <3>2, <3>3, <3>4 DEF CopySound, MintKnown, Mints, Syncing, Revoking
    <3>. QED
      BY <2>1, <2>2, <3>2, <3>5, OneRequestMoves
  <2>3. CASE step' = [step EXCEPT ![r] = "done"] /\ UNCHANGED local
    BY <1>2, <1>3, <2>1, <2>3, OneRequestMoves
  <2>. QED
    BY <1>4, <2>2, <2>3 DEF RevokeFind, Arrive
<1>5. CASE RevokeSave(r)
  <2>1. CopySound(r) /\ step[r] = "saveRevoked"
    BY <1>5 DEF RevokeSave, CopiesSound, InFlight
  <2>2. UNCHANGED <<nfts, caller, local>> /\ disturbed' \in BOOLEAN
    BY <1>1, <1>5 DEF RevokeSave, Throw
  <2>3. CASE step' = [step EXCEPT ![r] = "revokeNFT"] /\ row' = local[r]
             /\ local[r].mint # NoMint
    <3>1. row'.exists /\ row'.org = local[r].org
      BY <2>1, <2>3 DEF CopySound, Row
    <3>2. step'[r] = "revokeNFT" /\ local'[r] = local[r]
      BY <1>2, <2>2, <2>3
    <3>3. CopySound(r)'
      BY <2>1, <2>2, <2>3, <3>1, <3>2 DEF CopySound, MintKnown, Mints, Syncing, Revoking
    <3>. QED
      BY <1>2, <1>3, <2>2, <2>3, <3>3, OneRequestMoves
  <2>4. CASE step' = [step EXCEPT ![r] = "done"]
    BY <1>2, <1>3, <2>2, <2>4, OneRequestMoves
  <2>. QED
    BY <1>5, <2>3, <2>4 DEF RevokeSave, Throw
<1>6. CASE RevokeNFT(r)
  <2>1. step' = [step EXCEPT ![r] = "done"] /\ UNCHANGED <<caller, local>>
        /\ disturbed' \in BOOLEAN
    BY <1>1, <1>6 DEF RevokeNFT
  <2>. QED
    BY <1>2, <1>3, <2>1, OneRequestMoves
<1>. QED
  BY <1>4, <1>5, <1>6 DEF Revoke

LEMMA RestKeepsCopies ==
    ASSUME CopiesSound, [Next]_vars,
           (\E m \in Mints : UpdateMetadata(m) \/ RevokeAsset(m)) \/ Crash \/ UNCHANGED vars
    PROVE  CopiesSound'
<1>1. UNCHANGED <<row, caller, local>> /\ disturbed' \in BOOLEAN
  BY DEF UpdateMetadata, RevokeAsset, SetAssetStatus, Crash, vars, CopiesSound, TypeOK
<1>2. /\ step' \in [Request -> {"idle", "publish", "mint", "save", "saveRevoked",
                                "revokeNFT", "done"}]
      /\ \A r \in Request : r \in InFlight' => step'[r] = step[r]
  <2>1. CASE UNCHANGED step
    BY <2>1 DEF CopiesSound, TypeOK
  <2>2. CASE Crash
    BY <2>2 DEF CopiesSound, TypeOK, Crash, InFlight
  <2>. QED
    BY <2>1, <2>2 DEF UpdateMetadata, RevokeAsset, SetAssetStatus, vars
<1>3. TypeOK'
  BY <1>1, <1>2, AssetsStay, RowKept DEF CopiesSound, TypeOK
<1>4. \A r \in Request : r \in InFlight' => CopySound(r)'
  BY <1>1, <1>2, OthersKept
<1>. QED
  BY <1>3, <1>4 DEF CopiesSound

LEMMA CopiesStaySound ==
    ASSUME CopiesSound, [Next]_vars PROVE CopiesSound'
BY SyncKeepsCopies, RevokeKeepsCopies, RestKeepsCopies DEF Next

-----------------------------------------------------------------------------
(* Requests one after the other, none of which fails.                      *)

\* A step of the only request there is.
LEMMA OnlyRequestMoves ==
    ASSUME CopiesSound, NEW r \in Request, InFlight \subseteq {r},
           NEW next, step' = [step EXCEPT ![r] = next],
           next \in {"idle", "done"} => RowSettled',
           next \notin {"idle", "done"} => SerialAt(r)'
    PROVE  SerialSound'
<1>1. step \in [Request -> {"idle", "publish", "mint", "save", "saveRevoked",
                            "revokeNFT", "done"}]
  BY DEF CopiesSound, TypeOK
<1>2. InFlight' = IF next \in {"idle", "done"} THEN {} ELSE {r}
  <2>1. \A q \in Request : q # r => step'[q] = step[q] /\ q \notin InFlight
    BY <1>1
  <2>2. step'[r] = next
    BY <1>1
  <2>. QED
    BY <2>1, <2>2 DEF InFlight
<1>. QED
  BY <1>2 DEF SerialSound

\* A request that has arrived undisturbed, or moves on, is the only one.
LEMMA Alone ==
    ASSUME SerialSound, ~disturbed, NEW r \in Request,
           InFlight = {} \/ step[r] \notin {"idle", "done"}
    PROVE  /\ InFlight \subseteq {r}
           /\ InFlight = {} => RowSettled
           /\ step[r] \notin {"idle", "done"} => SerialAt(r)
BY DEF SerialSound, InFlight

LEMMA SyncKeepsSerial ==
    ASSUME DiplomaInvariant, NEW r \in Request, Sync(r), ~disturbed' PROVE SerialSound'
<1>. USE DEF DiplomaInvariant, GoTo
<1>1. local \in [Request -> Row \cup {NoRow}] /\ row \in Row \cup {NoRow}
      /\ nfts \in Seq(Status) /\ disturbed \in BOOLEAN
      /\ step \in [Request -> {"idle", "publish", "mint", "save", "saveRevoked",
                               "revokeNFT", "done"}]
  BY DEF CopiesSound, TypeOK
<1>2. CASE SyncFind(r)
  <2>1. ~disturbed /\ InFlight = {} /\ RowSettled
    BY <1>1, <1>2, Alone DEF SyncFind, Arrive
  <2>2. step' = [step EXCEPT ![r] = "publish"] /\ UNCHANGED <<row, nfts>>
        /\ step'[r] = "publish"
    BY <1>1, <1>2 DEF SyncFind, Arrive
  <2>3. CASE row.exists
    <3>1. row \in Row
      BY <1>1, <2>3 DEF NoRow
    <3>2. local'[r] = [row EXCEPT !.status = "updated"]
      BY <1>1, <1>2, <2>3 DEF SyncFind
    <3>3. /\ local'[r].mint = row.mint /\ local'[r].revokedAt = row.revokedAt
          /\ local'[r].status = "updated"
      BY <3>1, <3>2 DEF Row
    <3>4. Copied(r)'
      BY <2>1, <2>2, <2>3, <3>3 DEF Copied, RowSettled, Settled
    <3>5. SerialAt(r)'
      BY <2>1, <2>2, <2>3, <3>3, <3>4 DEF SerialAt, RowSettled, Settled
    <3>. QED
      BY <2>1, <2>2, <3>5, OnlyRequestMoves
  <2>4. CASE ~row.exists
    <3>1. local'[r] = [exists |-> TRUE, org |-> caller[r], status |-> "issued",
                       revokedAt |-> FALSE, mint |-> NoMint]
      BY <1>1, <1>2, <2>4 DEF SyncFind
    <3>2. Fresh(r)' /\ local'[r].mint = NoMint
      BY <2>2, <2>4, <3>1 DEF Fresh
    <3>3. SerialAt(r)'
      BY <2>1, <2>2, <2>4, <3>2 DEF SerialAt, RowSettled, NoMint
    <3>. QED
      BY <2>1, <2>2, <3>3, OnlyRequestMoves
  <2>. QED
    BY <2>3, <2>4
<1>3. CASE SyncPublish(r)
  <2>1. step[r] = "publish" /\ ~disturbed /\ UNCHANGED <<row, nfts, local>>
        /\ step' = [step EXCEPT ![r] = AfterPublish(r)] /\ step'[r] = AfterPublish(r)
    BY <1>1, <1>3 DEF SyncPublish, Throw
  <2>2. InFlight \subseteq {r} /\ SerialAt(r)
    BY <2>1, Alone
  <2>3. CASE row.exists
    <3>1. Settled /\ Copied(r) /\ AfterPublish(r) = "save"
      BY <2>1, <2>2, <2>3 DEF SerialAt, RowSettled, Copied, AfterPublish, NoMint
    <3>2. SerialAt(r)'
      BY <2>1, <3>1 DEF SerialAt, Settled, Copied
    <3>. QED
      BY <2>1, <2>2, <3>1, <3>2, OnlyRequestMoves
  <2>4. CASE ~row.exists
    <3>1. nfts = <<>> /\ Fresh(r) /\ local[r].mint = NoMint /\ AfterPublish(r) = "mint"
      BY <2>1, <2>2, <2>4 DEF SerialAt, RowSettled, AfterPublish
    <3>2. SerialAt(r)'
      BY <2>1, <3>1 DEF SerialAt, Fresh, NoMint
    <3>. QED
      BY <2>1, <2>2, <3>1, <3>2, OnlyRequestMoves
  <2>. QED
    BY <2>3, <2>4
<1>4. CASE SyncMint(r)
  <2>1. step[r] = "mint" /\ ~disturbed /\ nfts' = Append(nfts, "issued")
        /\ local' = [local EXCEPT ![r].mint = Len(nfts) + 1]
        /\ step' = [step EXCEPT ![r] = "save"] /\ step'[r] = "save"
    BY <1>1, <1>4 DEF SyncMint
  <2>2. InFlight \subseteq {r} /\ SerialAt(r)
    BY <2>1, Alone
  <2>3. nfts = <<>> /\ Fresh(r) /\ local[r] \in Row
    <3>1. r \in InFlight
      BY <2>1 DEF InFlight
    <3>. QED
      BY <2>1, <2>2, <3>1 DEF SerialAt, CopiesSound, CopySound
  <2>4. Len(nfts) = 0 /\ Len(nfts') = 1 /\ nfts'[1] = "issued"
    <3>1. "issued" \in Status /\ Len(nfts) = 0
      BY <2>3, EmptySeq DEF Status
    <3>2. Len(nfts') = Len(nfts) + 1 /\ nfts'[Len(nfts) + 1] = "issued"
      BY <1>1, <2>1, <3>1, AppendProperties
    <3>. QED
      BY <3>1, <3>2
  <2>5. local'[r].mint = 1 /\ local'[r].revokedAt = local[r].revokedAt
    BY <1>1, <2>1, <2>3, <2>4 DEF Row
  <2>6. SerialAt(r)'
    BY <2>1, <2>3, <2>4, <2>5 DEF SerialAt, Fresh
  <2>. QED
    BY <2>1, <2>2, <2>6, OnlyRequestMoves
<1>5. CASE SyncSave(r)
  <2>1. step[r] = "save" /\ ~disturbed /\ row' = local[r] /\ UNCHANGED nfts
        /\ step' = [step EXCEPT ![r] = "done"]
    BY <1>1, <1>5 DEF SyncSave, Throw
  <2>2. InFlight \subseteq {r} /\ SerialAt(r)
    BY <2>1, Alone
  <2>3. local[r] \in Row
    <3>1. r \in InFlight
      BY <2>1 DEF InFlight
    <3>. QED
      BY <3>1 DEF CopiesSound, CopySound
  <2>4. row'.exists
    BY <2>1, <2>3 DEF Row
  <2>5. RowSettled'
    BY <2>1, <2>2, <2>4 DEF SerialAt, RowSettled, Settled
  <2>. QED
    BY <2>1, <2>2, <2>5, OnlyRequestMoves
<1>. QED
  BY <1>2, <1>3, <1>4, <1>5 DEF Sync

LEMMA RevokeKeepsSerial ==
    ASSUME DiplomaInvariant, NEW r \in Request, Revoke(r), ~disturbed' PROVE SerialSound'
<1>. USE DEF DiplomaInvariant, GoTo
<1>1. local \in [Request -> Row \cup {NoRow}] /\ row \in Row \cup {NoRow}
      /\ nfts \in Seq(Status) /\ disturbed \in BOOLEAN
      /\ step \in [Request -> {"idle", "publish", "mint", "save", "saveRevoked",
                               "revokeNFT", "done"}]
  BY DEF CopiesSound, TypeOK
<1>2. CASE RevokeFind(r)
  <2>1. ~disturbed /\ InFlight = {} /\ RowSettled /\ UNCHANGED <<row, nfts>>
    BY <1>1, <1>2, Alone DEF RevokeFind, Arrive
  <2>2. CASE row.exists /\ step' = [step EXCEPT ![r] = "saveRevoked"]
             /\ local' = [local EXCEPT ![r] = [row EXCEPT !.status = "revoked",
                                                          !.revokedAt = TRUE]]
    <3>1. row \in Row
      BY <1>1, <2>2 DEF NoRow
    <3>2. local'[r].mint = row.mint /\ local'[r].revokedAt /\ step'[r] = "saveRevoked"
      BY <1>1, <2>2, <3>1 DEF Row
    <3>3. SerialAt(r)'
      BY <2>1, <2>2, <3>2 DEF SerialAt, RowSettled, Settled
    <3>. QED
      BY <2>1, <2>2, <3>3, OnlyRequestMoves
  <2>3. CASE step' = [step EXCEPT ![r] = "done"]
    <3>1. RowSettled'
      BY <2>1 DEF RowSettled, Settled
    <3>. QED
      BY <2>1, <2>3, <3>1, OnlyRequestMoves
  <2>. QED
    BY <1>2, <2>2, <2>3 DEF RevokeFind, Arrive
<1>3. CASE RevokeSave(r)
  <2>1. step[r] = "saveRevoked" /\ ~disturbed /\ row' = local[r] /\ UNCHANGED <<nfts, local>>
    BY <1>1, <1>3 DEF RevokeSave, Throw
  <2>2. InFlight \subseteq {r} /\ SerialAt(r) /\ local[r].mint = 1
    BY <2>1, Alone DEF SerialAt
  <2>3. step' = [step EXCEPT ![r] = "revokeNFT"] /\ step'[r] = "revokeNFT"
    BY <1>1, <1>3, <2>2 DEF RevokeSave, Throw, NoMint
  <2>4. local[r] \in Row /\ row'.exists
    <3>1. r \in InFlight
      BY <2>1 DEF InFlight
    <3>2. local[r] \in Row
      BY <3>1 DEF CopiesSound, CopySound
    <3>. QED
      BY <2>1, <3>2 DEF Row
  <2>5. Len(nfts) = 1
    BY <2>1, <2>2 DEF SerialAt, RowSettled, Settled
  <2>6. SerialAt(r)'
    BY <2>1, <2>2, <2>3, <2>4, <2>5 DEF SerialAt
  <2>. QED
    BY <2>2, <2>3, <2>6, OnlyRequestMoves
<1>4. CASE RevokeNFT(r)
  <2>1. step[r] = "revokeNFT" /\ ~disturbed /\ UNCHANGED row
        /\ nfts' = [nfts EXCEPT ![local[r].mint] = "revoked"]
        /\ step' = [step EXCEPT ![r] = "done"]
    BY <1>1, <1>4 DEF RevokeNFT
  <2>2. InFlight \subseteq {r} /\ SerialAt(r)
    BY <2>1, Alone
  <2>3. row.exists /\ row.mint = 1 /\ row.revokedAt /\ Len(nfts) = 1 /\ local[r].mint = 1
    BY <2>1, <2>2 DEF SerialAt
  <2>4. Len(nfts') = 1 /\ nfts'[1] = "revoked"
    <3>1. "revoked" \in Status /\ 1 \in 1..Len(nfts) /\ nfts' = [nfts EXCEPT ![1] = "revoked"]
      BY <2>1, <2>3 DEF Status
    <3>. QED
      BY <1>1, <2>3, <3>1, ExceptSeq
  <2>5. RowSettled'
    BY <2>1, <2>3, <2>4 DEF RowSettled, Settled
  <2>. QED
    BY <2>1, <2>2, <2>5, OnlyRequestMoves
<1>. QED
  BY <1>2, <1>3, <1>4 DEF Revoke

-----------------------------------------------------------------------------
(* The invariant.                                                          *)

LEMMA InitEstablishes == Init => DiplomaInvariant
<1>. SUFFICES ASSUME Init PROVE DiplomaInvariant
  OBVIOUS
<1>1. InFlight = {}
  BY DEF Init, InFlight
<1>2. nfts \in Seq(Status) /\ ~row.exists
  BY EmptySeq DEF Init, NoRow
<1>3. TypeOK
  BY <1>2 DEF Init, TypeOK
<1>. QED
  BY <1>1, <1>2, <1>3 DEF DiplomaInvariant, CopiesSound, SerialSound, RowSettled, Init

LEMMA StepPreserves ==
    ASSUME DiplomaInvariant, [Next]_vars PROVE DiplomaInvariant'
<1>1. CopiesSound'
  BY CopiesStaySound DEF DiplomaInvariant
<1>2. SerialSound'
  <2>1. CASE disturbed'
    BY <2>1 DEF SerialSound
  <2>2. CASE ~disturbed' /\ Next
    <3>1. ~((\E m \in Mints : UpdateMetadata(m) \/ RevokeAsset(m)) \/ Crash)
      BY <2>2 DEF UpdateMetadata, RevokeAsset, SetAssetStatus, Crash
    <3>. QED
      BY <2>2, <3>1, SyncKeepsSerial, RevokeKeepsSerial DEF Next
  <2>3. CASE UNCHANGED vars
    BY <2>3 DEF vars, DiplomaInvariant, SerialSound, SerialAt, RowSettled, Settled, Copied,
       Fresh, InFlight
  <2>. QED
    BY <2>1, <2>2, <2>3
<1>. QED
  BY <1>1, <1>2 DEF DiplomaInvariant

\* The inductive invariant holds in every reachable state.
THEOREM InvariantHolds == Spec => []DiplomaInvariant
BY InitEstablishes, StepPreserves, PTL DEF Spec

\* Every variable keeps its type; in particular the row never names an NFT
\* that was not minted.
THEOREM TypeCorrect == Spec => []TypeOK
<1>1. DiplomaInvariant => TypeOK
  BY DEF DiplomaInvariant, CopiesSound
<1>. QED
  BY <1>1, InvariantHolds, PTL

\* However often a diploma is synced and revoked, it is minted one NFT, as
\* long as requests come one after the other and none fails.
THEOREM MintedOnceSerially == Spec => []MintedOnceUndisturbed
<1>1. DiplomaInvariant => MintedOnceUndisturbed
  <2>. SUFFICES ASSUME DiplomaInvariant, ~disturbed PROVE Len(nfts) = 1 \/ nfts = <<>>
    <3>1. Len(<<>>) = 0 /\ 0 <= 1 /\ 1 <= 1
      BY EmptySeq
    <3>2. Len(nfts) = 1 \/ nfts = <<>> => Len(nfts) <= 1
      BY <3>1
    <3>. QED
      BY <3>2, Zenon DEF MintedOnceUndisturbed
  <2>1. CASE InFlight = {}
    <3>1. RowSettled
      BY <2>1 DEF DiplomaInvariant, SerialSound
    <3>. QED
      BY <3>1 DEF RowSettled, Settled
  <2>2. CASE InFlight # {}
    <3>1. PICK r \in Request : step[r] \notin {"idle", "done"} /\ SerialAt(r)
      BY <2>2 DEF DiplomaInvariant, SerialSound, InFlight
    <3>2. step[r] \in {"publish", "mint", "save", "saveRevoked", "revokeNFT"}
      BY <3>1 DEF DiplomaInvariant, CopiesSound, TypeOK
    <3>. QED
      BY <3>1, <3>2 DEF SerialAt, RowSettled, Settled
  <2>. QED
    BY <2>1, <2>2
<1>. QED
  BY <1>1, InvariantHolds, PTL

\* Between requests that come one after the other and do not fail, the NFT is
\* revoked exactly when the diploma was.
THEOREM RevocationsReach == Spec => []RevocationReachesNFT
<1>1. DiplomaInvariant => RevocationReachesNFT
  <2>. SUFFICES ASSUME DiplomaInvariant, ~disturbed, Quiet
                PROVE  row.mint # NoMint /\ (row.revokedAt <=> nfts[row.mint] = "revoked")
    BY DEF RevocationReachesNFT
  <2>1. Settled
    BY DEF DiplomaInvariant, SerialSound, RowSettled, Quiet
  <2>. QED
    BY <2>1 DEF Settled, NoMint
<1>. QED
  BY <1>1, InvariantHolds, PTL

\* In every interleaving the diploma stays with its organization.
THEOREM OrganizationStays == Spec => OrganizationKept
<1>1. DiplomaInvariant /\ [Next]_vars => [row.exists => row'.exists /\ row'.org = row.org]_vars
  BY RowKept DEF DiplomaInvariant
<1>. QED
  BY <1>1, InvariantHolds, PTL DEF Spec, OrganizationKept

\* In every interleaving the diploma becomes revoked only by a request of its
\* own organization.
THEOREM RevokedOnlyByOwn == Spec => RevokedByOwnOrganization
<1>1. ASSUME DiplomaInvariant, [Next]_vars, row'.exists, row'.status = "revoked", row # row'
      PROVE  \E r \in Request : step[r] = "saveRevoked" /\ caller[r] = row'.org
  <2>1. PICK r \in Request : step[r] \in {"save", "saveRevoked"} /\ row' = local[r]
                             /\ CopySound(r)
    BY <1>1, RowWritten DEF DiplomaInvariant
  <2>2. step[r] = "saveRevoked" /\ caller[r] = row'.org
    BY <1>1, <2>1 DEF CopySound, Syncing, Revoking
  <2>. QED
    BY <2>2
<1>2. DiplomaInvariant /\ [Next]_vars
        => [row'.exists /\ row'.status = "revoked" /\ row # row'
              => \E r \in Request : step[r] = "saveRevoked" /\ caller[r] = row'.org]_vars
  BY <1>1
<1>. QED
  BY <1>2, InvariantHolds, PTL DEF Spec, RevokedByOwnOrganization

=============================================================================
