--------------------------- MODULE LifetimeProofs ---------------------------
(***************************************************************************)
(* Proofs about what outlives the request that began it: uploaded files,    *)
(* OAuth sessions, and plans that are previewed, applied and undone. Each   *)
(* section is about one specification, for all values of its constants;     *)
(* they share no variable.                                                  *)
(***************************************************************************)
EXTENDS Attachments, OAuthSessions, PlanBatches, TLAPS

-----------------------------------------------------------------------------
(* Attachments, for any files, rows and cleanup workers.                     *)
(*                                                                           *)
(* The argument: an attachment id is settled once its upload request can     *)
(* neither store bytes nor activate it any more.  Everything that removes    *)
(* an object or a registry row works on settled ids only, the upload's own   *)
(* cleanup included; that is what the grace window buys for the worker.      *)

Settled(f) == up[f] \notin {"idle", "put", "activate"}

UploadInv ==
    \A f \in Files :
      /\ up[f] = "idle" => reg[f] = "none"
      /\ up[f] # "idle" => owner[f] \in TableRows
      /\ up[f] \in {"put", "activate"} => reg[f] = "upload_pending"
      /\ up[f] = "activate" => f \in obj
      /\ up[f] = "drop" => f \notin obj

RemovalInv ==
    /\ \A f \in Files :
         /\ f \in old => Settled(f) /\ ~Running(f)
         /\ reg[f] \in PendingStatus \cup {"active"} => Settled(f)
         /\ del[f] # "idle" => Settled(f)
         /\ del[f] = "drop" => f \notin obj
    /\ \A w \in Workers :
         /\ \A f \in fetched[w] : Settled(f)
         /\ wpc[w] = "drop" =>
              cur[w] \in Files /\ Settled(cur[w]) /\ cur[w] \notin obj

SafeInv == TypeOKAttachments /\ NoForgottenObject /\ UploadInv /\ RemovalInv

(* With no row ever deleted, an active id is in nobody's hands. *)
ActiveInv ==
    /\ \A r \in TableRows : row[r] = "live"
    /\ \A f \in Files : reg[f] = "active" =>
         f \in obj /\ up[f] \in {"refresh", "done", "dead"} /\ del[f] = "idle"
    /\ \A w \in Workers :
         /\ \A f \in fetched[w] : reg[f] # "active"
         /\ wpc[w] = "drop" => reg[cur[w]] # "active"

CellInv ==
    /\ \A r \in TableRows : cell[r] \subseteq Active(r)
    /\ CellsMatchRegistry

LiveInv == SafeInv /\ ActiveInv /\ CellInv

-----------------------------------------------------------------------------
(* Type correctness *)

LEMMA AttachmentTypesInit == InitAttachments => TypeOKAttachments
BY ConstantsOK DEF InitAttachments, TypeOKAttachments, RegistryStatus, PendingStatus, UpState

LEMMA TypeStep ==
  ASSUME TypeOKAttachments, [NextAttachments]_varsAttachments
  PROVE  TypeOKAttachments'
<1> USE DEF TypeOKAttachments, RegistryStatus, PendingStatus, UpState, PURGE_PENDING, table, request, worker
<1>1. ASSUME NEW f \in Files, NEW r \in TableRows, CommitIntent(f, r)
      PROVE  TypeOKAttachments'
  BY <1>1 DEF CommitIntent
<1>2. ASSUME NEW f \in Files, PutFile(f)
      PROVE  TypeOKAttachments'
  BY <1>2 DEF PutFile
<1>3. ASSUME NEW f \in Files, Activate(f)
      PROVE  TypeOKAttachments'
  BY <1>3 DEF Activate
<1>4. ASSUME NEW f \in Files, Refresh(f)
      PROVE  TypeOKAttachments'
  BY <1>4 DEF Refresh
<1>5. ASSUME NEW f \in Files, RemoveFailed(f)
      PROVE  TypeOKAttachments'
  BY <1>5 DEF RemoveFailed
<1>6. ASSUME NEW f \in Files, DropFailed(f)
      PROVE  TypeOKAttachments'
  BY <1>6 DEF DropFailed
<1>7. ASSUME NEW f \in Files, UploadDies(f)
      PROVE  TypeOKAttachments'
  BY <1>7 DEF UploadDies
<1>8. ASSUME NEW f \in Files, GraceEnds(f)
      PROVE  TypeOKAttachments'
  BY <1>8 DEF GraceEnds
<1>9. ASSUME NEW f \in Files, CommitDelete(f)
      PROVE  TypeOKAttachments'
  BY <1>9 DEF CommitDelete
<1>10. ASSUME NEW f \in Files, RemoveDeleted(f)
      PROVE  TypeOKAttachments'
  BY <1>10 DEF RemoveDeleted
<1>11. ASSUME NEW f \in Files, DropDeleted(f)
      PROVE  TypeOKAttachments'
  BY <1>11 DEF DropDeleted
<1>12. ASSUME NEW r \in TableRows, NEW value \in SUBSET Files, WriteCell(r, value)
      PROVE  TypeOKAttachments'
  BY <1>12 DEF WriteCell
<1>13. ASSUME NEW r \in TableRows, DeleteTableRow(r)
      PROVE  TypeOKAttachments'
  BY <1>13 DEF DeleteTableRow
<1>14. ASSUME NEW r \in TableRows, RestoreTableRow(r)
      PROVE  TypeOKAttachments'
  BY <1>14 DEF RestoreTableRow
<1>15. ASSUME NEW r \in TableRows, PurgeRow(r)
      PROVE  TypeOKAttachments'
  BY <1>15 DEF PurgeRow
<1>16. ASSUME DropField
      PROVE  TypeOKAttachments'
  BY <1>16 DEF DropField
<1>17. ASSUME NEW w \in Workers, Reconcile(w)
      PROVE  TypeOKAttachments'
  BY <1>17 DEF Reconcile
<1>18. ASSUME NEW w \in Workers, SelectBatch(w)
      PROVE  TypeOKAttachments'
  BY <1>18 DEF SelectBatch
<1>19. ASSUME NEW w \in Workers, NEW f \in Files, RemoveObject(w, f)
      PROVE  TypeOKAttachments'
  BY <1>19 DEF RemoveObject
<1>20. ASSUME NEW w \in Workers, NEW f \in Files, RemoveObjectFails(w, f)
      PROVE  TypeOKAttachments'
  BY <1>20 DEF RemoveObjectFails
<1>21. ASSUME NEW w \in Workers, DropRow(w)
      PROVE  TypeOKAttachments'
  BY <1>21 DEF DropRow
<1>22. ASSUME NEW w \in Workers, EndPass(w)
      PROVE  TypeOKAttachments'
  BY <1>22 DEF EndPass
<1>23. ASSUME NEW w \in Workers, WorkerDies(w)
      PROVE  TypeOKAttachments'
  BY <1>23, ConstantsOK DEF WorkerDies
<1>24. CASE UNCHANGED varsAttachments
  BY <1>24 DEF varsAttachments
<1> QED
  BY <1>1, <1>2, <1>3, <1>4, <1>5, <1>6, <1>7, <1>8, <1>9, <1>10, <1>11, <1>12, <1>13, <1>14, <1>15, <1>16, <1>17, <1>18, <1>19, <1>20, <1>21, <1>22, <1>23, <1>24
     DEF NextAttachments, FileStep, UploadStep, RowStep, WorkerStep, WorkerPass

(* Every variable keeps its type, whatever the files, rows and workers, and  *)
(* however long uploads take.                                                *)
THEOREM AttachmentTypes == SpecAttachments => []TypeOKAttachments
<1>1. InitAttachments => TypeOKAttachments
  BY AttachmentTypesInit
<1>2. TypeOKAttachments /\ [NextAttachments]_varsAttachments => TypeOKAttachments'
  BY TypeStep
<1> QED
  BY <1>1, <1>2, PTL DEF SpecAttachments

-----------------------------------------------------------------------------
(* Objects and registry rows *)

LEMMA SafeInit == InitAttachments => SafeInv
BY AttachmentTypesInit DEF InitAttachments, SafeInv, NoForgottenObject, UploadInv, RemovalInv, Settled,
   PendingStatus, Running

LEMMA SafeStep ==
  ASSUME ~SlowUploads, SafeInv, [NextAttachments]_varsAttachments
  PROVE  SafeInv'
<1> SUFFICES NoForgottenObject' /\ UploadInv' /\ RemovalInv'
  BY TypeStep DEF SafeInv
<1> USE DEF SafeInv, TypeOKAttachments, NoForgottenObject, UploadInv, RemovalInv, Settled,
            Running, table, request, worker
<1>1. ASSUME NEW f \in Files, NEW r \in TableRows, CommitIntent(f, r)
      PROVE  NoForgottenObject' /\ UploadInv' /\ RemovalInv'
  BY <1>1, ConstantsOK DEF CommitIntent, PendingStatus
<1>2. ASSUME NEW f \in Files, PutFile(f)
      PROVE  NoForgottenObject' /\ UploadInv' /\ RemovalInv'
  BY <1>2, ConstantsOK DEF PutFile, PendingStatus
<1>3. ASSUME NEW f \in Files, Activate(f)
      PROVE  NoForgottenObject' /\ UploadInv' /\ RemovalInv'
  BY <1>3, ConstantsOK DEF Activate, CanActivate, PendingStatus
<1>4. ASSUME NEW f \in Files, Refresh(f)
      PROVE  NoForgottenObject' /\ UploadInv' /\ RemovalInv'
  BY <1>4, ConstantsOK DEF Refresh, PendingStatus
<1>5. ASSUME NEW f \in Files, RemoveFailed(f)
      PROVE  NoForgottenObject' /\ UploadInv' /\ RemovalInv'
  BY <1>5, ConstantsOK DEF RemoveFailed, PendingStatus
<1>6. ASSUME NEW f \in Files, DropFailed(f)
      PROVE  NoForgottenObject' /\ UploadInv' /\ RemovalInv'
  BY <1>6, ConstantsOK DEF DropFailed, PendingStatus
<1>7. ASSUME NEW f \in Files, UploadDies(f)
      PROVE  NoForgottenObject' /\ UploadInv' /\ RemovalInv'
  BY <1>7, ConstantsOK DEF UploadDies, PendingStatus
<1>8. ASSUME NEW f \in Files, GraceEnds(f)
      PROVE  NoForgottenObject' /\ UploadInv' /\ RemovalInv'
  BY <1>8, ConstantsOK DEF GraceEnds, PendingStatus, RegistryStatus
<1>9. ASSUME NEW f \in Files, CommitDelete(f)
      PROVE  NoForgottenObject' /\ UploadInv' /\ RemovalInv'
  BY <1>9, ConstantsOK DEF CommitDelete, Locked, PendingStatus
<1>10. ASSUME NEW f \in Files, RemoveDeleted(f)
      PROVE  NoForgottenObject' /\ UploadInv' /\ RemovalInv'
  BY <1>10, ConstantsOK DEF RemoveDeleted, PendingStatus
<1>11. ASSUME NEW f \in Files, DropDeleted(f)
      PROVE  NoForgottenObject' /\ UploadInv' /\ RemovalInv'
  BY <1>11, ConstantsOK DEF DropDeleted, Locked, PendingStatus
<1>12. ASSUME NEW r \in TableRows, NEW value \in SUBSET Files, WriteCell(r, value)
      PROVE  NoForgottenObject' /\ UploadInv' /\ RemovalInv'
  BY <1>12, ConstantsOK DEF WriteCell, PendingStatus
<1>13. ASSUME NEW r \in TableRows, DeleteTableRow(r)
      PROVE  NoForgottenObject' /\ UploadInv' /\ RemovalInv'
  BY <1>13, ConstantsOK DEF DeleteTableRow, PendingStatus
<1>14. ASSUME NEW r \in TableRows, RestoreTableRow(r)
      PROVE  NoForgottenObject' /\ UploadInv' /\ RemovalInv'
  BY <1>14, ConstantsOK DEF RestoreTableRow, PendingStatus
<1>15. ASSUME NEW r \in TableRows, PurgeRow(r)
      PROVE  NoForgottenObject' /\ UploadInv' /\ RemovalInv'
  BY <1>15, ConstantsOK DEF PurgeRow, PendingStatus
<1>16. ASSUME DropField
      PROVE  NoForgottenObject' /\ UploadInv' /\ RemovalInv'
  BY <1>16, ConstantsOK DEF DropField, PendingStatus
<1>17. ASSUME NEW w \in Workers, Reconcile(w)
      PROVE  NoForgottenObject' /\ UploadInv' /\ RemovalInv'
  BY <1>17, ConstantsOK DEF Reconcile, Orphaned, PURGE_PENDING, PendingStatus
<1>18. ASSUME NEW w \in Workers, SelectBatch(w)
      PROVE  NoForgottenObject' /\ UploadInv' /\ RemovalInv'
  BY <1>18, ConstantsOK DEF SelectBatch, Eligible, PendingStatus
<1>19. ASSUME NEW w \in Workers, NEW f \in Files, RemoveObject(w, f)
      PROVE  NoForgottenObject' /\ UploadInv' /\ RemovalInv'
  BY <1>19, ConstantsOK DEF RemoveObject, PendingStatus
<1>20. ASSUME NEW w \in Workers, NEW f \in Files, RemoveObjectFails(w, f)
      PROVE  NoForgottenObject' /\ UploadInv' /\ RemovalInv'
  BY <1>20, ConstantsOK DEF RemoveObjectFails, PendingStatus
<1>21. ASSUME NEW w \in Workers, DropRow(w)
      PROVE  NoForgottenObject' /\ UploadInv' /\ RemovalInv'
  BY <1>21, ConstantsOK DEF DropRow, Locked, PendingStatus
<1>22. ASSUME NEW w \in Workers, EndPass(w)
      PROVE  NoForgottenObject' /\ UploadInv' /\ RemovalInv'
  BY <1>22, ConstantsOK DEF EndPass, PendingStatus
<1>23. ASSUME NEW w \in Workers, WorkerDies(w)
      PROVE  NoForgottenObject' /\ UploadInv' /\ RemovalInv'
  BY <1>23, ConstantsOK DEF WorkerDies, PendingStatus
<1>24. CASE UNCHANGED varsAttachments
  BY <1>24 DEF varsAttachments, PendingStatus
<1> QED
  BY <1>1, <1>2, <1>3, <1>4, <1>5, <1>6, <1>7, <1>8, <1>9, <1>10, <1>11, <1>12, <1>13, <1>14, <1>15, <1>16, <1>17, <1>18, <1>19, <1>20, <1>21, <1>22, <1>23, <1>24
     DEF NextAttachments, FileStep, UploadStep, RowStep, WorkerStep, WorkerPass

(* As long as uploads end within the grace window, no object is ever in the  *)
(* store without a registry row that leads the cleanup worker to it.         *)
THEOREM NoObjectIsForgotten ==
  ASSUME ~SlowUploads
  PROVE  SpecAttachments => []NoForgottenObject
<1>1. InitAttachments => SafeInv
  BY SafeInit
<1>2. SafeInv /\ [NextAttachments]_varsAttachments => SafeInv'
  BY SafeStep
<1>3. SafeInv => NoForgottenObject
  BY DEF SafeInv
<1> QED
  BY <1>1, <1>2, <1>3, PTL DEF SpecAttachments

-----------------------------------------------------------------------------
(* Cells of live rows *)

LEMMA LiveInit == InitAttachments => LiveInv
BY SafeInit DEF InitAttachments, LiveInv, ActiveInv, CellInv, CellsMatchRegistry, Active

LEMMA LiveStep ==
  ASSUME ~SlowUploads, Deletable = {}, LiveInv, [NextAttachments]_varsAttachments
  PROVE  LiveInv'
<1> SUFFICES ActiveInv' /\ CellInv'
  BY SafeStep DEF LiveInv
<1> USE DEF LiveInv, SafeInv, TypeOKAttachments, UploadInv, RemovalInv, Settled, Running,
            ActiveInv, CellInv, CellsMatchRegistry, Active,
            table, request, worker
<1>1. ASSUME NEW f \in Files, NEW r \in TableRows, CommitIntent(f, r)
      PROVE  ActiveInv' /\ CellInv'
  BY <1>1, ConstantsOK DEF CommitIntent
<1>2. ASSUME NEW f \in Files, PutFile(f)
      PROVE  ActiveInv' /\ CellInv'
  BY <1>2, ConstantsOK DEF PutFile
<1>3. ASSUME NEW f \in Files, Activate(f)
      PROVE  ActiveInv' /\ CellInv'
  BY <1>3, ConstantsOK DEF Activate, CanActivate, Canonical, FlushAccepts
<1>4. ASSUME NEW f \in Files, Refresh(f)
      PROVE  ActiveInv' /\ CellInv'
  BY <1>4, ConstantsOK DEF Refresh
<1>5. ASSUME NEW f \in Files, RemoveFailed(f)
      PROVE  ActiveInv' /\ CellInv'
  BY <1>5, ConstantsOK DEF RemoveFailed
<1>6. ASSUME NEW f \in Files, DropFailed(f)
      PROVE  ActiveInv' /\ CellInv'
  BY <1>6, ConstantsOK DEF DropFailed
<1>7. ASSUME NEW f \in Files, UploadDies(f)
      PROVE  ActiveInv' /\ CellInv'
  BY <1>7, ConstantsOK DEF UploadDies
<1>8. ASSUME NEW f \in Files, GraceEnds(f)
      PROVE  ActiveInv' /\ CellInv'
  BY <1>8, ConstantsOK DEF GraceEnds
<1>9. ASSUME NEW f \in Files, CommitDelete(f)
      PROVE  ActiveInv' /\ CellInv'
  BY <1>9, ConstantsOK DEF CommitDelete, Locked, Canonical, FlushAccepts
<1>10. ASSUME NEW f \in Files, RemoveDeleted(f)
      PROVE  ActiveInv' /\ CellInv'
  BY <1>10, ConstantsOK DEF RemoveDeleted
<1>11. ASSUME NEW f \in Files, DropDeleted(f)
      PROVE  ActiveInv' /\ CellInv'
  BY <1>11, ConstantsOK DEF DropDeleted, Locked
<1>12. ASSUME NEW r \in TableRows, NEW value \in SUBSET Files, WriteCell(r, value)
      PROVE  ActiveInv' /\ CellInv'
  BY <1>12, ConstantsOK DEF WriteCell, FlushAccepts
<1>13. ASSUME NEW r \in TableRows, DeleteTableRow(r)
      PROVE  ActiveInv' /\ CellInv'
  BY <1>13, ConstantsOK DEF DeleteTableRow
<1>14. ASSUME NEW r \in TableRows, RestoreTableRow(r)
      PROVE  ActiveInv' /\ CellInv'
  BY <1>14, ConstantsOK DEF RestoreTableRow
<1>15. ASSUME NEW r \in TableRows, PurgeRow(r)
      PROVE  ActiveInv' /\ CellInv'
  BY <1>15, ConstantsOK DEF PurgeRow
<1>16. ASSUME DropField
      PROVE  ActiveInv' /\ CellInv'
  BY <1>16, ConstantsOK DEF DropField
<1>17. ASSUME NEW w \in Workers, Reconcile(w)
      PROVE  ActiveInv' /\ CellInv'
  BY <1>17, ConstantsOK DEF Reconcile, Orphaned, PURGE_PENDING
<1>18. ASSUME NEW w \in Workers, SelectBatch(w)
      PROVE  ActiveInv' /\ CellInv'
  BY <1>18, ConstantsOK DEF SelectBatch, Eligible, PendingStatus
<1>19. ASSUME NEW w \in Workers, NEW f \in Files, RemoveObject(w, f)
      PROVE  ActiveInv' /\ CellInv'
  BY <1>19, ConstantsOK DEF RemoveObject
<1>20. ASSUME NEW w \in Workers, NEW f \in Files, RemoveObjectFails(w, f)
      PROVE  ActiveInv' /\ CellInv'
  BY <1>20, ConstantsOK DEF RemoveObjectFails
<1>21. ASSUME NEW w \in Workers, DropRow(w)
      PROVE  ActiveInv' /\ CellInv'
  BY <1>21, ConstantsOK DEF DropRow, Locked
<1>22. ASSUME NEW w \in Workers, EndPass(w)
      PROVE  ActiveInv' /\ CellInv'
  BY <1>22, ConstantsOK DEF EndPass
<1>23. ASSUME NEW w \in Workers, WorkerDies(w)
      PROVE  ActiveInv' /\ CellInv'
  BY <1>23, ConstantsOK DEF WorkerDies
<1>24. CASE UNCHANGED varsAttachments
  BY <1>24 DEF varsAttachments
<1> QED
  BY <1>1, <1>2, <1>3, <1>4, <1>5, <1>6, <1>7, <1>8, <1>9, <1>10, <1>11, <1>12, <1>13, <1>14, <1>15, <1>16, <1>17, <1>18, <1>19, <1>20, <1>21, <1>22, <1>23, <1>24
     DEF NextAttachments, FileStep, UploadStep, RowStep, WorkerStep, WorkerPass

LEMMA LiveInvHolds ==
  ASSUME ~SlowUploads, Deletable = {}
  PROVE  SpecAttachments => []LiveInv
<1>1. InitAttachments => LiveInv
  BY LiveInit
<1>2. LiveInv /\ [NextAttachments]_varsAttachments => LiveInv'
  BY LiveStep
<1> QED
  BY <1>1, <1>2, PTL DEF SpecAttachments

(* While rows are only edited (none is deleted) and uploads end within the   *)
(* grace window, the cell of every row is its exact set of active registry   *)
(* rows.                                                                     *)
THEOREM LiveCellsAreExact ==
  ASSUME ~SlowUploads, Deletable = {}
  PROVE  SpecAttachments => []CellsMatchRegistry
<1>1. LiveInv => CellsMatchRegistry
  BY DEF LiveInv, CellInv
<1> QED
  BY <1>1, LiveInvHolds, PTL

(* Under the same conditions every attachment a row shows can be downloaded: *)
(* its object is in the store, whatever the requests that upload and delete  *)
(* attachments, the cleanup workers and their crashes do.                    *)
THEOREM LiveAttachmentsHaveObjects ==
  ASSUME ~SlowUploads, Deletable = {}
  PROVE  SpecAttachments => []LiveAttachmentsStored
<1>1. LiveInv => LiveAttachmentsStored
  BY DEF LiveInv, SafeInv, TypeOKAttachments, ActiveInv, CellInv, LiveAttachmentsStored, IsStored, Active
<1> QED
  BY <1>1, LiveInvHolds, PTL

-----------------------------------------------------------------------------
(* OAuthSessions, for any number of logins, tokens and requests: the rows     *)
(* keep their types, and the refresh tokens implement SessionChains.         *)
(*                                                                           *)
(* The refinement maps a session to its one unrevoked token.  That there is  *)
(* at most one needs more than the rows of oauth_refresh_tokens: a request   *)
(* between the two transactions of an exchange will insert the first token   *)
(* of its session, so until then the session has no token, the code is used, *)
(* and no other request exchanges the same code.                             *)

(* The session of a token and the good token of a session in a table tok.    *)
SessionIn(tok, t) == IF tok[t].session = NoToken THEN t ELSE tok[t].session
GoodAllIn(tok, s) ==
    {t \in Tokens : tok[t].state \in {"live", "expired"} /\ SessionIn(tok, t) = s}
AnyOf(S) == IF S = {} THEN NoToken ELSE CHOOSE t \in S : TRUE
GoodIn(tok, s) == AnyOf(GoodAllIn(tok, s))

AtMostOneGood ==
    \A t, u \in Tokens :
        Unrevoked(t) /\ Unrevoked(u) /\ SessionOf(t) = SessionOf(u) => t = u
IssuedForUsedCodes ==
    \A t \in Tokens : token[t].session \in Codes => code[token[t].session] = "used"
ExchangesOwnTheirCode ==
    \A h \in Handlers : handler[h].op = "exchange" =>
        /\ code[handler[h].code] = "used"
        /\ \A t \in Tokens : token[t].session # handler[h].code
        /\ \A g \in Handlers :
              handler[g].op = "exchange" /\ handler[g].code = handler[h].code => g = h
RevocationsKnowTheirRows ==
    \A h \in Handlers : handler[h].op = "revoke" =>
        \A t \in handler[h].rows : token[t].state # "free"
FreeTokensUnnamed ==
    \A t \in Tokens : token[t].state = "free" =>
        t \notin LegacyTokens /\ token[t].session = NoToken

ChainInv ==
    /\ TypeOKOAuth
    /\ AtMostOneGood
    /\ IssuedForUsedCodes
    /\ ExchangesOwnTheirCode
    /\ RevocationsKnowTheirRows
    /\ FreeTokensUnnamed

-----------------------------------------------------------------------------
(* What a request remembers has the fields its kind needs. *)
LEMMA RequestFields ==
    /\ IdleHandler \in Handling
    /\ \A r \in Handling : /\ r.op = "exchange" => r.code \in Codes
                           /\ r.op = "revoke" => r.rows \subseteq Tokens
                           /\ r = IdleHandler => r.op = "idle"
    /\ \A c \in Codes : LET r == [op |-> "exchange", code |-> c]
                        IN  r \in Handling /\ r.op = "exchange" /\ r.code = c
    /\ \A rs \in SUBSET Tokens : LET r == [op |-> "revoke", rows |-> rs]
                                 IN  r \in Handling /\ r.op = "revoke" /\ r.rows = rs
    /\ IdleHandler.op = "idle"
  BY DEF Handling, IdleHandler

(* A session with one good token is continued with that token, and one       *)
(* without any with none.                                                    *)
LEMMA GoodInIs ==
    ASSUME NEW tok, NEW s
    PROVE  /\ \A t \in Tokens : GoodAllIn(tok, s) = {t} => GoodIn(tok, s) = t
           /\ GoodAllIn(tok, s) = {} => GoodIn(tok, s) = NoToken
           /\ GoodAllIn(tok, s) # {} => GoodIn(tok, s) \in GoodAllIn(tok, s)
           /\ GoodIn(tok, s) # NoToken => GoodIn(tok, s) \in GoodAllIn(tok, s)
<1>1. \A t \in Tokens : GoodAllIn(tok, s) = {t} => GoodIn(tok, s) = t
  BY DEF GoodIn, AnyOf
<1>2. GoodAllIn(tok, s) = {} => GoodIn(tok, s) = NoToken
  BY DEF GoodIn, AnyOf
<1>3. GoodAllIn(tok, s) # {} => GoodIn(tok, s) \in GoodAllIn(tok, s)
  BY DEF GoodIn, AnyOf
<1>4. GoodIn(tok, s) # NoToken => GoodIn(tok, s) \in GoodAllIn(tok, s)
  BY <1>2, <1>3
<1> QED BY <1>1, <1>2, <1>3, <1>4

-----------------------------------------------------------------------------
LEMMA ChainInit == InitOAuth => ChainInv
<1> SUFFICES ASSUME InitOAuth PROVE ChainInv
  OBVIOUS
<1> USE DEF InitOAuth
<1>1. TypeOKOAuth
  BY RequestFields, LegacyAreTokens, LogoutBound DEF TypeOKOAuth, CodeStates, TokenRow, Sessions
<1>2. AtMostOneGood
  BY DEF AtMostOneGood, SessionOf, Unrevoked
<1>3. IssuedForUsedCodes
  BY SessionNames DEF IssuedForUsedCodes
<1>4. ExchangesOwnTheirCode /\ RevocationsKnowTheirRows
  BY RequestFields DEF ExchangesOwnTheirCode, RevocationsKnowTheirRows
<1>5. FreeTokensUnnamed
  BY DEF FreeTokensUnnamed
<1> QED BY <1>1, <1>2, <1>3, <1>4, <1>5 DEF ChainInv

-----------------------------------------------------------------------------
(* One lemma per kind of step. *)

(* A step that writes no token and begins no exchange. *)
LEMMA ChainQuiet ==
    ASSUME ChainInv, token' = token, handler' = handler, logouts' = logouts,
           code' \in [Codes -> CodeStates],
           \A c \in Codes : code[c] = "used" => code'[c] = "used"
    PROVE  ChainInv'
<1>1. TypeOKOAuth'
  BY DEF ChainInv, TypeOKOAuth
<1>2. AtMostOneGood' /\ RevocationsKnowTheirRows' /\ FreeTokensUnnamed'
  BY DEF ChainInv, AtMostOneGood, RevocationsKnowTheirRows, FreeTokensUnnamed, Unrevoked, SessionOf
<1>3. IssuedForUsedCodes'
  BY DEF ChainInv, IssuedForUsedCodes
<1>4. ExchangesOwnTheirCode'
  <2> SUFFICES ASSUME NEW h \in Handlers, handler[h].op = "exchange"
               PROVE  /\ code'[handler[h].code] = "used"
                      /\ \A t \in Tokens : token[t].session # handler[h].code
                      /\ \A g \in Handlers :
                            handler[g].op = "exchange" /\ handler[g].code = handler[h].code => g = h
    BY DEF ExchangesOwnTheirCode
  <2>1. handler[h].code \in Codes
    BY RequestFields DEF ChainInv, TypeOKOAuth
  <2> QED BY <2>1 DEF ChainInv, ExchangesOwnTheirCode
<1> QED BY <1>1, <1>2, <1>3, <1>4 DEF ChainInv

(* A step that changes what one request remembers, to nothing or to rows     *)
(* that are unrevoked.                                                       *)
LEMMA ChainRemember ==
    ASSUME ChainInv, token' = token, code' = code, logouts' \in 0..MaxLogouts,
           NEW h \in Handlers, NEW r \in Handling, r.op # "exchange",
           r.op = "revoke" => \A t \in r.rows : token[t].state # "free",
           handler' = [handler EXCEPT ![h] = r]
    PROVE  ChainInv'
<1>1. TypeOKOAuth'
  BY DEF ChainInv, TypeOKOAuth
<1>2. AtMostOneGood' /\ FreeTokensUnnamed' /\ IssuedForUsedCodes'
  BY DEF ChainInv, AtMostOneGood, FreeTokensUnnamed, IssuedForUsedCodes, Unrevoked, SessionOf
<1>3. handler \in [Handlers -> Handling]
  BY DEF ChainInv, TypeOKOAuth
<1>4. ExchangesOwnTheirCode'
  BY <1>3 DEF ChainInv, ExchangesOwnTheirCode
<1>5. RevocationsKnowTheirRows'
  BY <1>3 DEF ChainInv, RevocationsKnowTheirRows
<1> QED BY <1>1, <1>2, <1>4, <1>5 DEF ChainInv

LEMMA ChainExchange ==
    ASSUME ChainInv, NEW h \in Handlers, NEW c \in Codes, Exchange(h, c)
    PROVE  ChainInv'
<1> USE DEF Exchange
<1>1. code' \in [Codes -> CodeStates] /\ \A d \in Codes : code[d] = "used" => code'[d] = "used"
  BY DEF ChainInv, TypeOKOAuth, CodeStates
<1>2. CASE code[c] = "expired"
  BY <1>1, <1>2, ChainQuiet
<1>3. CASE code[c] # "expired"
  <2> DEFINE r == [op |-> "exchange", code |-> c]
  <2>1. r \in Handling /\ r.op = "exchange" /\ r.code = c /\ handler' = [handler EXCEPT ![h] = r]
    BY <1>3, RequestFields
  <2> HIDE DEF r
  <2>2. TypeOKOAuth'
    BY <1>1, <2>1 DEF ChainInv, TypeOKOAuth
  <2>3. AtMostOneGood' /\ FreeTokensUnnamed'
    BY DEF ChainInv, AtMostOneGood, FreeTokensUnnamed, Unrevoked, SessionOf
  <2>4. IssuedForUsedCodes'
    BY <1>1 DEF ChainInv, IssuedForUsedCodes
  <2>5. handler \in [Handlers -> Handling] /\ code \in [Codes -> CodeStates]
    BY DEF ChainInv, TypeOKOAuth
  <2>6. \A g \in Handlers : handler[g].op = "exchange" => handler[g].code # c /\ handler[g].code \in Codes
    BY <1>3, <2>5, RequestFields DEF ChainInv, ExchangesOwnTheirCode
  <2>7. \A t \in Tokens : token[t].session # c
    BY <1>3 DEF ChainInv, IssuedForUsedCodes
  <2>8. code'[c] = "used"
    BY <2>5
  <2>9. ExchangesOwnTheirCode'
    <3> SUFFICES ASSUME NEW k \in Handlers, handler'[k].op = "exchange"
                 PROVE  /\ code'[handler'[k].code] = "used"
                        /\ \A t \in Tokens : token'[t].session # handler'[k].code
                        /\ \A g \in Handlers :
                              handler'[g].op = "exchange" /\ handler'[g].code = handler'[k].code => g = k
      BY DEF ExchangesOwnTheirCode
    <3>1. CASE k = h
      BY <3>1, <2>1, <2>5, <2>6, <2>7, <2>8
    <3>2. CASE k # h
      <4>1. handler'[k] = handler[k]
        BY <3>2, <2>1, <2>5
      <4>2. code'[handler[k].code] = "used" /\ \A t \in Tokens : token'[t].session # handler[k].code
        BY <4>1, <1>1, <2>6 DEF ChainInv, ExchangesOwnTheirCode
      <4>3. \A g \in Handlers : handler'[g].op = "exchange" /\ handler'[g].code = handler[k].code => g = k
        BY <4>1, <2>1, <2>5, <2>6 DEF ChainInv, ExchangesOwnTheirCode
      <4> QED BY <4>1, <4>2, <4>3
    <3> QED BY <3>1, <3>2
  <2>10. RevocationsKnowTheirRows'
    BY <2>1, <2>5 DEF ChainInv, RevocationsKnowTheirRows
  <2> QED BY <2>2, <2>3, <2>4, <2>9, <2>10 DEF ChainInv
<1> QED BY <1>2, <1>3

(* A step that only lets tokens expire or revokes them. *)
LEMMA ChainWeaken ==
    ASSUME ChainInv, code' = code, logouts' = logouts,
           token' \in [Tokens -> TokenRow],
           handler' = handler \/ \E h \in Handlers : handler' = [handler EXCEPT ![h] = IdleHandler],
           \A t \in Tokens : /\ token'[t].session = token[t].session
                             /\ token'[t].state = "free" <=> token[t].state = "free"
                             /\ token'[t].state \in {"live", "expired"} => token[t].state \in {"live", "expired"}
    PROVE  ChainInv'
<1>0. handler \in [Handlers -> Handling] /\ handler' \in [Handlers -> Handling]
  BY RequestFields DEF ChainInv, TypeOKOAuth
<1>1. TypeOKOAuth'
  BY <1>0 DEF ChainInv, TypeOKOAuth
<1>2. AtMostOneGood'
  BY DEF ChainInv, AtMostOneGood, Unrevoked, SessionOf
<1>3. IssuedForUsedCodes' /\ FreeTokensUnnamed'
  BY DEF ChainInv, IssuedForUsedCodes, FreeTokensUnnamed
<1>4. \A h \in Handlers : handler'[h] = handler[h] \/ handler'[h].op = "idle"
  BY <1>0, RequestFields
<1>5. ExchangesOwnTheirCode'
  <2> SUFFICES ASSUME NEW k \in Handlers, handler'[k].op = "exchange"
               PROVE  /\ code'[handler'[k].code] = "used"
                      /\ \A t \in Tokens : token'[t].session # handler'[k].code
                      /\ \A g \in Handlers :
                            handler'[g].op = "exchange" /\ handler'[g].code = handler'[k].code => g = k
    BY DEF ExchangesOwnTheirCode
  <2>1. handler'[k] = handler[k]
    BY <1>4
  <2> QED BY <2>1, <1>4 DEF ChainInv, ExchangesOwnTheirCode
<1>6. RevocationsKnowTheirRows'
  <2> SUFFICES ASSUME NEW k \in Handlers, handler'[k].op = "revoke", NEW t \in handler'[k].rows
               PROVE  token'[t].state # "free"
    BY DEF RevocationsKnowTheirRows
  <2>1. handler'[k] = handler[k] /\ t \in Tokens
    BY <1>0, <1>4, RequestFields
  <2> QED BY <2>1 DEF ChainInv, RevocationsKnowTheirRows
<1> QED BY <1>1, <1>2, <1>3, <1>5, <1>6 DEF ChainInv

(* The new row of a first token or of a successor, with every other row      *)
(* unchanged but the predecessor's, which is revoked.                        *)
LEMMA ChainFirstToken ==
    ASSUME ChainInv, NEW h \in Handlers, NEW t \in Tokens, FirstToken(h, t)
    PROVE  ChainInv'
<1> DEFINE c == handler[h].code
           fresh == [state |-> "live", session |-> c]
<1> USE DEF FirstToken
<1>1. handler \in [Handlers -> Handling] /\ token \in [Tokens -> TokenRow] /\ code \in [Codes -> CodeStates]
  BY DEF ChainInv, TypeOKOAuth
<1>2. c \in Codes /\ c # NoToken
  BY <1>1, RequestFields, SessionNames
<1>3. fresh \in TokenRow /\ fresh.state = "live" /\ fresh.session = c
  BY <1>2 DEF TokenRow, Sessions
<1>4. token' = [token EXCEPT ![t] = fresh] /\ handler' = [handler EXCEPT ![h] = IdleHandler]
  OBVIOUS
<1>5. /\ code[c] = "used"
      /\ \A u \in Tokens : token[u].session # c
      /\ \A g \in Handlers : handler[g].op = "exchange" /\ handler[g].code = c => g = h
  BY DEF ChainInv, ExchangesOwnTheirCode
<1>6. t \notin LegacyTokens /\ token[t].state = "free"
  BY DEF ChainInv, FreeTokensUnnamed
<1> HIDE DEF c, fresh
<1>7. TypeOKOAuth'
  BY <1>1, <1>2, <1>3, <1>4, <1>6, RequestFields DEF ChainInv, TypeOKOAuth
<1>8. \A u \in Tokens : u # t => token'[u] = token[u]
  BY <1>1, <1>4
<1>9. token'[t] = fresh
  BY <1>1, <1>4
<1>10. AtMostOneGood'
  <2>1. \A u \in Tokens : SessionOf(u) # c
    BY <1>2, <1>5, SessionNames DEF SessionOf
  <2> QED BY <2>1, <1>2, <1>3, <1>8, <1>9 DEF ChainInv, AtMostOneGood, SessionOf, Unrevoked
<1>11. IssuedForUsedCodes'
  BY <1>3, <1>5, <1>8, <1>9 DEF ChainInv, IssuedForUsedCodes
<1>12. FreeTokensUnnamed'
  BY <1>3, <1>8, <1>9 DEF ChainInv, FreeTokensUnnamed
<1>13. \A g \in Handlers : IF g = h THEN handler'[g].op = "idle" ELSE handler'[g] = handler[g]
  BY <1>1, <1>4, RequestFields
<1>14. ExchangesOwnTheirCode'
  <2> SUFFICES ASSUME NEW k \in Handlers, handler'[k].op = "exchange"
               PROVE  /\ code'[handler'[k].code] = "used"
                      /\ \A u \in Tokens : token'[u].session # handler'[k].code
                      /\ \A g \in Handlers :
                            handler'[g].op = "exchange" /\ handler'[g].code = handler'[k].code => g = k
    BY DEF ExchangesOwnTheirCode
  <2>1. k # h /\ handler'[k] = handler[k]
    BY <1>13
  <2>2. handler[k].code # c
    BY <2>1, <1>5
  <2>3. \A u \in Tokens : token'[u].session # handler[k].code
    BY <2>1, <2>2, <1>3, <1>8, <1>9 DEF ChainInv, ExchangesOwnTheirCode
  <2> QED BY <2>1, <2>3, <1>13 DEF ChainInv, ExchangesOwnTheirCode
<1>15. RevocationsKnowTheirRows'
  BY <1>3, <1>8, <1>9, <1>13, <1>1, RequestFields DEF ChainInv, RevocationsKnowTheirRows
<1> QED BY <1>7, <1>10, <1>11, <1>12, <1>14, <1>15 DEF ChainInv

(* Every token that was issued belongs to a session. *)
LEMMA SessionKnown ==
    ASSUME ChainInv, NEW t \in Tokens, token[t].state # "free"
    PROVE  SessionOf(t) \in Sessions /\ SessionOf(t) # NoToken
<1>1. token[t] \in TokenRow
  BY DEF ChainInv, TypeOKOAuth
<1>2. token[t].session = NoToken => t \in LegacyTokens
  BY DEF ChainInv, TypeOKOAuth
<1> QED BY <1>1, <1>2, SessionNames, LegacyAreTokens DEF SessionOf, TokenRow, Sessions

LEMMA ChainRotate ==
    ASSUME ChainInv, NEW t \in Tokens, NEW next \in Tokens, RotateToken(t, next)
    PROVE  ChainInv'
<1> DEFINE s == SessionOf(t)
           spent == [state |-> "revoked", session |-> s]
           new == [state |-> "live", session |-> s]
<1> USE DEF RotateToken
<1>1. handler \in [Handlers -> Handling] /\ token \in [Tokens -> TokenRow]
  BY DEF ChainInv, TypeOKOAuth
<1>2. s \in Sessions /\ s # NoToken
  BY SessionKnown
<1>3. t # next
  OBVIOUS
<1>4. /\ spent \in TokenRow /\ spent.state = "revoked" /\ spent.session = s
      /\ new \in TokenRow /\ new.state = "live" /\ new.session = s
  BY <1>2 DEF TokenRow
<1>5. token' = [token EXCEPT ![t] = spent, ![next] = new]
  OBVIOUS
<1>6. next \notin LegacyTokens
  BY DEF ChainInv, FreeTokensUnnamed
<1>7. s \in Codes => token[t].session = s
  BY SessionNames DEF SessionOf
<1>8. token[t].session # NoToken => token[t].session = s
  BY DEF SessionOf
<1>9. \A u \in Tokens : Unrevoked(u) /\ SessionOf(u) = s => u = t
  BY DEF ChainInv, AtMostOneGood, Unrevoked
<1> HIDE DEF s, spent, new
<1>10. token'[t] = spent /\ token'[next] = new /\ \A u \in Tokens \ {t, next} : token'[u] = token[u]
  BY <1>1, <1>3, <1>5
<1>11. TypeOKOAuth'
  BY <1>1, <1>2, <1>4, <1>5, <1>6, <1>10 DEF ChainInv, TypeOKOAuth
<1>12. AtMostOneGood'
  <2> SUFFICES ASSUME NEW u \in Tokens, NEW w \in Tokens, Unrevoked(u)', Unrevoked(w)',
                      SessionOf(u)' = SessionOf(w)'
               PROVE  u = w
    BY DEF AtMostOneGood
  <2>1. u # t /\ w # t
    BY <1>4, <1>10 DEF Unrevoked
  <2>2. SessionOf(next)' = s
    BY <1>2, <1>4, <1>10 DEF SessionOf
  <2>3. \A x \in Tokens \ {t, next} : Unrevoked(x)' => Unrevoked(x) /\ SessionOf(x)' = SessionOf(x)
    <3> SUFFICES ASSUME NEW x \in Tokens \ {t, next}, Unrevoked(x)'
                 PROVE  Unrevoked(x) /\ SessionOf(x)' = SessionOf(x)
      OBVIOUS
    <3>1. token'[x] = token[x]
      BY <1>10
    <3> QED BY <3>1 DEF Unrevoked, SessionOf
  <2> QED BY <2>1, <2>2, <2>3, <1>9 DEF ChainInv, AtMostOneGood
<1>13. IssuedForUsedCodes'
  BY <1>4, <1>7, <1>10 DEF ChainInv, IssuedForUsedCodes
<1>14. FreeTokensUnnamed'
  BY <1>4, <1>10 DEF ChainInv, FreeTokensUnnamed
<1>15. ExchangesOwnTheirCode'
  <2> SUFFICES ASSUME NEW k \in Handlers, handler[k].op = "exchange", NEW u \in Tokens
               PROVE  token'[u].session # handler[k].code
    BY DEF ChainInv, ExchangesOwnTheirCode
  <2>1. handler[k].code \in Codes /\ \A x \in Tokens : token[x].session # handler[k].code
    BY <1>1, RequestFields DEF ChainInv, ExchangesOwnTheirCode
  <2> QED BY <2>1, <1>4, <1>7, <1>10
<1>16. RevocationsKnowTheirRows'
  BY <1>1, <1>4, <1>10, RequestFields DEF ChainInv, RevocationsKnowTheirRows
<1> QED BY <1>11, <1>12, <1>13, <1>14, <1>15, <1>16 DEF ChainInv


(* Rows that are read to be revoked are unrevoked when they are read. *)
LEMMA ChainBegin ==
    ASSUME ChainInv, NEW h \in Handlers, NEW rows \in SUBSET Tokens,
           \A t \in rows : Unrevoked(t), BeginRevocation(h, rows)
    PROVE  ChainInv'
<1> DEFINE r == [op |-> "revoke", rows |-> rows]
<1>1. r \in Handling /\ r.op = "revoke" /\ r.rows = rows
  BY RequestFields
<1>2. handler' = [handler EXCEPT ![h] = r] /\ token' = token /\ code' = code
  BY DEF BeginRevocation
<1>3. logouts' \in 0..MaxLogouts
  BY LogoutBound DEF BeginRevocation, ChainInv, TypeOKOAuth
<1>4. \A t \in rows : token[t].state # "free"
  BY DEF Unrevoked
<1> HIDE DEF r
<1> QED BY <1>1, <1>2, <1>3, <1>4, ChainRemember

(* The tokens a revocation writes. *)
LEMMA RevokedRows ==
    ASSUME ChainInv, NEW h \in Handlers, CommitRevocation(h)
    PROVE  /\ handler[h].rows \subseteq Tokens
           /\ \A t \in handler[h].rows : token[t].state # "free"
           /\ token' \in [Tokens -> TokenRow]
           /\ \A t \in Tokens : /\ token'[t].session = token[t].session
                                /\ token'[t].state = IF t \in handler[h].rows THEN "revoked" ELSE token[t].state
<1>1. handler \in [Handlers -> Handling] /\ token \in [Tokens -> TokenRow]
  BY DEF ChainInv, TypeOKOAuth
<1>2. handler[h].rows \subseteq Tokens
  BY <1>1, RequestFields DEF CommitRevocation
<1>3. \A t \in handler[h].rows : token[t].state # "free"
  BY DEF CommitRevocation, ChainInv, RevocationsKnowTheirRows
<1>4. \A t \in Tokens :
        LET fresh == [token[t] EXCEPT !.state = "revoked"]
        IN  fresh \in TokenRow /\ fresh.session = token[t].session /\ fresh.state = "revoked"
  BY <1>1 DEF TokenRow
<1>5. token' \in [Tokens -> TokenRow]
  BY <1>1, <1>4 DEF CommitRevocation
<1>6. \A t \in Tokens : /\ token'[t].session = token[t].session
                        /\ token'[t].state = IF t \in handler[h].rows THEN "revoked" ELSE token[t].state
  BY <1>1, <1>4 DEF CommitRevocation
<1> QED BY <1>2, <1>3, <1>5, <1>6

(* One token whose state alone changes. *)
LEMMA RestatedRow ==
    ASSUME ChainInv, NEW t \in Tokens, NEW st \in {"live", "expired", "revoked"},
           token' = [token EXCEPT ![t].state = st]
    PROVE  /\ token' \in [Tokens -> TokenRow]
           /\ token'[t].state = st
           /\ \A u \in Tokens : /\ token'[u].session = token[u].session
                                /\ u # t => token'[u] = token[u]
<1>1. token \in [Tokens -> TokenRow]
  BY DEF ChainInv, TypeOKOAuth
<1> QED BY <1>1 DEF TokenRow

LEMMA ChainStep == ChainInv /\ [NextOAuth]_varsOAuth => ChainInv'
<1> SUFFICES ASSUME ChainInv, [NextOAuth]_varsOAuth PROVE ChainInv'
  OBVIOUS
<1>0. /\ code \in [Codes -> CodeStates] /\ token \in [Tokens -> TokenRow]
      /\ handler \in [Handlers -> Handling] /\ logouts \in 0..MaxLogouts
  BY DEF ChainInv, TypeOKOAuth
<1>1. ASSUME NEW c \in Codes, Authorize(c) \/ AuthorizeCode(c) PROVE ChainInv'
  <2>1. code' \in [Codes -> CodeStates] /\ \A d \in Codes : code[d] = "used" => code'[d] = "used"
    BY <1>0, <1>1 DEF Authorize, AuthorizeCode, CodeStates
  <2>2. token' = token /\ handler' = handler /\ logouts' = logouts
    BY <1>1 DEF Authorize, AuthorizeCode
  <2> QED BY <2>1, <2>2, ChainQuiet
<1>2. ASSUME NEW h \in Handlers, NEW c \in Codes, Exchange(h, c) PROVE ChainInv'
  BY <1>2, ChainExchange
<1>3. ASSUME NEW h \in Handlers, NEW t \in Tokens, FirstToken(h, t) PROVE ChainInv'
  BY <1>3, ChainFirstToken
<1>4. ASSUME NEW h \in Handlers, NEW t \in Tokens, RevokeRefreshToken(h, t) PROVE ChainInv'
  BY <1>4, ChainBegin DEF RevokeRefreshToken
<1>5. ASSUME NEW t \in Tokens, NEW next \in Tokens, RotateToken(t, next) PROVE ChainInv'
  BY <1>5, ChainRotate
<1>6. ASSUME NEW t \in Tokens, RefuseExpired(t) PROVE ChainInv'
  <2>1. /\ token' \in [Tokens -> TokenRow] /\ token'[t].state = "revoked"
        /\ \A u \in Tokens : token'[u].session = token[u].session /\ (u # t => token'[u] = token[u])
    BY <1>6, RestatedRow DEF RefuseExpired
  <2>2. token[t].state = "expired" /\ code' = code /\ handler' = handler /\ logouts' = logouts
    BY <1>6 DEF RefuseExpired
  <2>3. \A u \in Tokens : /\ token'[u].state = "free" <=> token[u].state = "free"
                          /\ token'[u].state \in {"live", "expired"} => token[u].state \in {"live", "expired"}
    BY <2>1, <2>2
  <2> QED BY <2>1, <2>2, <2>3, ChainWeaken
<1>7. ASSUME NEW h \in Handlers, NEW s \in Sessions, LogoutSession(h, s) PROVE ChainInv'
  BY <1>7, ChainBegin DEF LogoutSession
<1>8. ASSUME NEW h \in Handlers, LogoutAll(h) PROVE ChainInv'
  BY <1>8, ChainBegin DEF LogoutAll
<1>9. ASSUME NEW h \in Handlers, CommitRevocation(h) PROVE ChainInv'
  <2>1. /\ token' \in [Tokens -> TokenRow]
        /\ \A t \in handler[h].rows : token[t].state # "free"
        /\ \A t \in Tokens : /\ token'[t].session = token[t].session
                             /\ token'[t].state = IF t \in handler[h].rows THEN "revoked" ELSE token[t].state
    BY <1>9, RevokedRows
  <2>2. code' = code /\ logouts' = logouts /\ handler' = [handler EXCEPT ![h] = IdleHandler]
    BY <1>9 DEF CommitRevocation
  <2>3. \A t \in Tokens : /\ token'[t].state = "free" <=> token[t].state = "free"
                          /\ token'[t].state \in {"live", "expired"} => token[t].state \in {"live", "expired"}
    BY <2>1
  <2> QED BY <2>1, <2>2, <2>3, ChainWeaken
<1>10. ASSUME NEW h \in Handlers, HandlerDies(h) PROVE ChainInv'
  <2>1. /\ token' = token /\ code' = code /\ logouts' \in 0..MaxLogouts
        /\ handler' = [handler EXCEPT ![h] = IdleHandler]
    BY <1>0, <1>10 DEF HandlerDies
  <2> QED BY <2>1, RequestFields, ChainRemember
<1>11. CASE Expire
  <2>1. handler' = handler /\ logouts' = logouts
    BY <1>11 DEF Expire
  <2>2. CASE token' = token /\ \E c \in Codes : code[c] = "live" /\ code' = [code EXCEPT ![c] = "expired"]
    <3>1. code' \in [Codes -> CodeStates] /\ \A d \in Codes : code[d] = "used" => code'[d] = "used"
      BY <1>0, <2>2 DEF CodeStates
    <3> QED BY <2>1, <2>2, <3>1, ChainQuiet
  <2>3. CASE code' = code /\ \E t \in Tokens : token[t].state = "live" /\ token' = [token EXCEPT ![t].state = "expired"]
    <3> PICK t \in Tokens : token[t].state = "live" /\ token' = [token EXCEPT ![t].state = "expired"]
      BY <2>3
    <3>1. /\ token' \in [Tokens -> TokenRow] /\ token'[t].state = "expired"
          /\ \A u \in Tokens : token'[u].session = token[u].session /\ (u # t => token'[u] = token[u])
      BY RestatedRow
    <3>2. \A u \in Tokens : /\ token'[u].state = "free" <=> token[u].state = "free"
                            /\ token'[u].state \in {"live", "expired"} => token[u].state \in {"live", "expired"}
      BY <3>1
    <3> QED BY <2>1, <2>3, <3>1, <3>2, ChainWeaken
  <2> QED BY <1>11, <2>2, <2>3 DEF Expire, ExpireRow
<1>12. CASE UNCHANGED varsOAuth
  BY <1>0, <1>12, ChainQuiet DEF varsOAuth
<1> QED
  BY <1>1, <1>2, <1>3, <1>4, <1>5, <1>6, <1>7, <1>8, <1>9, <1>10, <1>11, <1>12 DEF NextOAuth

LEMMA ChainAlways == SpecOAuth => []ChainInv
  BY ChainInit, ChainStep, PTL DEF SpecOAuth

(* Whatever requests overlap, the rows of the OAuth tables keep their types, *)
(* every token issued with session ids has one, and a request remembers      *)
(* codes and rows that exist (api/oauth).                                    *)
THEOREM OAuthTypes == SpecOAuth => []TypeOKOAuth
<1>1. ChainInv => TypeOKOAuth
  BY DEF ChainInv
<1> QED BY <1>1, ChainAlways, PTL

-----------------------------------------------------------------------------
(* The refinement.  Every fact below is about GoodIn, which the refinement   *)
(* mapping is made of.                                                       *)

LEMMA Mapped ==
    /\ [s \in Sessions |-> GoodToken(s)] = [s \in Sessions |-> GoodIn(token, s)]
    /\ [s \in Sessions |-> GoodToken(s)]' = [s \in Sessions |-> GoodIn(token', s)]
    /\ \A s \in Sessions : GoodToken(s) = GoodIn(token, s) /\ GoodToken(s)' = GoodIn(token', s)
  BY DEF GoodToken, GoodTokens, GoodIn, AnyOf, GoodAllIn, Unrevoked, SessionOf, SessionIn

(* A token is good for its own session only, and then it is the one.         *)
LEMMA GoodIsOwn ==
    ASSUME ChainInv
    PROVE  /\ \A s \in Sessions : GoodIn(token, s) # NoToken =>
                 /\ GoodIn(token, s) \in Tokens
                 /\ Unrevoked(GoodIn(token, s))
                 /\ SessionOf(GoodIn(token, s)) = s
           /\ \A t \in Tokens : Unrevoked(t) => /\ SessionOf(t) \in Sessions
                                                /\ GoodAllIn(token, SessionOf(t)) = {t}
                                                /\ GoodIn(token, SessionOf(t)) = t
<1>1. ASSUME NEW s \in Sessions, GoodIn(token, s) # NoToken
      PROVE  /\ GoodIn(token, s) \in Tokens
             /\ Unrevoked(GoodIn(token, s))
             /\ SessionOf(GoodIn(token, s)) = s
  <2>1. GoodIn(token, s) \in GoodAllIn(token, s)
    BY <1>1, GoodInIs
  <2> QED BY <2>1 DEF GoodAllIn, Unrevoked, SessionOf, SessionIn
<1>2. ASSUME NEW t \in Tokens, Unrevoked(t)
      PROVE  /\ SessionOf(t) \in Sessions
             /\ GoodAllIn(token, SessionOf(t)) = {t}
             /\ GoodIn(token, SessionOf(t)) = t
  <2>1. SessionOf(t) \in Sessions
    BY <1>2, SessionKnown DEF Unrevoked
  <2>2. GoodAllIn(token, SessionOf(t)) = {t}
    BY <1>2 DEF GoodAllIn, SessionIn, SessionOf, Unrevoked, ChainInv, AtMostOneGood
  <2> QED BY <2>1, <2>2, GoodInIs
<1> QED BY <1>1, <1>2

(* A token that was never issued is good for no session. *)
LEMMA FreeIsUnused ==
    ASSUME ChainInv, NEW t \in Tokens, token[t].state = "free"
    PROVE  t \notin SpentTokens /\ \A s \in Sessions : GoodIn(token, s) # t
<1>1. \A s \in Sessions : GoodIn(token, s) # t
  BY GoodIsOwn, SessionNames DEF Unrevoked
<1> QED BY <1>1 DEF SpentTokens

LEMMA InitMaps == InitOAuth => Chains!InitChains
<1> SUFFICES ASSUME InitOAuth PROVE Chains!InitChains
  OBVIOUS
<1>1. SpentTokens = {}
  BY DEF InitOAuth, SpentTokens
<1>2. \A s \in Sessions : GoodIn(token, s) = IF s \in Tokens THEN s ELSE NoToken
  <2> SUFFICES ASSUME NEW s \in Sessions
               PROVE  GoodIn(token, s) = IF s \in Tokens THEN s ELSE NoToken
    OBVIOUS
  <2>1. s \in Tokens => s \in LegacyTokens
    BY SessionNames DEF Sessions
  <2>2. GoodAllIn(token, s) = IF s \in Tokens THEN {s} ELSE {}
    BY <2>1 DEF InitOAuth, GoodAllIn, SessionIn
  <2> QED BY <2>2, GoodInIs
<1> QED BY <1>1, <1>2, Mapped DEF Chains!InitChains

(* A step that leaves the session and the goodness of every token alone. *)
LEMMA QuietMaps ==
    ASSUME \A t \in Tokens :
              /\ token'[t].session = token[t].session
              /\ token'[t].state \in {"live", "expired"} <=> token[t].state \in {"live", "expired"}
              /\ token'[t].state = "revoked" <=> token[t].state = "revoked"
    PROVE  UNCHANGED Chains!varsChains
<1>1. SpentTokens' = SpentTokens
  BY DEF SpentTokens
<1>2. \A s \in Sessions : GoodAllIn(token', s) = GoodAllIn(token, s)
  BY DEF GoodAllIn, SessionIn
<1>3. \A s \in Sessions : GoodIn(token', s) = GoodIn(token, s)
  BY <1>2 DEF GoodIn
<1> QED BY <1>1, <1>3, Mapped DEF Chains!varsChains

LEMMA FirstTokenMaps ==
    ASSUME ChainInv, NEW h \in Handlers, NEW t \in Tokens, FirstToken(h, t)
    PROVE  Chains!NextChains
<1> DEFINE c == handler[h].code
           fresh == [state |-> "live", session |-> c]
<1>1. handler \in [Handlers -> Handling] /\ token \in [Tokens -> TokenRow]
  BY DEF ChainInv, TypeOKOAuth
<1>2. c \in Codes /\ c \in Sessions /\ c # NoToken /\ c \notin Tokens
  BY <1>1, RequestFields, SessionNames DEF FirstToken, Sessions
<1>3. fresh.state = "live" /\ fresh.session = c /\ token' = [token EXCEPT ![t] = fresh]
  BY DEF FirstToken
<1>4. \A u \in Tokens : token[u].session # c
  BY DEF FirstToken, ChainInv, ExchangesOwnTheirCode
<1>5. token[t].state = "free"
  BY DEF FirstToken
<1> HIDE DEF c, fresh
<1>6. token'[t] = fresh /\ \A u \in Tokens : u # t => token'[u] = token[u]
  BY <1>1, <1>3
<1>7. GoodAllIn(token, c) = {} /\ GoodAllIn(token', c) = {t}
  BY <1>2, <1>3, <1>4, <1>6 DEF GoodAllIn, SessionIn
<1>8. \A s \in Sessions : s # c => GoodAllIn(token', s) = GoodAllIn(token, s)
  BY <1>2, <1>3, <1>5, <1>6 DEF GoodAllIn, SessionIn
<1>9. GoodIn(token, c) = NoToken /\ GoodIn(token', c) = t
  BY <1>7, GoodInIs
<1>10. \A s \in Sessions : s # c => GoodIn(token', s) = GoodIn(token, s)
  BY <1>8 DEF GoodIn
<1>11. SpentTokens' = SpentTokens
  BY <1>3, <1>5, <1>6 DEF SpentTokens
<1>12. t \notin SpentTokens /\ \A s \in Sessions : GoodIn(token, s) # t
  BY <1>5, FreeIsUnused
<1>13. Chains!Start(c, t)
  <2>1. \A s \in Sessions : GoodToken(s) # t /\ GoodToken(s)' = IF s = c THEN t ELSE GoodToken(s)
    BY <1>9, <1>10, <1>12, Mapped
  <2>2. GoodToken(c) = NoToken
    BY <1>2, <1>9, Mapped
  <2> QED BY <1>2, <1>11, <1>12, <2>1, <2>2 DEF Chains!Start, Chains!Unused
<1> QED BY <1>2, <1>13 DEF Chains!NextChains

LEMMA RotateMaps ==
    ASSUME ChainInv, NEW t \in Tokens, NEW next \in Tokens, RotateToken(t, next)
    PROVE  Chains!NextChains
<1> DEFINE s == SessionOf(t)
           spent == [state |-> "revoked", session |-> s]
           new == [state |-> "live", session |-> s]
<1>1. token \in [Tokens -> TokenRow]
  BY DEF ChainInv, TypeOKOAuth
<1>2. token[t].state = "live" /\ token[next].state = "free" /\ t # next
  BY DEF RotateToken
<1>3. s \in Sessions /\ s # NoToken
  BY <1>2, SessionKnown
<1>4. /\ spent.state = "revoked" /\ spent.session = s /\ new.state = "live" /\ new.session = s
      /\ token' = [token EXCEPT ![t] = spent, ![next] = new]
  BY DEF RotateToken
<1>5. GoodAllIn(token, s) = {t} /\ GoodIn(token, s) = t
  BY <1>2, GoodIsOwn DEF Unrevoked
<1>6. SessionIn(token, t) = s
  BY DEF SessionIn, SessionOf
<1> HIDE DEF s, spent, new
<1>7. token'[t] = spent /\ token'[next] = new /\ \A u \in Tokens \ {t, next} : token'[u] = token[u]
  BY <1>1, <1>2, <1>4
<1>8. SessionIn(token', t) = s /\ SessionIn(token', next) = s
      /\ \A u \in Tokens \ {t, next} : SessionIn(token', u) = SessionIn(token, u)
  <2>1. SessionIn(token', t) = s /\ SessionIn(token', next) = s
    BY <1>3, <1>4, <1>7 DEF SessionIn
  <2>2. \A u \in Tokens \ {t, next} : SessionIn(token', u) = SessionIn(token, u)
    BY <1>7 DEF SessionIn
  <2> QED BY <2>1, <2>2
<1>9. GoodAllIn(token', s) = {next}
  <2>1. \A u \in Tokens : u \in GoodAllIn(token', s) => u = next
    <3> SUFFICES ASSUME NEW u \in Tokens, u \in GoodAllIn(token', s), u # next PROVE FALSE
      OBVIOUS
    <3>1. u # t
      BY <1>4, <1>7 DEF GoodAllIn
    <3>2. token'[u] = token[u] /\ SessionIn(token', u) = SessionIn(token, u)
      BY <1>7, <1>8, <3>1
    <3>3. u \in GoodAllIn(token, s)
      BY <3>2 DEF GoodAllIn
    <3> QED BY <1>5, <3>1, <3>3
  <2>2. next \in GoodAllIn(token', s)
    BY <1>4, <1>7, <1>8 DEF GoodAllIn
  <2>3. GoodAllIn(token', s) \subseteq Tokens
    BY DEF GoodAllIn
  <2> QED BY <2>1, <2>2, <2>3
<1>10. \A r \in Sessions : r # s => GoodAllIn(token', r) = GoodAllIn(token, r)
  BY <1>2, <1>4, <1>6, <1>7, <1>8 DEF GoodAllIn
<1>11. GoodIn(token', s) = next /\ \A r \in Sessions : r # s => GoodIn(token', r) = GoodIn(token, r)
  BY <1>9, <1>10, GoodInIs DEF GoodIn
<1>12. SpentTokens' = SpentTokens \cup {t}
  BY <1>2, <1>4, <1>7 DEF SpentTokens
<1>13. next \notin SpentTokens /\ \A r \in Sessions : GoodIn(token, r) # next
  BY <1>2, FreeIsUnused
<1>14. t # NoToken
  BY SessionNames
<1>15. Chains!Rotate(s, next)
  <2>1. \A r \in Sessions : GoodToken(r) # next /\ GoodToken(r)' = IF r = s THEN next ELSE GoodToken(r)
    BY <1>11, <1>13, Mapped
  <2>2. GoodToken(s) = t
    BY <1>3, <1>5, Mapped
  <2> QED BY <1>3, <1>12, <1>13, <1>14, <2>1, <2>2 DEF Chains!Rotate, Chains!Unused
<1> QED BY <1>3, <1>15 DEF Chains!NextChains

(* A step that revokes a set of issued tokens ends the sessions they are     *)
(* good for; rows that were revoked already end none.                        *)
LEMMA RevokeMaps ==
    ASSUME ChainInv, NEW rows \in SUBSET Tokens,
           \A t \in rows : token[t].state # "free",
           \A t \in Tokens :
              /\ token'[t].session = token[t].session
              /\ token'[t].state = IF t \in rows THEN "revoked" ELSE token[t].state
    PROVE  Chains!NextChains
<1> DEFINE ended == {s \in Sessions : GoodIn(token, s) \in rows}
<1>1. \A s \in ended : GoodIn(token, s) # NoToken
  BY SessionNames
<1>2. \A t \in Tokens : SessionIn(token', t) = SessionIn(token, t)
  BY DEF SessionIn
<1>3. \A s \in ended : GoodIn(token', s) = NoToken
  <2> SUFFICES ASSUME NEW s \in ended PROVE GoodIn(token', s) = NoToken
    OBVIOUS
  <2>1. GoodAllIn(token, s) = {GoodIn(token, s)}
    BY <1>1, GoodIsOwn
  <2>2. GoodAllIn(token', s) = {}
    BY <1>2, <2>1 DEF GoodAllIn
  <2> QED BY <2>2, GoodInIs
<1>4. \A s \in Sessions \ ended : GoodIn(token', s) = GoodIn(token, s)
  <2> SUFFICES ASSUME NEW s \in Sessions \ ended PROVE GoodIn(token', s) = GoodIn(token, s)
    OBVIOUS
  <2>1. \A t \in rows : ~(Unrevoked(t) /\ SessionOf(t) = s)
    BY GoodIsOwn
  <2>2. GoodAllIn(token', s) = GoodAllIn(token, s)
    BY <1>2, <2>1 DEF GoodAllIn, SessionIn, SessionOf, Unrevoked
  <2> QED BY <2>2 DEF GoodIn
<1>5. SpentTokens' = SpentTokens \cup {GoodIn(token, s) : s \in ended}
  <2>1. ASSUME NEW t \in rows PROVE t \in SpentTokens \/ \E s \in ended : t = GoodIn(token, s)
    <3>1. token[t].state \in {"live", "expired", "revoked"}
      BY DEF ChainInv, TypeOKOAuth, TokenRow
    <3>2. CASE token[t].state = "revoked"
      BY <3>2 DEF SpentTokens
    <3>3. CASE Unrevoked(t)
      BY <3>3, GoodIsOwn
    <3> QED BY <3>1, <3>2, <3>3 DEF Unrevoked
  <2>2. \A s \in ended : GoodIn(token, s) \in rows
    OBVIOUS
  <2>3. SpentTokens' = SpentTokens \cup rows
    BY DEF SpentTokens
  <2> HIDE DEF ended
  <2> QED BY <2>1, <2>2, <2>3
<1>6. ended \in SUBSET Sessions
  OBVIOUS
<1> HIDE DEF ended
<1>7. Chains!End(ended)
  <2>1. \A s \in Sessions : GoodToken(s)' = IF s \in ended THEN NoToken ELSE GoodToken(s)
    BY <1>3, <1>4, Mapped
  <2>2. \A s \in ended : GoodToken(s) = GoodIn(token, s)
    BY <1>6, Mapped
  <2>3. SpentTokens' = SpentTokens \cup {GoodToken(s) : s \in ended}
    BY <1>5, <2>2
  <2>4. \A s \in ended : s \in Sessions /\ GoodToken(s) # NoToken
    BY <1>1, <1>6, <2>2
  <2> QED BY <2>1, <2>3, <2>4 DEF Chains!End
<1> QED BY <1>6, <1>7 DEF Chains!NextChains

LEMMA StepMaps ==
    ChainInv /\ [NextOAuth]_varsOAuth => [Chains!NextChains]_(Chains!varsChains)
<1> SUFFICES ASSUME ChainInv, [NextOAuth]_varsOAuth
             PROVE  Chains!NextChains \/ UNCHANGED Chains!varsChains
  OBVIOUS
<1>1. CASE token' = token
  BY <1>1, QuietMaps
<1>2. ASSUME NEW h \in Handlers, NEW t \in Tokens, FirstToken(h, t) PROVE Chains!NextChains
  BY <1>2, FirstTokenMaps
<1>3. ASSUME NEW t \in Tokens, NEW next \in Tokens, RotateToken(t, next) PROVE Chains!NextChains
  BY <1>3, RotateMaps
<1>4. ASSUME NEW t \in Tokens, RefuseExpired(t) PROVE Chains!NextChains
  <2>1. token[t].state = "expired" /\ token' = [token EXCEPT ![t].state = "revoked"]
    BY <1>4 DEF RefuseExpired
  <2>2. /\ token'[t].state = "revoked"
        /\ \A u \in Tokens : token'[u].session = token[u].session /\ (u # t => token'[u] = token[u])
    BY <2>1, RestatedRow
  <2> DEFINE rows == {t}
  <2>3. /\ rows \in SUBSET Tokens /\ \A u \in rows : token[u].state # "free"
        /\ \A u \in Tokens : /\ token'[u].session = token[u].session
                             /\ token'[u].state = IF u \in rows THEN "revoked" ELSE token[u].state
    BY <2>1, <2>2
  <2> HIDE DEF rows
  <2> QED BY <2>3, RevokeMaps
<1>5. ASSUME NEW h \in Handlers, CommitRevocation(h) PROVE Chains!NextChains
  BY <1>5, RevokedRows, RevokeMaps
<1>6. ASSUME NEW t \in Tokens, token[t].state = "live", token' = [token EXCEPT ![t].state = "expired"]
      PROVE  UNCHANGED Chains!varsChains
  <2>1. /\ token'[t].state = "expired"
        /\ \A u \in Tokens : token'[u].session = token[u].session /\ (u # t => token'[u] = token[u])
    BY <1>6, RestatedRow
  <2>2. \A u \in Tokens :
              /\ token'[u].session = token[u].session
              /\ token'[u].state \in {"live", "expired"} <=> token[u].state \in {"live", "expired"}
              /\ token'[u].state = "revoked" <=> token[u].state = "revoked"
    BY <1>6, <2>1
  <2> QED BY <2>2, QuietMaps
<1>7. \/ token' = token
      \/ \E h \in Handlers, t \in Tokens : FirstToken(h, t)
      \/ \E t, next \in Tokens : RotateToken(t, next)
      \/ \E t \in Tokens : RefuseExpired(t)
      \/ \E h \in Handlers : CommitRevocation(h)
      \/ \E t \in Tokens : token[t].state = "live" /\ token' = [token EXCEPT ![t].state = "expired"]
  BY DEF NextOAuth, varsOAuth, Authorize, AuthorizeCode, Exchange, RevokeRefreshToken, LogoutSession,
         LogoutAll, BeginRevocation, HandlerDies, Expire, ExpireRow
<1> QED BY <1>1, <1>2, <1>3, <1>4, <1>5, <1>6, <1>7

(* For any number of logins, tokens and overlapping requests, crashes and    *)
(* expiries included, the refresh tokens of the OAuth server behave like     *)
(* the chains of SessionChains: at most one good token per session, a        *)
(* refresh replaces it in one step, and no rotated or revoked token is good  *)
(* again (api/oauth/endpoints.py).                                           *)
THEOREM OAuthImplementsChains == SpecOAuth => SessionsAreChains
  BY ChainAlways, InitMaps, StepMaps, PTL DEF SpecOAuth, SessionsAreChains, Chains!SpecChains

-----------------------------------------------------------------------------
(* PlanBatches, for any rows, batches, requests and planners.                *)
(*                                                                           *)
(* The argument: a batch and the rows it previewed are tied together by the  *)
(* recorded versions. As long as nobody else changes a row, the recorded     *)
(* version of an open item is the row's version (OpenOK), and once somebody  *)
(* does, the row's version is above it (NewerOK) and the version check of    *)
(* every later apply fails. Only a merge, which may write a version a second *)
(* time, breaks the second half, on the rows it writes.                      *)
(* Which items a planner previews; a new task is the only item of its id.  *)
Shape(k, I) ==
    /\ k = "assignment" => \A i \in I : i[2] = "owner"
    /\ k = "estimate" => \A i \in I : i[2] = "other"
    /\ k \notin Selective => I = {}
    /\ \A i, j \in I : i[1] = j[1] /\ i[2] = "new" => j = i

BatchInv ==
    \A b \in Batches : Stored(b) =>
        Shape(batch[b].kind, batch[b].items) /\ batch[b].applied \subseteq batch[b].items

ReqInv ==
    \A q \in Requests : req[q] # Idle =>
         IF req[q].pc = "previewing" THEN Shape(req[q].kind, req[q].items)
         ELSE Stored(req[q].batch)

(* The applied items are the written ones. *)
WroteInv ==
    \A b \in Batches :
        /\ ~Stored(b) => touched[b] = {} /\ \A i \in Items : wrote[b][i] = 0
        /\ Stored(b) => \A i \in Items :
             wrote[b][i] = IF i \in batch[b].applied THEN 1 ELSE 0

OpenOK(b) ==
    \A i \in batch[b].items \ batch[b].applied :
        i[1] \notin touched[b] => VersionsMatch(b, {i})

NewerOK(b) ==
    \A r \in Records \ merged :
        /\ rec[r].version >= batch[b].base[r]
        /\ r \in touched[b] => rec[r].version > batch[b].base[r]

VersionInv == \A b \in Batches : Stored(b) => OpenOK(b) /\ NewerOK(b)

PlanInv == TypeOK /\ BatchInv /\ ReqInv /\ WroteInv /\ VersionInv /\ DoneMeansDone

-----------------------------------------------------------------------------
(* What the operators return.                                              *)

LEMMA UnbornType == Unborn \in Rows
BY PlanAssumption DEF Unborn, Rows

LEMMA NextRowType ==
  ASSUME NEW image \in Rows, NEW live \in BOOLEAN, NEW c \in [Cells -> Values]
  PROVE  /\ NextRow(image, live, c) \in Rows
         /\ NextRow(image, live, c).version = image.version + 1
         /\ NextRow(image, live, c).live = live
BY DEF NextRow, Rows

LEMMA PatchedType ==
  ASSUME TypeOK, NEW I \in SUBSET Items, NEW v \in Values, NEW always \in BOOLEAN
  PROVE  /\ Patched(I, v, always) \in [Records -> Rows]
         /\ \A r \in Records : 
              /\ r \notin RowsOf(I) => Patched(I, v, always)[r] = rec[r]
              /\ <<r, "new">> \in I => Patched(I, v, always)[r].version = 1
              /\ <<r, "new">> \notin I =>
                   /\ Patched(I, v, always)[r].live = rec[r].live
                   /\ \/ Patched(I, v, always)[r] = rec[r]
                      \/ Patched(I, v, always)[r].version = rec[r].version + 1
<1> DEFINE new(r) == [c \in Cells |-> IF <<r, c>> \in I THEN v ELSE rec[r].cell[c]]
<1>1. ASSUME NEW r \in Records
      PROVE  /\ new(r) \in [Cells -> Values]
             /\ NewRow([c \in Cells |-> v]) \in Rows
             /\ NextRow(rec[r], rec[r].live, new(r)) \in Rows
  <2>1. rec[r] \in Rows
    BY DEF TypeOK
  <2>2. \A c \in Cells : rec[r].cell[c] \in Values
    BY <2>1 DEF Rows
  <2>3. new(r) \in [Cells -> Values]
    BY <2>2
  <2>4. NewRow([c \in Cells |-> v]) \in Rows
    BY DEF NewRow, Rows
  <2> HIDE DEF new
  <2>5. NextRow(rec[r], rec[r].live, new(r)) \in Rows
    BY <2>1, <2>3, NextRowType DEF Rows
  <2> QED
    BY <2>3, <2>4, <2>5
<1>2. ASSUME NEW r \in Records
      PROVE  <<r, "new">> \in I => r \in RowsOf(I)
  BY DEF RowsOf
<1>3. Patched(I, v, always) =
        [r \in Records |->
           IF <<r, "new">> \in I THEN NewRow([c \in Cells |-> v])
           ELSE IF r \in RowsOf(I) /\ (always \/ new(r) # rec[r].cell)
           THEN NextRow(rec[r], rec[r].live, new(r))
           ELSE rec[r]]
  BY DEF Patched
<1> HIDE DEF new
<1>4. Patched(I, v, always) \in [Records -> Rows]
  BY <1>1, <1>3 DEF TypeOK
<1>5. ASSUME NEW r \in Records
      PROVE  /\ r \notin RowsOf(I) => Patched(I, v, always)[r] = rec[r]
             /\ <<r, "new">> \in I => Patched(I, v, always)[r].version = 1
             /\ <<r, "new">> \notin I =>
                   /\ Patched(I, v, always)[r].live = rec[r].live
                   /\ \/ Patched(I, v, always)[r] = rec[r]
                      \/ Patched(I, v, always)[r].version = rec[r].version + 1
  <2>1. rec[r] \in Rows
    BY DEF TypeOK
  <2>2. NewRow([c \in Cells |-> v]).version = 1
    BY DEF NewRow
  <2>3. /\ NextRow(rec[r], rec[r].live, new(r)).version = rec[r].version + 1
        /\ NextRow(rec[r], rec[r].live, new(r)).live = rec[r].live
    BY <2>1 DEF NextRow
  <2>4. Patched(I, v, always)[r] =
           IF <<r, "new">> \in I THEN NewRow([c \in Cells |-> v])
           ELSE IF r \in RowsOf(I) /\ (always \/ new(r) # rec[r].cell)
           THEN NextRow(rec[r], rec[r].live, new(r))
           ELSE rec[r]
    BY <1>3
  <2>5. CASE <<r, "new">> \in I
    BY <1>2, <2>2, <2>4, <2>5
  <2>6. CASE <<r, "new">> \notin I
    BY <2>3, <2>4, <2>6
  <2> QED
    BY <2>5, <2>6
<1> QED
  BY <1>4, <1>5

LEMMA FilledType ==
  ASSUME NEW image \in Rows, NEW v \in Values
  PROVE  Filled(image, v) \in Rows
<1> DEFINE new == [c \in Cells |-> IF image.cell[c] = NoVal THEN v ELSE image.cell[c]]
<1>1. new \in [Cells -> Values]
  BY DEF Rows
<1>2. Filled(image, v) = IF new = image.cell THEN image
                       ELSE NextRow(image, image.live, new)
  BY DEF Filled
<1> HIDE DEF new
<1> QED
  BY <1>1, <1>2, NextRowType DEF Rows

LEMMA FailedStatusType ==
  ASSUME NEW b \in Batches, NEW p \in Plan, NEW s \in Status, NEW some \in BOOLEAN,
         FailedStatus(p.kind, s, some) # s
  PROVE  FailedStatus(p.kind, s, some) \in Status \ Done
BY DEF FailedStatus, ActionFailure, AssignmentFailure, EstimateFailure,
       TasksFailure, DesignFailure, Status, Plan, Done

LEMMA NewPlanType ==
  ASSUME TypeOK, NEW k \in {"action", "assignment", "estimate", "tasks", "design"},
         NEW I \in SUBSET Items, NEW o \in [Records -> Values],
         NEW v \in Values, NEW s \in Sources
  PROVE  NewPlan(k, I, o, v, s) \in Plan
BY DEF NewPlan, Plan, Status, TypeOK, Rows

-----------------------------------------------------------------------------
(* Rows change under a batch c that did not write them.                    *)

LEMMA OthersRows ==
  ASSUME TypeOK, NEW c \in Batches, Stored(c), OpenOK(c), NewerOK(c),
         batch[c].items \in SUBSET Items,
         NEW b, c # b, NEW rows \in [Records -> Rows], WriteRows(b, rows),
         batch'[c].items = batch[c].items, batch'[c].applied = batch[c].applied,
         batch'[c].base = batch[c].base, merged \subseteq merged',
         \A r \in Records \ merged' :
             rows[r] = rec[r] \/ rows[r].version > rec[r].version
  PROVE  OpenOK(c)' /\ NewerOK(c)'
<1>1. rec' = rows
  BY DEF WriteRows
<1>2. touched'[c] = touched[c] \cup {r \in RowsOf(batch[c].items) : rows[r] # rec[r]}
  BY DEF WriteRows, Stored
<1>3. OpenOK(c)'
  <2>1. SUFFICES ASSUME NEW i \in batch[c].items \ batch[c].applied, i[1] \notin touched'[c]
                 PROVE  VersionsMatch(c, {i})'
    BY DEF OpenOK
  <2>2. i[1] \in RowsOf(batch[c].items)
    BY DEF RowsOf
  <2>3. i[1] \notin touched[c] /\ rows[i[1]] = rec[i[1]]
    BY <1>2, <2>1, <2>2
  <2>4. VersionsMatch(c, {i})
    BY <2>3 DEF OpenOK
  <2> QED
    BY <1>1, <2>3, <2>4 DEF VersionsMatch
<1>4. NewerOK(c)'
  <2>1. SUFFICES ASSUME NEW r \in Records \ merged'
                 PROVE  /\ rec'[r].version >= batch'[c].base[r]
                        /\ r \in touched'[c] => rec'[r].version > batch'[c].base[r]
    BY DEF NewerOK
  <2>2. batch[c] \in Plan
    BY DEF TypeOK, Stored
  <2>3. rec[r].version \in Nat /\ rows[r].version \in Nat /\ batch[c].base[r] \in Nat
    BY <2>2 DEF TypeOK, Rows, Plan
  <2>4. /\ rec[r].version >= batch[c].base[r]
        /\ r \in touched[c] => rec[r].version > batch[c].base[r]
    BY <2>1 DEF NewerOK
  <2>5. rows[r] = rec[r] \/ rows[r].version > rec[r].version
    BY <2>1
  <2>6. r \in touched'[c] => r \in touched[c] \/ rows[r] # rec[r]
    BY <1>2
  <2> QED
    BY <1>1, <2>3, <2>4, <2>5, <2>6
<1> QED
  BY <1>3, <1>4

-----------------------------------------------------------------------------
(* Type correctness. *)

LEMMA TypeInit == Init => TypeOK
<1>1. NewRow([c \in Cells |-> NoVal]) \in Rows
  BY PlanAssumption DEF NewRow, Rows
<1> QED
  BY <1>1, UnbornType DEF Init, TypeOK

LEMMA TypeWriteRows ==
  ASSUME TypeOK, NEW b, NEW rows \in [Records -> Rows], WriteRows(b, rows)
  PROVE  rec' \in [Records -> Rows] /\ touched' \in [Batches -> SUBSET Records]
<1>1. ASSUME NEW c \in Batches, Stored(c)
      PROVE  RowsOf(batch[c].items) \subseteq Records
  BY <1>1 DEF TypeOK, Stored, Plan, RowsOf, Items
<1> QED
  BY <1>1 DEF TypeOK, WriteRows

LEMMA TypePeople ==
  ASSUME TypeOK, NEW r \in Records,
         \/ \E c \in Cells, v \in Values : EditCell(r, c, v)
         \/ DeleteRow(r) \/ RestoreRow(r)
  PROVE  /\ TypeOK'
         /\ \E rows \in [Records -> Rows] :
              /\ WriteRows(NoBatch, rows)
              /\ \A s \in Records : rows[s] = rec[s] \/ rows[s].version > rec[s].version
<1>1. rec[r] \in Rows
  BY DEF TypeOK
<1>2. ASSUME NEW live \in BOOLEAN, NEW c \in [Cells -> Values],
             WriteRows(NoBatch, [rec EXCEPT ![r] = NextRow(rec[r], live, c)]),
             UNCHANGED <<batch, lock, req, made, wrote, merged>>
      PROVE  /\ TypeOK'
             /\ \E rows \in [Records -> Rows] :
                  /\ WriteRows(NoBatch, rows)
                  /\ \A s \in Records : rows[s] = rec[s] \/ rows[s].version > rec[s].version
  <2> DEFINE rows == [rec EXCEPT ![r] = NextRow(rec[r], live, c)]
  <2>1. rows \in [Records -> Rows]
    BY <1>1, NextRowType DEF TypeOK
  <2>2. \A s \in Records : rows[s] = rec[s] \/ rows[s].version > rec[s].version
    BY <1>1, NextRowType DEF TypeOK, Rows
  <2>3. rec' \in [Records -> Rows] /\ touched' \in [Batches -> SUBSET Records]
    BY <1>2, <2>1, TypeWriteRows
  <2>4. TypeOK'
    BY <1>2, <2>3 DEF TypeOK
  <2> QED
    BY <1>2, <2>1, <2>2, <2>4
<1>3. ASSUME NEW c \in Cells, NEW v \in Values, EditCell(r, c, v)
      PROVE  \E d \in [Cells -> Values] :
               /\ WriteRows(NoBatch, [rec EXCEPT ![r] = NextRow(rec[r], TRUE, d)])
               /\ UNCHANGED <<batch, lock, req, made, wrote, merged>>
  <2>1. [rec[r].cell EXCEPT ![c] = v] \in [Cells -> Values]
    BY <1>1 DEF Rows
  <2> QED
    BY <1>3, <2>1 DEF EditCell
<1>4. rec[r].cell \in [Cells -> Values]
  BY <1>1 DEF Rows
<1>5. CASE DeleteRow(r)
  BY <1>2, <1>4, <1>5 DEF DeleteRow
<1>6. CASE RestoreRow(r)
  BY <1>2, <1>4, <1>6 DEF RestoreRow
<1> QED
  BY <1>2, <1>3, <1>5, <1>6

LEMMA TypeRead ==
  ASSUME TypeOK, NEW q \in Requests,
         ReadForActions(q) \/ ReadForAssignment(q) \/ ReadForEstimates(q)
  PROVE  TypeOK'
<1>1. ASSUME NEW k \in Selective, NEW I \in SUBSET (Records \X Cells), NEW o \in [Records -> Values],
             BeginPreview(q, k, I, o)
      PROVE  TypeOK'
  <2>1. [pc |-> "previewing", kind |-> k, items |-> I, owners |-> o] \in Request
    BY DEF Request
  <2> QED
    BY <1>1, <2>1 DEF TypeOK, BeginPreview, history
<1>2. NoOwners \in [Records -> Values]
  BY PlanAssumption DEF NoOwners
<1>3. CASE ReadForActions(q)
  <2>1. {i \in Records \X Cells : rec[i[1]].live} \subseteq Records \X Cells
    OBVIOUS
  <2> QED
    BY <1>1, <1>2, <1>3, <2>1 DEF ReadForActions, Selective
<1>4. CASE ReadForAssignment(q)
  <2>0. PICK preserve \in BOOLEAN : \E I \in (SUBSET OpenTasks(preserve)) \ {{}} :
          BeginPreview(q, "assignment", I,
            [r \in Records |-> IF r \in RowsOf(I) THEN rec[r].cell["owner"] ELSE NoVal])
    BY <1>4 DEF ReadForAssignment
  <2>1. PICK I \in SUBSET OpenTasks(preserve) :
          BeginPreview(q, "assignment", I,
            [r \in Records |-> IF r \in RowsOf(I) THEN rec[r].cell["owner"] ELSE NoVal])
    BY <2>0
  <2>2. I \subseteq Records \X Cells
    BY DEF OpenTasks, Cells
  <2>3. [r \in Records |-> IF r \in RowsOf(I) THEN rec[r].cell["owner"] ELSE NoVal]
          \in [Records -> Values]
    BY PlanAssumption DEF TypeOK, Rows, Cells
  <2> QED
    BY <1>1, <2>1, <2>2, <2>3 DEF Selective
<1>5. CASE ReadForEstimates(q)
  <2>1. {i \in Records \X {"other"} : rec[i[1]].live} \subseteq Records \X Cells
    BY DEF Cells
  <2> QED
    BY <1>1, <1>2, <1>5, <2>1 DEF ReadForEstimates, Selective
<1> QED
  BY <1>3, <1>4, <1>5

LEMMA TypePreview ==
  ASSUME TypeOK, NEW q \in Requests, NEW b \in Batches, Preview(q, b)
  PROVE  TypeOK'
<1>1. ASSUME NEW k \in Selective, NEW I \in SUBSET Items, StorePreview(q, b, k, I)
      PROVE  TypeOK'
  <2>1. req[q] \in Request /\ req[q].pc = "previewing"
    BY <1>1 DEF StorePreview, TypeOK
  <2>2. req[q].owners \in [Records -> Values]
    BY <2>1 DEF Request
  <2>3. PICK v \in Values, s \in Sources :
          batch' = [batch EXCEPT ![b] = NewPlan(k, I, req[q].owners, v, s)]
    BY <1>1 DEF StorePreview
  <2>4. NewPlan(k, I, req[q].owners, v, s) \in Plan
    BY <2>2, NewPlanType DEF Selective
  <2>5. batch' \in [Batches -> Plan \cup {NoBatch}]
    BY <2>3, <2>4 DEF TypeOK
  <2> QED
    BY <1>1, <2>5 DEF StorePreview, TypeOK, history
<1>2. ASSUME req[q] # Idle, req[q].pc = "previewing"
      PROVE  req[q].items \in SUBSET Items /\ StillThere(req[q].items) \in SUBSET Items
  BY <1>2 DEF TypeOK, Request, StillThere, Items
<1>3. ASSUME NEW k \in {"tasks", "design"}, PreviewWhole(q, b, k)
      PROVE  TypeOK'
  <2>1. NoOwners \in [Records -> Values]
    BY PlanAssumption DEF NoOwners
  <2>2. PICK v \in Values, s \in Sources :
          batch' = [batch EXCEPT ![b] = NewPlan(k, {}, NoOwners, v, s)]
    BY <1>3 DEF PreviewWhole
  <2>3. NewPlan(k, {}, NoOwners, v, s) \in Plan
    BY <2>1, NewPlanType
  <2> QED
    BY <1>3, <2>2, <2>3 DEF PreviewWhole, TypeOK, history
<1>4. CASE StoreActions(q, b)
  <2>1. \A I \in ActionDrafts(req[q].items) : I \subseteq Items
    BY <1>2, <1>4 DEF StoreActions, ActionDrafts, Items
  <2> QED
    BY <1>1, <1>4, <2>1 DEF StoreActions, Selective
<1>5. CASE StoreAssignments(q, b)
  BY <1>1, <1>2, <1>5 DEF StoreAssignments, Selective
<1>6. CASE StoreEstimates(q, b)
  BY <1>1, <1>2, <1>6 DEF StoreEstimates, Selective
<1>7. CASE PreviewTasks(q, b) \/ PreviewDesign(q, b)
  BY <1>3, <1>7 DEF PreviewTasks, PreviewDesign
<1> QED
  BY <1>4, <1>5, <1>6, <1>7 DEF Preview

(* Every selective apply is a Commit of patched rows whose versions match. *)
LEMMA ApplyIsCommit ==
  ASSUME TypeOK, NEW q \in Requests, NEW b \in Batches, NEW S \in SUBSET Items,
         ApplyActions(q, b, S) \/ ApplyAssignments(q, b, S) \/ ApplyEstimates(q, b, S)
  PROVE  /\ Stored(b) /\ batch[b] \in Plan /\ batch[b].kind \in Selective
         /\ \E I \in SUBSET Items, v \in Values, always \in BOOLEAN :
              LET rows == Patched(I, v, always)
                  base == IF batch[b].kind = "action" THEN AdvanceVersions(b, I, rows)
                          ELSE batch[b].base
              IN  /\ I \subseteq batch[b].items \ batch[b].applied
                  /\ VersionsMatch(b, I)
                  /\ Commit(b, I, rows, base)
<1> DEFINE I == Pending(b, S)
<1>1. /\ Stored(b) /\ batch[b].kind \in Selective /\ S \subseteq batch[b].items
      /\ VersionsMatch(b, I)
  BY DEF ApplyActions, ApplyAssignments, ApplyEstimates, MayApply, Selective
<1>2. batch[b] \in Plan
  BY <1>1 DEF TypeOK, Stored
<1>3. I \in SUBSET Items /\ I \subseteq batch[b].items \ batch[b].applied
  BY <1>1 DEF Pending
<1>4. batch[b].val \in Values /\ TRUE \in BOOLEAN /\ FALSE \in BOOLEAN
  BY <1>2 DEF Plan
<1>5. CASE ApplyActions(q, b, S)
  <2>1. batch[b].kind = "action"
    BY <1>5 DEF ApplyActions, MayApply
  <2>2. Commit(b, I, Patched(I, batch[b].val, FALSE),
               AdvanceVersions(b, I, Patched(I, batch[b].val, FALSE)))
    BY <1>5 DEF ApplyActions
  <2> HIDE DEF I
  <2> QED
    BY <1>1, <1>2, <1>3, <1>4, <2>1, <2>2
<1>6. CASE ApplyAssignments(q, b, S)
  <2>1. batch[b].kind = "assignment"
    BY <1>6 DEF ApplyAssignments, MayApply
  <2>2. PICK v \in Values : Commit(b, I, Patched(I, v, FALSE), batch[b].base)
    BY <1>6 DEF ApplyAssignments, Recommended
  <2> HIDE DEF I
  <2> QED
    BY <1>1, <1>2, <1>3, <1>4, <2>1, <2>2
<1>7. CASE ApplyEstimates(q, b, S)
  <2>1. batch[b].kind = "estimate"
    BY <1>7 DEF ApplyEstimates, MayApply
  <2>2. Commit(b, I, Patched(I, batch[b].val, TRUE), batch[b].base)
    BY <1>7 DEF ApplyEstimates
  <2> HIDE DEF I
  <2> QED
    BY <1>1, <1>2, <1>3, <1>4, <2>1, <2>2
<1> QED
  BY <1>5, <1>6, <1>7

LEMMA CommitFacts ==
  ASSUME TypeOK, NEW b \in Batches, Stored(b), NEW I \in SUBSET Items,
         NEW rows \in [Records -> Rows], NEW base \in [Records -> Nat],
         Commit(b, I, rows, base)
  PROVE  /\ TypeOK'
         /\ \A c \in Batches : Stored(c)' <=> Stored(c)
         /\ \A c \in Batches : c # b => batch'[c] = batch[c]
         /\ batch'[b].items = batch[b].items /\ batch'[b].kind = batch[b].kind
         /\ batch'[b].src = batch[b].src /\ batch'[b].base = base
         /\ batch'[b].applied = batch[b].applied \cup I
         /\ batch'[b].status = ReachedStatus(batch[b].items, batch[b].applied \cup I)
<1>1. batch[b] \in Plan
  BY DEF TypeOK, Stored
<1>2. batch[b].applied \cup I \in SUBSET Items
  BY <1>1 DEF Plan
<1>3. ReachedStatus(batch[b].items, batch[b].applied \cup I) \in Status
  BY DEF ReachedStatus, Status
<1> DEFINE p == [batch[b] EXCEPT
              !.applied = batch[b].applied \cup I, !.base = base,
              !.status = ReachedStatus(batch[b].items, batch[b].applied \cup I)]
<1>4. batch' = [batch EXCEPT ![b] = p]
  BY DEF Commit
<1>5. /\ p \in Plan /\ p.items = batch[b].items /\ p.kind = batch[b].kind
      /\ p.src = batch[b].src /\ p.base = base /\ p.applied = batch[b].applied \cup I
      /\ p.status = ReachedStatus(batch[b].items, batch[b].applied \cup I)
  BY <1>1, <1>2, <1>3 DEF Plan
<1> HIDE DEF p
<1>6. batch' \in [Batches -> Plan \cup {NoBatch}] /\ batch'[b] = p
      /\ \A c \in Batches : c # b => batch'[c] = batch[c]
  BY <1>4, <1>5 DEF TypeOK
<1>7. \A c \in Batches : Stored(c)' <=> Stored(c)
  BY <1>5, <1>6, SentinelsDiffer DEF Stored
<1>8. rec' \in [Records -> Rows] /\ touched' \in [Batches -> SUBSET Records]
  BY TypeWriteRows DEF Commit
<1>9. wrote' \in [Batches -> [Items -> Nat]]
  <2>1. wrote[b] \in [Items -> Nat]
    BY DEF TypeOK
  <2>2. [i \in Items |-> wrote[b][i] + IF i \in I THEN 1 ELSE 0] \in [Items -> Nat]
    BY <2>1
  <2>3. wrote' = [wrote EXCEPT ![b] =
                    [i \in Items |-> wrote[b][i] + IF i \in I THEN 1 ELSE 0]]
    BY DEF Commit
  <2> QED
    BY <2>2, <2>3 DEF TypeOK
<1>10. TypeOK'
  BY <1>6, <1>8, <1>9 DEF TypeOK, Commit
<1> QED
  BY <1>5, <1>6, <1>7, <1>10

LEMMA AdvanceType ==
  ASSUME TypeOK, NEW b \in Batches, batch[b] \in Plan, NEW I \in SUBSET Items,
         NEW rows \in [Records -> Rows]
  PROVE  AdvanceVersions(b, I, rows) \in [Records -> Nat] /\ batch[b].base \in [Records -> Nat]
BY DEF AdvanceVersions, Plan, Rows

(* Only the status of stored batches changes. *)
StatusOnly ==
    \A c \in Batches :
        /\ Stored(c)' <=> Stored(c)
        /\ Stored(c) => /\ batch'[c] \in Plan
                        /\ batch'[c].kind = batch[c].kind /\ batch'[c].src = batch[c].src
                        /\ batch'[c].items = batch[c].items
                        /\ batch'[c].applied = batch[c].applied
                        /\ batch'[c].base = batch[c].base

LEMMA SetStatus ==
  ASSUME TypeOK, NEW b \in Batches, Stored(b), NEW s \in Status,
         batch' = [batch EXCEPT ![b].status = s]
  PROVE  /\ StatusOnly
         /\ batch' \in [Batches -> Plan \cup {NoBatch}]
         /\ batch'[b].status = s
         /\ \A c \in Batches : c # b => batch'[c] = batch[c]
<1>1. batch[b] \in Plan
  BY DEF TypeOK, Stored
<1>2. \A c \in Batches : Stored(c) => batch[c] \in Plan
  BY DEF TypeOK, Stored
<1> DEFINE p == [batch[b] EXCEPT !.status = s]
<1>3. /\ p \in Plan /\ p.items = batch[b].items /\ p.kind = batch[b].kind
      /\ p.src = batch[b].src /\ p.base = batch[b].base
      /\ p.applied = batch[b].applied /\ p.status = s
  BY <1>1 DEF Plan
<1>4. batch' = [batch EXCEPT ![b] = p]
  OBVIOUS
<1> HIDE DEF p
<1>5. batch' \in [Batches -> Plan \cup {NoBatch}] /\ batch'[b] = p
      /\ \A c \in Batches : c # b => batch'[c] = batch[c]
  <2>1. batch \in [Batches -> Plan \cup {NoBatch}] /\ p \in Plan
    BY <1>3 DEF TypeOK
  <2> QED
    BY ONLY <2>1, <1>4, b \in Batches
<1>6. StatusOnly
  BY <1>2, <1>3, <1>5, SentinelsDiffer DEF StatusOnly, Stored
<1> QED
  BY <1>3, <1>5, <1>6

LEMMA SameBatches ==
  ASSUME TypeOK, UNCHANGED batch
  PROVE  StatusOnly
BY DEF StatusOnly, Stored, TypeOK

(* The request's steps that write no row. *)
LEMMA TypeBegin ==
  ASSUME TypeOK, NEW q \in Requests, NEW b \in Batches,
         \/ ApplyFails(q, b) \/ BeginDesign(q, b)
         \/ \E repeat \in BOOLEAN : BeginTasks(q, b, repeat)
  PROVE  TypeOK' /\ UNCHANGED <<rec, batch, history>> /\ Stored(b)
         /\ \E x \in Request : req' = [req EXCEPT ![q] = x] /\ x.pc # "previewing" /\ x.batch = b
<1>1. ASSUME NEW k, NEW x \in Request, x.pc # "previewing", x.batch = b,
             BeginCreate(q, b, k, x)
      PROVE  TypeOK' /\ UNCHANGED <<rec, batch, history>> /\ Stored(b)
             /\ \E y \in Request :
                  req' = [req EXCEPT ![q] = y] /\ y.pc # "previewing" /\ y.batch = b
  <2>1. req' = [req EXCEPT ![q] = x] /\ UNCHANGED <<rec, batch, history>> /\ Stored(b)
    BY <1>1 DEF BeginCreate
  <2>2. lock' \in [Batches -> Requests \cup {Idle}]
    BY <1>1 DEF BeginCreate, TypeOK
  <2>3. TypeOK'
    BY <2>1, <2>2 DEF TypeOK, history
  <2> QED
    BY <1>1, <2>1, <2>3
<1>2. CASE ApplyFails(q, b)
  <2> DEFINE x == [pc |-> "failed", batch |-> b]
  <2>1. x \in Request /\ x.pc # "previewing" /\ x.batch = b
    BY DEF Request
  <2>2. req' = [req EXCEPT ![q] = x] /\ UNCHANGED <<rec, batch, lock, history>> /\ Stored(b)
    BY <1>2 DEF ApplyFails
  <2> HIDE DEF x
  <2>3. TypeOK'
    BY <2>1, <2>2 DEF TypeOK, history
  <2> QED
    BY <2>1, <2>2, <2>3
<1>3. CASE BeginDesign(q, b)
  <2> DEFINE x == [pc |-> "creating", batch |-> b, into |-> NoRec, row |-> Unborn]
  <2>1. x \in Request /\ x.pc # "previewing" /\ x.batch = b
    BY UnbornType DEF Request
  <2>2. BeginCreate(q, b, "design", x)
    BY <1>3 DEF BeginDesign
  <2> HIDE DEF x
  <2> QED
    BY <1>1, <2>1, <2>2
<1>4. ASSUME NEW repeat \in BOOLEAN, BeginTasks(q, b, repeat)
      PROVE  \E x \in Request : x.pc # "previewing" /\ x.batch = b
                               /\ BeginCreate(q, b, "tasks", x)
  <2> DEFINE x == [pc |-> "decided", batch |-> b]
  <2>1. x \in Request /\ x.pc # "previewing" /\ x.batch = b
    BY DEF Request
  <2>2. BeginCreate(q, b, "tasks", x)
    BY <1>4 DEF BeginTasks
  <2> HIDE DEF x
  <2> QED
    BY <2>1, <2>2
<1> QED
  BY <1>1, <1>2, <1>3, <1>4

-----------------------------------------------------------------------------
(* The invariant under steps that leave the rows alone. *)

DoneOK(b) ==
    Stored(b) /\ batch[b].status \in Done =>
        IF batch[b].kind \in Selective
        THEN \A i \in batch[b].items : wrote[b][i] > 0
        ELSE \E c \in Batches :
               /\ Stored(c) /\ made[c] > 0
               /\ batch[c].kind = batch[b].kind
               /\ c = b \/ batch[c].src = batch[b].src

LEMMA DoneIsDone == DoneMeansDone <=> \A b \in Batches : DoneOK(b)
BY DEF DoneMeansDone, DoneOK

LEMMA QuietInv ==
  ASSUME PlanInv, StatusOnly, UNCHANGED <<rec, wrote, touched, merged>>
  PROVE  BatchInv' /\ WroteInv' /\ VersionInv'
<1>1. BatchInv'
  BY DEF PlanInv, BatchInv, StatusOnly
<1>2. WroteInv'
  BY DEF PlanInv, WroteInv, StatusOnly
<1>3. VersionInv'
  <2>1. SUFFICES ASSUME NEW b \in Batches, Stored(b)'
                 PROVE  OpenOK(b)' /\ NewerOK(b)'
    BY DEF VersionInv
  <2>2. /\ Stored(b) /\ batch'[b].items = batch[b].items
        /\ batch'[b].applied = batch[b].applied /\ batch'[b].base = batch[b].base
    BY <2>1 DEF StatusOnly
  <2>3. OpenOK(b) /\ NewerOK(b)
    BY <2>2 DEF PlanInv, VersionInv
  <2>4. OpenOK(b)'
    BY <2>2, <2>3 DEF OpenOK, VersionsMatch
  <2>5. NewerOK(b)'
    BY <2>2, <2>3 DEF NewerOK
  <2> QED
    BY <2>4, <2>5
<1> QED
  BY <1>1, <1>2, <1>3

(* What a batch has done stays done. *)
LEMMA DoneKept ==
  ASSUME PlanInv, NEW b \in Batches,
         \A c \in Batches : Stored(c) =>
             /\ Stored(c)' /\ batch'[c].kind = batch[c].kind
             /\ batch'[c].src = batch[c].src /\ made'[c] >= made[c],
         Stored(b), batch'[b].items = batch[b].items, made' \in [Batches -> Nat],
         \A i \in batch[b].items : wrote[b][i] > 0 => wrote'[b][i] > 0,
         batch'[b].status \in Done => batch[b].status \in Done
  PROVE  DoneOK(b)'
<1>1. SUFFICES ASSUME batch'[b].status \in Done
               PROVE  IF batch'[b].kind \in Selective
                      THEN \A i \in batch'[b].items : wrote'[b][i] > 0
                      ELSE \E c \in Batches :
                             /\ Stored(c)' /\ made'[c] > 0
                             /\ batch'[c].kind = batch'[b].kind
                             /\ c = b \/ batch'[c].src = batch'[b].src
  BY DEF DoneOK
<1>2. DoneOK(b) /\ batch[b].status \in Done
  BY <1>1, DoneIsDone DEF PlanInv
<1>3. CASE batch[b].kind \in Selective
  BY <1>2, <1>3 DEF DoneOK
<1>4. CASE batch[b].kind \notin Selective
  <2>1. PICK c \in Batches :
          /\ Stored(c) /\ made[c] > 0
          /\ batch[c].kind = batch[b].kind
          /\ c = b \/ batch[c].src = batch[b].src
    BY <1>2, <1>4 DEF DoneOK
  <2>2. made[c] \in Nat /\ made'[c] \in Nat
    BY DEF PlanInv, TypeOK
  <2>3. made'[c] > 0
    BY <2>1, <2>2
  <2> QED
    BY <1>4, <2>1, <2>3
<1> QED
  BY <1>3, <1>4

LEMMA SetReq ==
  ASSUME PlanInv, NEW q \in Requests, NEW x \in Request \cup {Idle},
         req' = [req EXCEPT ![q] = x],
         \A c \in Batches : Stored(c) => Stored(c)',
         x = Idle \/ (IF x.pc = "previewing" THEN Shape(x.kind, x.items) ELSE Stored(x.batch))
  PROVE  ReqInv'
<1>1. SUFFICES ASSUME NEW p \in Requests, req'[p] # Idle
               PROVE  IF req'[p].pc = "previewing" THEN Shape(req'[p].kind, req'[p].items)
                      ELSE batch'[req'[p].batch] # NoBatch
  BY DEF ReqInv, Stored
<1>2. req'[p] \in Request /\ (req'[p] = req[p] \/ req'[p] = x)
  BY <1>1 DEF PlanInv, TypeOK
<1>3. req'[p].pc # "previewing" => req'[p].batch \in Batches
  BY <1>2 DEF Request
<1>4. IF req'[p].pc = "previewing" THEN Shape(req'[p].kind, req'[p].items)
      ELSE Stored(req'[p].batch)
  BY <1>1, <1>2 DEF PlanInv, ReqInv
<1>5. req'[p].pc # "previewing" => batch'[req'[p].batch] # NoBatch
  BY <1>3, <1>4 DEF Stored
<1> QED
  BY <1>4, <1>5

(* A step of request q that changes neither rows nor batches. *)
LEMMA RequestStep ==
  ASSUME PlanInv, TypeOK', UNCHANGED <<rec, batch, history>>,
         NEW q \in Requests, NEW x \in Request \cup {Idle}, req' = [req EXCEPT ![q] = x],
         x = Idle \/ (IF x.pc = "previewing" THEN Shape(x.kind, x.items) ELSE Stored(x.batch))
  PROVE  PlanInv'
<1>1. StatusOnly
  BY SameBatches DEF PlanInv
<1>2. BatchInv' /\ WroteInv' /\ VersionInv'
  BY <1>1, QuietInv DEF history
<1>3. \A c \in Batches : Stored(c) => Stored(c)'
  BY DEF Stored
<1>4. ReqInv'
  BY <1>3, SetReq
<1>5. DoneMeansDone'
  BY DEF PlanInv, DoneMeansDone, Stored, history
<1> QED
  BY <1>2, <1>4, <1>5 DEF PlanInv

LEMMA ReadStep ==
  ASSUME PlanInv, NEW q \in Requests,
         ReadForActions(q) \/ ReadForAssignment(q) \/ ReadForEstimates(q)
  PROVE  PlanInv'
<1>1. TypeOK'
  BY TypeRead DEF PlanInv
<1>2. ASSUME NEW k \in Selective, NEW I \in SUBSET Items, NEW o, Shape(k, I),
             BeginPreview(q, k, I, o)
      PROVE  PlanInv'
  <2> DEFINE x == [pc |-> "previewing", kind |-> k, items |-> I, owners |-> o]
  <2>1. req' = [req EXCEPT ![q] = x] /\ UNCHANGED <<rec, batch, history>>
    BY <1>2 DEF BeginPreview
  <2>2. x.pc = "previewing" /\ x.kind = k /\ x.items = I
    OBVIOUS
  <2> HIDE DEF x
  <2>3. x = req'[q] /\ req'[q] \in Request \cup {Idle}
    BY <1>1, <2>1 DEF TypeOK, PlanInv
  <2> QED
    BY <1>1, <1>2, <2>1, <2>2, <2>3, RequestStep
<1>3. CASE ReadForActions(q)
  <2>1. PICK I \in SUBSET {i \in Records \X Cells : rec[i[1]].live} :
          BeginPreview(q, "action", I, NoOwners)
    BY <1>3 DEF ReadForActions
  <2>2. Shape("action", I) /\ I \subseteq Items
    BY DEF Shape, Selective, Items, Cells
  <2> QED
    BY <1>2, <2>1, <2>2 DEF Selective
<1>4. CASE ReadForAssignment(q)
  <2>0. PICK preserve \in BOOLEAN : \E I \in (SUBSET OpenTasks(preserve)) \ {{}} :
          BeginPreview(q, "assignment", I,
            [r \in Records |-> IF r \in RowsOf(I) THEN rec[r].cell["owner"] ELSE NoVal])
    BY <1>4 DEF ReadForAssignment
  <2>1. PICK I \in SUBSET OpenTasks(preserve) :
          BeginPreview(q, "assignment", I,
            [r \in Records |-> IF r \in RowsOf(I) THEN rec[r].cell["owner"] ELSE NoVal])
    BY <2>0
  <2>2. Shape("assignment", I) /\ I \subseteq Items
    BY DEF Shape, Selective, OpenTasks, Items, Cells
  <2> QED
    BY <1>2, <2>1, <2>2 DEF Selective
<1>5. CASE ReadForEstimates(q)
  <2>1. PICK I \in SUBSET {i \in Records \X {"other"} : rec[i[1]].live} :
          BeginPreview(q, "estimate", I, NoOwners)
    BY <1>5 DEF ReadForEstimates
  <2>2. Shape("estimate", I) /\ I \subseteq Items
    BY DEF Shape, Selective, Items, Cells
  <2> QED
    BY <1>2, <2>1, <2>2 DEF Selective
<1> QED
  BY <1>3, <1>4, <1>5

LEMMA BeginStep ==
  ASSUME PlanInv, NEW q \in Requests, NEW b \in Batches,
         \/ ApplyFails(q, b) \/ BeginDesign(q, b)
         \/ \E repeat \in BOOLEAN : BeginTasks(q, b, repeat)
  PROVE  PlanInv'
BY TypeBegin, RequestStep DEF PlanInv

-----------------------------------------------------------------------------
(* People and previews.                                                    *)

LEMMA PeopleStep ==
  ASSUME PlanInv, NEW r \in Records,
         \/ \E c \in Cells, v \in Values : EditCell(r, c, v)
         \/ DeleteRow(r) \/ RestoreRow(r)
  PROVE  PlanInv'
<1>1. TypeOK' /\ UNCHANGED <<batch, lock, req, made, wrote, merged>>
  BY TypePeople DEF PlanInv, EditCell, DeleteRow, RestoreRow
<1>2. PICK rows \in [Records -> Rows] :
        /\ WriteRows(NoBatch, rows)
        /\ \A s \in Records : rows[s] = rec[s] \/ rows[s].version > rec[s].version
  BY TypePeople DEF PlanInv
<1>3. BatchInv' /\ ReqInv' /\ DoneMeansDone'
  BY <1>1 DEF PlanInv, BatchInv, ReqInv, DoneMeansDone, Stored
<1>4. WroteInv'
  <2>1. \A b \in Batches : ~Stored(b) => touched'[b] = touched[b]
    BY <1>2 DEF WriteRows
  <2> QED
    BY <1>1, <2>1 DEF PlanInv, WroteInv, Stored
<1>5. VersionInv'
  <2>1. SUFFICES ASSUME NEW c \in Batches, Stored(c)
                 PROVE  OpenOK(c)' /\ NewerOK(c)'
    BY <1>1 DEF VersionInv, Stored
  <2>2. c # NoBatch
    BY SentinelsDiffer
  <2>3. batch[c].items \in SUBSET Items
    BY <2>1 DEF PlanInv, TypeOK, Stored, Plan
  <2>4. OpenOK(c) /\ NewerOK(c)
    BY <2>1 DEF PlanInv, VersionInv
  <2> QED
    BY <1>1, <1>2, <2>1, <2>2, <2>3, <2>4, OthersRows DEF PlanInv
<1> QED
  BY <1>1, <1>3, <1>4, <1>5 DEF PlanInv

(* A new batch has its items' rows in front of it. *)
LEMMA NewBatch ==
  ASSUME PlanInv, TypeOK', NEW b \in Batches, ~Stored(b),
         NEW k, NEW I \in SUBSET Items, NEW o, NEW v, NEW s, Shape(k, I),
         StillThere(I) = I,
         \A i \in I : i[2] = "new" => rec[i[1]].version = 0,
         batch' = [batch EXCEPT ![b] = NewPlan(k, I, o, v, s)],
         UNCHANGED <<rec, history>>
  PROVE  /\ BatchInv' /\ WroteInv' /\ VersionInv' /\ DoneMeansDone'
         /\ \A c \in Batches : Stored(c) => Stored(c)'
<1> DEFINE p == NewPlan(k, I, o, v, s)
<1>1. /\ p.kind = k /\ p.items = I /\ p.applied = {} /\ p.status = "previewed"
      /\ p.base = [r \in Records |-> IF r \in RowsOf(I) THEN rec[r].version ELSE 0]
  BY DEF NewPlan
<1>2. batch'[b] = p /\ \A c \in Batches : c # b => batch'[c] = batch[c]
  BY DEF PlanInv, TypeOK
<1> HIDE DEF p
<1>3. /\ \A c \in Batches : Stored(c) => Stored(c)' /\ c # b /\ batch'[c] = batch[c]
      /\ \A c \in Batches : c # b => batch'[c] = batch[c]
  BY <1>2 DEF Stored
<1>4. BatchInv'
  BY <1>1, <1>2 DEF PlanInv, BatchInv, Stored
<1>5. touched[b] = {} /\ \A i \in Items : wrote[b][i] = 0
  BY DEF PlanInv, WroteInv
<1>6. WroteInv'
  <2>1. ASSUME NEW c \in Batches
        PROVE  /\ ~Stored(c)' => touched'[c] = {} /\ \A i \in Items : wrote'[c][i] = 0
               /\ Stored(c)' => \A i \in Items :
                    wrote'[c][i] = IF i \in batch'[c].applied THEN 1 ELSE 0
    <3>1. CASE c = b
      BY <1>1, <1>2, <1>5, <3>1 DEF history
    <3>2. CASE c # b
      BY <1>3, <3>2 DEF PlanInv, WroteInv, Stored, history
    <3> QED
      BY <3>1, <3>2
  <2> QED
    BY <2>1 DEF WroteInv
<1>7. VersionInv'
  <2>1. ASSUME NEW c \in Batches, c # b, Stored(c)'
        PROVE  OpenOK(c)' /\ NewerOK(c)'
    <3>1. Stored(c) /\ batch'[c] = batch[c]
      BY <1>3, <2>1 DEF Stored
    <3>2. OpenOK(c) /\ NewerOK(c)
      BY <3>1 DEF PlanInv, VersionInv
    <3>3. OpenOK(c)'
      BY <3>1, <3>2 DEF OpenOK, VersionsMatch, history
    <3>4. NewerOK(c)'
      BY <3>1, <3>2 DEF NewerOK, history
    <3> QED
      BY <3>3, <3>4
  <2>2. OpenOK(b)'
    <3>1. SUFFICES ASSUME NEW i \in I PROVE VersionsMatch(b, {i})'
      BY <1>1, <1>2 DEF OpenOK
    <3>2. i[1] \in RowsOf(I) /\ i[1] \in Records
      BY DEF RowsOf, Items
    <3>3. p.base[i[1]] = rec[i[1]].version
      BY <1>1, <3>2
    <3>4. i[2] # "new" => rec[i[1]].live
      BY <3>1 DEF StillThere
    <3> QED
      BY <1>2, <3>1, <3>3, <3>4 DEF VersionsMatch
  <2>3. NewerOK(b)'
    <3>1. \A r \in Records : rec[r].version \in Nat
      BY DEF PlanInv, TypeOK, Rows
    <3> QED
      BY <1>1, <1>2, <1>5, <3>1 DEF NewerOK, history
  <2> QED
    BY <2>1, <2>2, <2>3 DEF VersionInv
<1>8. DoneMeansDone'
  <2>1. ASSUME NEW c \in Batches PROVE DoneOK(c)'
    <3>1. CASE c = b
      BY <1>1, <1>2, <3>1 DEF DoneOK, Done
    <3>2. CASE c # b /\ ~Stored(c)
      BY <1>3, <3>2 DEF DoneOK, Stored
    <3>3. CASE c # b /\ Stored(c)
      <4>1. DoneOK(c) /\ batch'[c] = batch[c]
        BY <1>3, <3>3, DoneIsDone DEF PlanInv
      <4> QED
        BY <1>3, <3>3, <4>1 DEF DoneOK, history
    <3> QED
      BY <3>1, <3>2, <3>3
  <2> QED
    BY <2>1, DoneIsDone DEF DoneMeansDone, DoneOK
<1> QED
  BY <1>3, <1>4, <1>6, <1>7, <1>8

LEMMA PreviewStep ==
  ASSUME PlanInv, NEW q \in Requests, NEW b \in Batches, Preview(q, b)
  PROVE  PlanInv'
<1>1. TypeOK'
  BY TypePreview DEF PlanInv
<1>2. ASSUME req[q] # Idle, req[q].pc = "previewing"
      PROVE  /\ Shape(req[q].kind, req[q].items) /\ req[q].items \in SUBSET Items
             /\ \A i \in req[q].items : i[2] # "new"
  <2>1. req[q] \in Request
    BY <1>2 DEF PlanInv, TypeOK
  <2>2. req[q].items \in SUBSET (Records \X Cells)
    BY <1>2, <2>1 DEF Request
  <2>3. Shape(req[q].kind, req[q].items)
    BY <1>2 DEF PlanInv, ReqInv
  <2>4. \A i \in Records \X Cells : i \in Items /\ i[2] # "new"
    BY DEF Items, Cells
  <2> QED
    BY <2>2, <2>3, <2>4
<1>3. ASSUME NEW k, NEW I \in SUBSET Items, Shape(k, I), StillThere(I) = I,
             \A i \in I : i[2] = "new" => rec[i[1]].version = 0,
             StorePreview(q, b, k, I)
      PROVE  PlanInv'
  <2>1. ~Stored(b) /\ UNCHANGED <<rec, history>> /\ req' = [req EXCEPT ![q] = Idle]
    BY <1>3 DEF StorePreview
  <2>4. PICK v \in Values, s \in Sources :
          batch' = [batch EXCEPT ![b] = NewPlan(k, I, req[q].owners, v, s)]
    BY <1>3 DEF StorePreview
  <2>2. /\ BatchInv' /\ WroteInv' /\ VersionInv' /\ DoneMeansDone'
        /\ \A c \in Batches : Stored(c) => Stored(c)'
    BY <1>1, <1>3, <2>1, <2>4, NewBatch
  <2>3. ReqInv'
    BY <2>1, <2>2, SetReq
  <2> QED
    BY <1>1, <2>2, <2>3 DEF PlanInv
<1>4. ASSUME NEW k \in {"tasks", "design"}, PreviewWhole(q, b, k)
      PROVE  PlanInv'
  <2>1. ~Stored(b) /\ UNCHANGED <<rec, history>> /\ UNCHANGED req
    BY <1>4 DEF PreviewWhole
  <2>5. PICK v \in Values, s \in Sources :
          batch' = [batch EXCEPT ![b] = NewPlan(k, {}, NoOwners, v, s)]
    BY <1>4 DEF PreviewWhole
  <2>2. Shape(k, {}) /\ StillThere({}) = {}
    BY DEF Shape, StillThere
  <2>3. /\ BatchInv' /\ WroteInv' /\ VersionInv' /\ DoneMeansDone'
        /\ \A c \in Batches : Stored(c) => Stored(c)'
    <3>1. {} \in SUBSET Items /\ \A i \in {} : i[2] = "new" => rec[i[1]].version = 0
      OBVIOUS
    <3> QED
      BY <1>1, <2>1, <2>2, <2>5, <3>1, NewBatch
  <2>4. ReqInv'
    <3>1. req' = [req EXCEPT ![q] = Idle]
      BY <1>4 DEF PreviewWhole, PlanInv, TypeOK
    <3> QED
      BY <2>3, <3>1, SetReq
  <2> QED
    BY <1>1, <2>3, <2>4 DEF PlanInv
<1>5. CASE StoreActions(q, b)
  <2>1. PICK I \in ActionDrafts(req[q].items) : StorePreview(q, b, "action", I)
    BY <1>5 DEF StoreActions
  <2>2. PICK N \in SUBSET ({r \in Records : FreshId(r)} \X {"new"}) :
          I = StillThere(req[q].items) \cup N
    BY <2>1 DEF ActionDrafts
  <2>3. req[q] # Idle /\ req[q].pc = "previewing" /\ req[q].kind = "action"
    BY <2>1 DEF StorePreview
  <2>4. req[q].items \in SUBSET Items /\ \A i \in req[q].items : i[2] # "new"
    BY <1>2, <2>3
  <2>5. \A i \in N : i[2] = "new" /\ i \in Items /\ rec[i[1]] = Unborn
    BY <2>2 DEF FreshId, Items
  <2>6. Unborn.version = 0 /\ ~Unborn.live
    BY DEF Unborn
  <2>7. \A i \in StillThere(req[q].items) : i \in Items /\ i[2] # "new" /\ rec[i[1]].live
    BY <2>4 DEF StillThere
  <2>8. /\ I \in SUBSET Items /\ StillThere(I) = I
        /\ \A i \in I : i[2] = "new" => rec[i[1]].version = 0
    BY <2>2, <2>5, <2>6, <2>7 DEF StillThere
  <2>9. ASSUME NEW i \in I, NEW j \in I, i[1] = j[1], i[2] = "new"
        PROVE  j = i
    <3>1. i \in N /\ rec[i[1]] = Unborn
      BY <2>2, <2>5, <2>7, <2>9
    <3>2. j \in N
      BY <2>2, <2>6, <2>7, <2>9, <3>1
    <3>3. i \in Records \X {"new"} /\ j \in Records \X {"new"}
      BY <2>2, <3>1, <3>2
    <3> QED
      BY <2>9, <3>3
  <2>10. Shape("action", I)
    BY <2>9 DEF Shape, Selective
  <2> QED
    BY <1>3, <2>1, <2>8, <2>10
<1>6. CASE StoreAssignments(q, b)
  <2>1. /\ req[q] # Idle /\ req[q].pc = "previewing" /\ req[q].kind = "assignment"
        /\ StillThere(req[q].items) = req[q].items
        /\ StorePreview(q, b, "assignment", req[q].items)
    BY <1>6 DEF StoreAssignments, StorePreview
  <2> QED
    BY <1>2, <1>3, <2>1
<1>7. CASE StoreEstimates(q, b)
  <2>1. /\ req[q] # Idle /\ req[q].pc = "previewing" /\ req[q].kind = "estimate"
        /\ StillThere(req[q].items) = req[q].items
        /\ StorePreview(q, b, "estimate", req[q].items)
    BY <1>7 DEF StoreEstimates, StorePreview
  <2> QED
    BY <1>2, <1>3, <2>1
<1>8. CASE PreviewTasks(q, b) \/ PreviewDesign(q, b)
  BY <1>4, <1>8 DEF PreviewTasks, PreviewDesign
<1> QED
  BY <1>5, <1>6, <1>7, <1>8 DEF Preview

-----------------------------------------------------------------------------
(* Applies of the selective planners.                                      *)

LEMMA PatchedGrows ==
  ASSUME TypeOK, NEW b \in Batches, NEW I \in SUBSET Items, NEW v \in Values,
         NEW always \in BOOLEAN, VersionsMatch(b, I), NEW r \in Records
  PROVE  \/ Patched(I, v, always)[r] = rec[r]
         \/ Patched(I, v, always)[r].version > rec[r].version
<1>1. rec[r].version \in Nat
  BY DEF TypeOK, Rows
<1>2. CASE <<r, "new">> \in I
  <2>1. rec[r].version = 0
    BY <1>2 DEF VersionsMatch
  <2>2. Patched(I, v, always)[r].version = 1
    BY <1>2, PatchedType
  <2> QED
    BY <2>1, <2>2
<1>3. CASE <<r, "new">> \notin I
  <2>1. \/ Patched(I, v, always)[r] = rec[r]
        \/ Patched(I, v, always)[r].version = rec[r].version + 1
    BY <1>3, PatchedType
  <2> QED
    BY <1>1, <2>1
<1> QED
  BY <1>2, <1>3

(* The version check refuses a row that somebody else changed.             *)
LEMMA CheckRefuses ==
  ASSUME TypeOK, NEW b \in Batches, Stored(b), NewerOK(b), NEW I \in SUBSET Items,
         VersionsMatch(b, I), NEW i \in I, i[1] \notin merged
  PROVE  i[1] \notin touched[b]
<1>1. i[1] \in Records
  BY DEF Items
<1>2. batch[b] \in Plan
  BY DEF TypeOK, Stored
<1>3. rec[i[1]].version \in Nat /\ batch[b].base[i[1]] \in Nat
  BY <1>1, <1>2 DEF TypeOK, Rows, Plan
<1>4. rec[i[1]].version = 0 \/ rec[i[1]].version = batch[b].base[i[1]]
  BY DEF VersionsMatch
<1>5. i[1] \in touched[b] => rec[i[1]].version > batch[b].base[i[1]]
  BY <1>1 DEF NewerOK
<1> QED
  BY <1>3, <1>4, <1>5

(* The batch's own rows after its apply.                                   *)
LEMMA OwnRows ==
  ASSUME PlanInv, NEW b \in Batches, Stored(b), batch[b].kind \in Selective,
         NEW I \in SUBSET Items, NEW v \in Values, NEW always \in BOOLEAN,
         I \subseteq batch[b].items \ batch[b].applied, VersionsMatch(b, I),
         NEW rows, rows = Patched(I, v, always), NEW base,
         base = IF batch[b].kind = "action" THEN AdvanceVersions(b, I, rows)
                ELSE batch[b].base,
         rec' = rows, touched'[b] = touched[b], UNCHANGED merged,
         batch'[b].items = batch[b].items, batch'[b].base = base,
         batch'[b].applied = batch[b].applied \cup I
  PROVE  OpenOK(b)' /\ NewerOK(b)'
<1>1. TypeOK /\ OpenOK(b) /\ NewerOK(b) /\ Shape(batch[b].kind, batch[b].items)
      /\ batch[b] \in Plan
  BY DEF PlanInv, VersionInv, BatchInv, TypeOK, Stored
<1>2. batch[b].items \subseteq Items
  BY <1>1 DEF Plan
<1>7. \A r \in Records :
        /\ r \notin RowsOf(I) => Patched(I, v, always)[r] = rec[r]
        /\ <<r, "new">> \notin I => Patched(I, v, always)[r].live = rec[r].live
  <2>1. ASSUME NEW r \in Records
        PROVE  /\ r \notin RowsOf(I) => Patched(I, v, always)[r] = rec[r]
               /\ <<r, "new">> \notin I => Patched(I, v, always)[r].live = rec[r].live
    BY <1>1, PatchedType
  <2> QED
    BY <2>1
<1>3. ASSUME NEW r \in Records, r \notin RowsOf(I)
      PROVE  rows[r] = rec[r] /\ base[r] = batch[b].base[r]
  <2>1. rows[r] = rec[r]
    BY <1>3, <1>7
  <2>2. base[r] = batch[b].base[r]
    BY <1>3 DEF AdvanceVersions
  <2> QED
    BY <2>1, <2>2
<1>4. ASSUME NEW r \in RowsOf(I), r \in Records, batch[b].kind = "action"
      PROVE  base[r] = rows[r].version
  BY <1>4 DEF AdvanceVersions
<1>5. OpenOK(b)'
  <2>1. SUFFICES ASSUME NEW i \in batch[b].items, i \notin batch[b].applied, i \notin I,
                        i[1] \notin touched[b]
                 PROVE  VersionsMatch(b, {i})'
    BY DEF OpenOK
  <2>2. VersionsMatch(b, {i}) /\ i \in Items /\ i[1] \in Records
    BY <1>1, <1>2, <2>1 DEF OpenOK, Items
  <2>3. CASE i[1] \notin RowsOf(I)
    <3>1. rows[i[1]] = rec[i[1]] /\ base[i[1]] = batch[b].base[i[1]]
      BY <1>3, <2>2, <2>3
    <3> QED
      BY <2>2, <3>1 DEF VersionsMatch
  <2>4. CASE i[1] \in RowsOf(I)
    <3>1. PICK j \in I : j[1] = i[1]
      BY <2>4 DEF RowsOf
    <3>2. j \in batch[b].items /\ j # i /\ j \in Items
      BY <1>2, <2>1, <3>1
    <3>3. j[2] # i[2]
      BY <2>2, <3>1, <3>2 DEF Items
    <3>4. batch[b].kind = "action"
      BY <1>1, <2>1, <3>2, <3>3 DEF Shape, Selective
    <3>5. i[2] # "new" /\ \A k \in I : k[1] = i[1] => k[2] # "new"
      BY <1>1, <2>1, <3>1, <3>2 DEF Shape
    <3>6. <<i[1], "new">> \notin I
      BY <3>5
    <3>7. rows[i[1]].live = rec[i[1]].live
      BY <1>7, <2>2, <3>6
    <3>8. rec[i[1]].live
      BY <2>2, <3>5 DEF VersionsMatch
    <3>9. base[i[1]] = rows[i[1]].version
      BY <1>4, <2>2, <2>4, <3>4
    <3> QED
      BY <3>5, <3>7, <3>8, <3>9 DEF VersionsMatch
  <2> QED
    BY <2>3, <2>4
<1>6. NewerOK(b)'
  <2>1. SUFFICES ASSUME NEW r \in Records \ merged
                 PROVE  /\ rows[r].version >= base[r]
                        /\ r \in touched[b] => rows[r].version > base[r]
    BY DEF NewerOK
  <2>2. rows \in [Records -> Rows]
    BY <1>1, PatchedType
  <2>3. rec[r].version \in Nat /\ batch[b].base[r] \in Nat /\ rows[r].version \in Nat
    BY <1>1, <2>2 DEF TypeOK, Rows, Plan
  <2>4. /\ rec[r].version >= batch[b].base[r]
        /\ r \in touched[b] => rec[r].version > batch[b].base[r]
    BY <1>1 DEF NewerOK
  <2>5. rows[r] = rec[r] \/ rows[r].version > rec[r].version
    BY <1>1, PatchedGrows
  <2>6. CASE r \notin RowsOf(I)
    BY <1>3, <2>4, <2>6
  <2>7. CASE r \in RowsOf(I)
    <3>1. r \notin touched[b]
      BY <1>1, <2>7, CheckRefuses DEF RowsOf
    <3>2. CASE batch[b].kind = "action"
      BY <1>4, <2>3, <2>7, <3>1, <3>2
    <3>3. CASE batch[b].kind # "action"
      BY <2>3, <2>4, <2>5, <3>1, <3>3
    <3> QED
      BY <3>2, <3>3
  <2> QED
    BY <2>6, <2>7
<1> QED
  BY <1>5, <1>6

LEMMA ApplyStep ==
  ASSUME PlanInv, NEW q \in Requests, NEW b \in Batches, NEW S \in SUBSET Items,
         ApplyActions(q, b, S) \/ ApplyAssignments(q, b, S) \/ ApplyEstimates(q, b, S)
  PROVE  PlanInv'
<1>1. TypeOK
  BY DEF PlanInv
<1>2. Stored(b) /\ batch[b] \in Plan /\ batch[b].kind \in Selective
  BY <1>1, ApplyIsCommit
<1>3. PICK I \in SUBSET Items, v \in Values, always \in BOOLEAN :
        /\ I \subseteq batch[b].items \ batch[b].applied
        /\ VersionsMatch(b, I)
        /\ Commit(b, I, Patched(I, v, always),
                  IF batch[b].kind = "action"
                  THEN AdvanceVersions(b, I, Patched(I, v, always)) ELSE batch[b].base)
  BY <1>1, ApplyIsCommit
<1>4. PICK rows : rows = Patched(I, v, always)
  OBVIOUS
<1>5. PICK base : base = IF batch[b].kind = "action" THEN AdvanceVersions(b, I, rows)
                         ELSE batch[b].base
  OBVIOUS
<1>6. Commit(b, I, rows, base)
  BY <1>3, <1>4, <1>5
<1>7. rows \in [Records -> Rows]
  BY <1>1, <1>4, PatchedType
<1>8. base \in [Records -> Nat]
  BY <1>1, <1>2, <1>5, <1>7, AdvanceType
<1>9. /\ TypeOK'
      /\ \A c \in Batches : Stored(c)' <=> Stored(c)
      /\ \A c \in Batches : c # b => batch'[c] = batch[c]
      /\ batch'[b].items = batch[b].items /\ batch'[b].kind = batch[b].kind
      /\ batch'[b].src = batch[b].src /\ batch'[b].base = base
      /\ batch'[b].applied = batch[b].applied \cup I
      /\ batch'[b].status = ReachedStatus(batch[b].items, batch[b].applied \cup I)
  BY <1>1, <1>2, <1>6, <1>7, <1>8, CommitFacts
<1>10. WriteRows(b, rows) /\ UNCHANGED <<lock, req, made, merged>>
  BY <1>6 DEF Commit
<1>11. /\ \A c \in Batches, i \in Items : c # b => wrote'[c][i] = wrote[c][i]
       /\ \A i \in Items : wrote'[b][i] = wrote[b][i] + IF i \in I THEN 1 ELSE 0
  BY <1>1, <1>6 DEF Commit, TypeOK
<1>12. touched'[b] = touched[b] /\ \A c \in Batches : ~Stored(c) => touched'[c] = touched[c]
  BY <1>10 DEF WriteRows
<1>13. BatchInv'
  BY <1>2, <1>3, <1>9 DEF PlanInv, BatchInv
<1>14. ReqInv'
  <2>1. req' = [req EXCEPT ![q] = Idle]
    BY <1>10, <1>1 DEF TypeOK, ApplyActions, ApplyAssignments, ApplyEstimates, MayApply
  <2> QED
    BY <1>9, <2>1, SetReq
<1>15. WroteInv'
  <2>1. ASSUME NEW c \in Batches
        PROVE  /\ ~Stored(c)' => touched'[c] = {} /\ \A i \in Items : wrote'[c][i] = 0
               /\ Stored(c)' => \A i \in Items :
                    wrote'[c][i] = IF i \in batch'[c].applied THEN 1 ELSE 0
    <3>1. CASE c = b
      <4>1. ASSUME NEW i \in Items
            PROVE  wrote'[b][i] = IF i \in batch'[b].applied THEN 1 ELSE 0
        <5>1. wrote[b][i] = IF i \in batch[b].applied THEN 1 ELSE 0
          BY <1>2 DEF PlanInv, WroteInv
        <5>2. wrote'[b][i] = wrote[b][i] + IF i \in I THEN 1 ELSE 0
          BY <1>11
        <5>3. i \in I => i \notin batch[b].applied
          BY <1>3
        <5>4. i \in batch'[b].applied <=> i \in batch[b].applied \/ i \in I
          BY <1>9
        <5> QED
          BY <5>1, <5>2, <5>3, <5>4
      <4> QED
        BY <1>2, <1>9, <3>1, <4>1
    <3>2. CASE c # b
      BY <1>9, <1>11, <1>12, <3>2 DEF PlanInv, WroteInv
    <3> QED
      BY <3>1, <3>2
  <2> QED
    BY <2>1 DEF WroteInv
<1>16. VersionInv'
  <2>1. OpenOK(b)' /\ NewerOK(b)'
    <3>1. rec' = rows /\ UNCHANGED merged
      BY <1>10 DEF WriteRows
    <3> QED
      BY <1>2, <1>3, <1>4, <1>5, <1>9, <1>12, <3>1, OwnRows
  <2>2. ASSUME NEW c \in Batches, c # b, Stored(c)
        PROVE  OpenOK(c)' /\ NewerOK(c)'
    <3>1. OpenOK(c) /\ NewerOK(c)
      BY <2>2 DEF PlanInv, VersionInv
    <3>2. batch[c].items \in SUBSET Items
      BY <1>1, <2>2 DEF TypeOK, Stored, Plan
    <3>3. \A r \in Records \ merged' : rows[r] = rec[r] \/ rows[r].version > rec[r].version
      <4>1. ASSUME NEW r \in Records
            PROVE  \/ Patched(I, v, always)[r] = rec[r]
                   \/ Patched(I, v, always)[r].version > rec[r].version
        BY <1>1, <1>3, PatchedGrows
      <4> QED
        BY <1>4, <4>1
    <3>4. /\ batch'[c].items = batch[c].items /\ batch'[c].applied = batch[c].applied
          /\ batch'[c].base = batch[c].base /\ merged \subseteq merged'
      BY <1>9, <1>10, <2>2
    <3> QED
      BY <1>1, <1>7, <1>10, <2>2, <3>1, <3>2, <3>3, <3>4, OthersRows
  <2> QED
    BY <1>9, <2>1, <2>2 DEF VersionInv
<1>17. DoneMeansDone'
  <2>1. ASSUME NEW c \in Batches, c # b, Stored(c)
        PROVE  DoneOK(c)'
    <3>1. batch[c] \in Plan
      BY <1>1, <2>1 DEF TypeOK, Stored
    <3>2. \A i \in batch[c].items : wrote[c][i] > 0 => wrote'[c][i] > 0
      BY <1>11, <2>1, <3>1 DEF Plan
    <3>3. made' \in [Batches -> Nat] /\ \A d \in Batches : made'[d] >= made[d]
      BY <1>1, <1>10 DEF TypeOK
    <3>4. \A d \in Batches : Stored(d) =>
             /\ Stored(d)' /\ batch'[d].kind = batch[d].kind
             /\ batch'[d].src = batch[d].src /\ made'[d] >= made[d]
      BY <1>9, <3>3
    <3> QED
      BY <1>9, <2>1, <3>2, <3>3, <3>4, DoneKept
  <2>2. DoneOK(b)'
    <3>1. SUFFICES ASSUME batch'[b].status \in Done, NEW i \in batch[b].items
                   PROVE  wrote'[b][i] > 0
      BY <1>2, <1>9 DEF DoneOK
    <3>2. batch[b].items \subseteq batch[b].applied \cup I
      BY <1>9, <3>1 DEF ReachedStatus, Done
    <3>3. i \in Items /\ i \in batch'[b].applied
      BY <1>2, <1>9, <3>2 DEF Plan
    <3>4. wrote'[b][i] = 1
      BY <1>2, <1>9, <1>15, <3>3 DEF WroteInv
    <3> QED
      BY <3>4
  <2>3. ASSUME NEW c \in Batches, ~Stored(c)
        PROVE  DoneOK(c)'
    BY <1>9, <2>3 DEF DoneOK
  <2>4. \A c \in Batches : DoneOK(c)'
    BY <2>1, <2>2, <2>3
  <2> QED
    BY <2>4, DoneIsDone DEF DoneMeansDone, DoneOK
<1> QED
  BY <1>9, <1>13, <1>14, <1>15, <1>16, <1>17 DEF PlanInv

-----------------------------------------------------------------------------
(* Applies of the creating planners, and failures.                         *)

(* Batches keep what they have done when only statuses change and no       *)
(* status becomes a Done one, b's excepted.                                *)
LEMMA OthersDone ==
  ASSUME PlanInv, StatusOnly, UNCHANGED wrote, made' \in [Batches -> Nat],
         \A c \in Batches : made'[c] >= made[c],
         NEW b \in Batches, \A c \in Batches : c # b => batch'[c] = batch[c],
         DoneOK(b)'
  PROVE  DoneMeansDone'
<1>1. ASSUME NEW c \in Batches, c # b PROVE DoneOK(c)'
  <2>1. CASE ~Stored(c)
    BY <2>1 DEF DoneOK, StatusOnly
  <2>2. CASE Stored(c)
    <3>1. \A d \in Batches : Stored(d) =>
             /\ Stored(d)' /\ batch'[d].kind = batch[d].kind
             /\ batch'[d].src = batch[d].src /\ made'[d] >= made[d]
      BY DEF StatusOnly
    <3>2. batch'[c] = batch[c]
      BY <1>1
    <3> QED
      BY <2>2, <3>1, <3>2, DoneKept
  <2> QED
    BY <2>1, <2>2
<1>2. \A c \in Batches : DoneOK(c)'
  BY <1>1
<1> QED
  BY <1>2, DoneIsDone DEF DoneMeansDone, DoneOK

LEMMA DeduplicateStep ==
  ASSUME PlanInv, NEW q \in Requests, NEW b \in Batches, Deduplicate(q, b)
  PROVE  PlanInv'
<1>1. /\ TypeOK /\ Stored(b) /\ batch[b].kind = "tasks" /\ req[q] = Idle
      /\ batch' = [batch EXCEPT ![b].status = "deduplicated"]
      /\ UNCHANGED <<rec, lock, req, history>>
  BY DEF Deduplicate, PlanInv
<1>2. "deduplicated" \in Status
  BY DEF Status
<1>3. /\ StatusOnly /\ batch' \in [Batches -> Plan \cup {NoBatch}]
      /\ \A c \in Batches : c # b => batch'[c] = batch[c]
  BY <1>1, <1>2, SetStatus
<1>4. TypeOK'
  BY <1>1, <1>3 DEF TypeOK, history
<1>5. BatchInv' /\ WroteInv' /\ VersionInv'
  BY <1>1, <1>3, QuietInv DEF history
<1>6. ReqInv'
  <2>1. req' = [req EXCEPT ![q] = Idle]
    BY <1>1 DEF TypeOK
  <2> QED
    BY <1>3, <2>1, SetReq DEF StatusOnly
<1>7. DoneOK(b)'
  <2>1. PICK c \in Batches : PreviousApplication(b, c)
    BY DEF Deduplicate
  <2>2. DoneOK(c)
    BY DoneIsDone DEF PlanInv
  <2>3. PICK d \in Batches : /\ Stored(d) /\ made[d] > 0
                             /\ batch[d].kind = batch[c].kind
                             /\ d = c \/ batch[d].src = batch[c].src
    BY <2>1, <2>2 DEF DoneOK, PreviousApplication, Selective
  <2>4. batch[d].kind = "tasks" /\ batch[d].src = batch[b].src
    BY <2>1, <2>3 DEF PreviousApplication
  <2>5. /\ Stored(d)' /\ made'[d] > 0 /\ batch'[d].kind = batch'[b].kind
        /\ batch'[d].src = batch'[b].src /\ batch'[b].kind = "tasks"
    BY <1>1, <1>3, <2>3, <2>4 DEF StatusOnly, history
  <2> QED
    BY <2>5 DEF DoneOK, Selective
<1>8. DoneMeansDone'
  <2>1. made' \in [Batches -> Nat] /\ \A c \in Batches : made'[c] >= made[c]
    BY <1>1 DEF TypeOK, history
  <2> QED
    BY <1>1, <1>3, <1>7, <2>1, OthersDone DEF history
<1> QED
  BY <1>4, <1>5, <1>6, <1>8 DEF PlanInv

LEMMA FinishFacts ==
  ASSUME PlanInv, NEW q \in Requests, NEW k \in {"tasks", "design"}, Creating(q, k),
         FinishCreate(q), NEW b, b = req[q].batch
  PROVE  /\ b \in Batches /\ Stored(b) /\ batch[b].items = {}
         /\ StatusOnly /\ ReqInv' /\ DoneMeansDone' /\ UNCHANGED wrote
         /\ batch' \in [Batches -> Plan \cup {NoBatch}]
         /\ lock' \in [Batches -> Requests \cup {Idle}]
         /\ req' \in [Requests -> Request \cup {Idle}]
         /\ made' \in [Batches -> Nat]
         /\ \A c \in Batches : c # b => batch'[c] = batch[c]
<1>1. req[q] # Idle /\ req[q].pc = "creating" /\ batch[b].kind = k
  BY DEF Creating
<1>2. b \in Batches
  BY <1>1 DEF PlanInv, TypeOK, Request
<1>3. Stored(b)
  BY <1>1 DEF PlanInv, ReqInv
<1>4. batch[b].items = {}
  BY <1>1, <1>2, <1>3 DEF PlanInv, BatchInv, Shape, Selective
<1>5. /\ batch' = [batch EXCEPT ![b].status = "applied"]
      /\ made' = [made EXCEPT ![b] = made[b] + 1]
      /\ lock' = [lock EXCEPT ![b] = Idle]
      /\ req' = [req EXCEPT ![q] = Idle]
      /\ UNCHANGED wrote
  BY DEF FinishCreate
<1>6. TypeOK /\ "applied" \in Status
  BY DEF PlanInv, Status
<1>7. /\ StatusOnly /\ batch' \in [Batches -> Plan \cup {NoBatch}]
      /\ \A c \in Batches : c # b => batch'[c] = batch[c]
  BY <1>2, <1>3, <1>5, <1>6, SetStatus
<1>8. /\ lock' \in [Batches -> Requests \cup {Idle}]
      /\ req' \in [Requests -> Request \cup {Idle}]
  BY <1>5, <1>6 DEF TypeOK
<1>9. /\ made' \in [Batches -> Nat] /\ made'[b] > 0
      /\ \A c \in Batches : made'[c] >= made[c]
  BY <1>2, <1>5, <1>6 DEF TypeOK
<1>10. ReqInv'
  BY <1>5, <1>7, SetReq DEF StatusOnly
<1>11. DoneOK(b)'
  <2>1. Stored(b)' /\ batch'[b].kind = k
    BY <1>1, <1>2, <1>3, <1>7 DEF StatusOnly
  <2>2. k \notin Selective
    BY DEF Selective
  <2> QED
    BY <1>2, <1>9, <2>1, <2>2 DEF DoneOK
<1>12. DoneMeansDone'
  BY <1>2, <1>5, <1>7, <1>9, <1>11, OthersDone
<1> QED
  BY <1>2, <1>3, <1>4, <1>5, <1>7, <1>8, <1>9, <1>10, <1>12

(* A creation that leaves the rows alone. *)
LEMMA FinishQuiet ==
  ASSUME PlanInv, NEW q \in Requests, NEW k \in {"tasks", "design"}, Creating(q, k),
         FinishCreate(q), UNCHANGED <<rec, touched, merged>>
  PROVE  PlanInv'
<1>1. PICK b : b = req[q].batch
  OBVIOUS
<1>2. /\ StatusOnly /\ ReqInv' /\ DoneMeansDone' /\ UNCHANGED wrote
      /\ batch' \in [Batches -> Plan \cup {NoBatch}]
      /\ lock' \in [Batches -> Requests \cup {Idle}]
      /\ req' \in [Requests -> Request \cup {Idle}]
      /\ made' \in [Batches -> Nat]
  BY <1>1, FinishFacts
<1>3. TypeOK'
  BY <1>2 DEF PlanInv, TypeOK
<1>4. BatchInv' /\ WroteInv' /\ VersionInv'
  BY <1>2, QuietInv
<1> QED
  BY <1>2, <1>3, <1>4 DEF PlanInv

(* A creation that is merged into row m. *)
LEMMA FinishMerge ==
  ASSUME PlanInv, NEW q \in Requests, Creating(q, "tasks"), FinishCreate(q),
         NEW m \in Records, NEW image \in Rows, NEW b, b = req[q].batch,
         WriteRows(b, [rec EXCEPT ![m] = image]), merged' = merged \cup {m}
  PROVE  PlanInv'
<1>1. /\ b \in Batches /\ Stored(b) /\ batch[b].items = {}
      /\ StatusOnly /\ ReqInv' /\ DoneMeansDone' /\ UNCHANGED wrote
      /\ batch' \in [Batches -> Plan \cup {NoBatch}]
      /\ lock' \in [Batches -> Requests \cup {Idle}]
      /\ req' \in [Requests -> Request \cup {Idle}]
      /\ made' \in [Batches -> Nat]
      /\ \A c \in Batches : c # b => batch'[c] = batch[c]
  <2>1. PICK k \in {"tasks", "design"} : k = "tasks"
    OBVIOUS
  <2>2. Creating(q, k)
    BY <2>1
  <2>3. /\ StatusOnly /\ ReqInv' /\ DoneMeansDone' /\ UNCHANGED wrote
        /\ batch' \in [Batches -> Plan \cup {NoBatch}]
        /\ lock' \in [Batches -> Requests \cup {Idle}]
        /\ req' \in [Requests -> Request \cup {Idle}]
        /\ made' \in [Batches -> Nat]
    BY <2>2, FinishFacts
  <2>4. b \in Batches /\ Stored(b) /\ batch[b].items = {}
    BY <2>2, FinishFacts
  <2>5. \A c \in Batches : c # b => batch'[c] = batch[c]
    BY <2>2, FinishFacts
  <2> QED
    BY <2>3, <2>4, <2>5
<1>2. PICK rows : rows = [rec EXCEPT ![m] = image]
  OBVIOUS
<1>3. rows \in [Records -> Rows] /\ \A r \in Records \ {m} : rows[r] = rec[r]
  BY <1>2 DEF PlanInv, TypeOK
<1>4. WriteRows(b, rows)
  BY <1>2
<1>5. rec' \in [Records -> Rows] /\ touched' \in [Batches -> SUBSET Records]
  BY <1>3, <1>4, TypeWriteRows DEF PlanInv
<1>6. TypeOK'
  BY <1>1, <1>5 DEF PlanInv, TypeOK
<1>7. BatchInv'
  BY <1>1 DEF PlanInv, BatchInv, StatusOnly
<1>8. touched'[b] = touched[b] /\ \A c \in Batches : ~Stored(c) => touched'[c] = touched[c]
  BY <1>1, <1>4 DEF WriteRows
<1>9. WroteInv'
  BY <1>1, <1>8 DEF PlanInv, WroteInv, StatusOnly
<1>10. ASSUME NEW c \in Batches, Stored(c) PROVE OpenOK(c)' /\ NewerOK(c)'
  <2>1. /\ batch'[c].items = batch[c].items /\ batch'[c].applied = batch[c].applied
        /\ batch'[c].base = batch[c].base
    BY <1>10, <1>1 DEF StatusOnly
  <2>2. OpenOK(c) /\ NewerOK(c) /\ TypeOK
    BY <1>10 DEF PlanInv, VersionInv
  <2>3. CASE c = b
    <3>1. OpenOK(b)'
      BY <1>1, <2>1, <2>3 DEF OpenOK
    <3>2. rec' = rows
      BY <1>4 DEF WriteRows
    <3>3. NewerOK(b)'
      BY <1>3, <1>8, <2>1, <2>2, <2>3, <3>2 DEF NewerOK
    <3> QED
      BY <2>3, <3>1, <3>3
  <2>4. CASE c # b
    <3>1. batch[c].items \in SUBSET Items
      BY <1>10, <2>2 DEF TypeOK, Stored, Plan
    <3>2. /\ merged \subseteq merged'
          /\ \A r \in Records \ merged' : rows[r] = rec[r] \/ rows[r].version > rec[r].version
      BY <1>3
    <3> QED
      BY <1>3, <1>4, <1>10, <2>1, <2>2, <2>4, <3>1, <3>2, OthersRows
  <2> QED
    BY <2>3, <2>4
<1>11. VersionInv'
  BY <1>1, <1>10 DEF VersionInv, StatusOnly
<1> QED
  BY <1>1, <1>6, <1>7, <1>9, <1>11 DEF PlanInv

LEMMA FinishStep ==
  ASSUME PlanInv, NEW q \in Requests, FinishTasks(q) \/ FinishDesign(q)
  PROVE  PlanInv'
<1>1. CASE FinishDesign(q)
  BY <1>1, FinishQuiet DEF FinishDesign
<1>2. CASE FinishTasks(q)
  <2>1. Creating(q, "tasks") /\ FinishCreate(q)
    BY <1>2 DEF FinishTasks
  <2>2. PICK b : b = req[q].batch
    OBVIOUS
  <2>3. PICK m : m = req[q].into
    OBVIOUS
  <2>4. PICK image : image = Filled(req[q].row, batch[b].val)
    OBVIOUS
  <2>5. \/ UNCHANGED <<rec, touched, merged>>
        \/ /\ m # NoRec /\ WriteRows(b, [rec EXCEPT ![m] = image])
           /\ merged' = merged \cup {m}
    BY <1>2, <2>2, <2>3, <2>4 DEF FinishTasks
  <2>6. b \in Batches /\ Stored(b)
    BY <2>1, <2>2, FinishFacts
  <2>7. req[q] # Idle /\ req[q].pc = "creating"
    BY <2>1 DEF Creating
  <2>8. m \in Records \cup {NoRec} /\ req[q].row \in Rows
    BY <2>3, <2>7 DEF PlanInv, TypeOK, Request
  <2>9. batch[b].val \in Values
    BY <2>6 DEF PlanInv, TypeOK, Stored, Plan
  <2>10. image \in Rows
    BY <2>4, <2>8, <2>9, FilledType
  <2>11. CASE UNCHANGED <<rec, touched, merged>>
    BY <2>1, <2>11, FinishQuiet
  <2>12. CASE /\ m # NoRec /\ WriteRows(b, [rec EXCEPT ![m] = image])
              /\ merged' = merged \cup {m}
    BY <2>1, <2>2, <2>8, <2>10, <2>12, FinishMerge
  <2> QED
    BY <2>5, <2>11, <2>12
<1> QED
  BY <1>1, <1>2

LEMMA FailStep ==
  ASSUME PlanInv, NEW q \in Requests,
         \/ CreateFails(q) \/ ReadFailed(q) \/ RequestDies(q)
         \/ \E m \in Records \cup {NoRec} : LockTable(q, m)
  PROVE  PlanInv'
<1>1. TypeOK /\ req[q] # Idle /\ req[q] \in Request /\ UNCHANGED <<rec, batch, history>>
  BY DEF PlanInv, TypeOK, CreateFails, ReadFailed, RequestDies, LockTable
<1>2. ASSUME req[q].pc # "previewing"
      PROVE  req[q].batch \in Batches /\ Stored(req[q].batch)
             /\ batch[req[q].batch] \in Plan
  <2>1. req[q].batch \in Batches
    BY <1>1, <1>2 DEF Request
  <2>2. Stored(req[q].batch)
    BY <1>1, <1>2 DEF PlanInv, ReqInv
  <2> QED
    BY <1>1, <2>1, <2>2 DEF TypeOK, Stored
<1>3. CASE CreateFails(q)
  <2>1. PICK x : x = [pc |-> "failed", batch |-> req[q].batch]
    OBVIOUS
  <2>2. req[q].pc # "previewing" /\ req' = [req EXCEPT ![q] = x]
        /\ lock' = [lock EXCEPT ![req[q].batch] = Idle]
    BY <1>3, <2>1 DEF CreateFails
  <2>3. x \in Request /\ x.pc # "previewing" /\ x.batch = req[q].batch
    BY <1>2, <2>1, <2>2 DEF Request
  <2>4. TypeOK'
    BY <1>1, <2>2, <2>3 DEF TypeOK, history
  <2> QED
    BY <1>1, <1>2, <2>2, <2>3, <2>4, RequestStep
<1>4. CASE ReadFailed(q)
  <2>1. PICK x : x = [pc |-> "marking", batch |-> req[q].batch,
                      status |-> batch[req[q].batch].status,
                      some |-> batch[req[q].batch].applied # {}]
    OBVIOUS
  <2>2. req[q].pc = "failed" /\ req' = [req EXCEPT ![q] = x] /\ UNCHANGED lock
    BY <1>4, <2>1 DEF ReadFailed
  <2>3. batch[req[q].batch].status \in Status
    BY <1>2, <2>2 DEF Plan
  <2>4. x \in Request /\ x.pc # "previewing" /\ x.batch = req[q].batch
    BY <1>2, <2>1, <2>2, <2>3 DEF Request
  <2>5. TypeOK'
    BY <1>1, <2>2, <2>4 DEF TypeOK, history
  <2> QED
    BY <1>1, <1>2, <2>2, <2>4, <2>5, RequestStep
<1>5. CASE RequestDies(q)
  <2>1. req' = [req EXCEPT ![q] = Idle] /\ lock' \in [Batches -> Requests \cup {Idle}]
    BY <1>1, <1>5 DEF RequestDies, TypeOK
  <2>2. TypeOK'
    BY <1>1, <2>1 DEF TypeOK, history
  <2> QED
    BY <1>1, <2>1, <2>2, RequestStep
<1>6. ASSUME NEW m \in Records \cup {NoRec}, LockTable(q, m)
      PROVE  PlanInv'
  <2>1. PICK x : x = [pc |-> "creating", batch |-> req[q].batch, into |-> m,
                      row |-> IF m = NoRec THEN Unborn ELSE rec[m]]
    OBVIOUS
  <2>2. req[q].pc = "decided" /\ req' = [req EXCEPT ![q] = x] /\ UNCHANGED lock
    BY <1>6, <2>1 DEF LockTable
  <2>3. (IF m = NoRec THEN Unborn ELSE rec[m]) \in Rows
    BY <1>1, UnbornType DEF TypeOK
  <2>4. x \in Request /\ x.pc # "previewing" /\ x.batch = req[q].batch
    BY <1>2, <2>1, <2>2, <2>3 DEF Request
  <2>5. TypeOK'
    BY <1>1, <2>2, <2>4 DEF TypeOK, history
  <2> QED
    BY <1>1, <1>2, <2>2, <2>4, <2>5, RequestStep
<1> QED
  BY <1>3, <1>4, <1>5, <1>6

LEMMA MarkStep ==
  ASSUME PlanInv, NEW q \in Requests, MarkFailed(q)
  PROVE  PlanInv'
<1>1. /\ TypeOK /\ req[q] # Idle /\ req[q] \in Request /\ req[q].pc = "marking"
      /\ UNCHANGED <<rec, lock, history>> /\ req' = [req EXCEPT ![q] = Idle]
  BY DEF PlanInv, TypeOK, MarkFailed
<1>2. PICK b : b = req[q].batch
  OBVIOUS
<1>3. b \in Batches /\ req[q].status \in Status /\ req[q].some \in BOOLEAN
  BY <1>1, <1>2 DEF Request
<1>4. Stored(b)
  BY <1>1, <1>2 DEF PlanInv, ReqInv
<1>5. batch[b] \in Plan
  BY <1>1, <1>3, <1>4 DEF TypeOK, Stored
<1>6. PICK new : new = FailedStatus(batch[b].kind, req[q].status, req[q].some)
  OBVIOUS
<1>7. batch' = IF new = req[q].status THEN batch ELSE [batch EXCEPT ![b].status = new]
  BY <1>2, <1>6 DEF MarkFailed
<1>8. CASE new = req[q].status
  <2>1. UNCHANGED batch /\ TypeOK'
    BY <1>1, <1>7, <1>8 DEF TypeOK, history
  <2> QED
    BY <1>1, <2>1, RequestStep
<1>9. CASE new # req[q].status
  <2>1. new \in Status \ Done
    BY <1>3, <1>5, <1>6, <1>9, FailedStatusType
  <2>2. batch' = [batch EXCEPT ![b].status = new]
    BY <1>7, <1>9
  <2>3. /\ StatusOnly /\ batch' \in [Batches -> Plan \cup {NoBatch}]
        /\ batch'[b].status = new
        /\ \A c \in Batches : c # b => batch'[c] = batch[c]
    BY <1>1, <1>3, <1>4, <2>1, <2>2, SetStatus
  <2>4. TypeOK'
    BY <1>1, <2>3 DEF TypeOK, history
  <2>5. BatchInv' /\ WroteInv' /\ VersionInv'
    BY <1>1, <2>3, QuietInv DEF history
  <2>6. ReqInv'
    BY <1>1, <2>3, SetReq DEF StatusOnly
  <2>7. DoneOK(b)'
    BY <2>1, <2>3 DEF DoneOK
  <2>8. made' \in [Batches -> Nat] /\ \A c \in Batches : made'[c] >= made[c]
    BY <1>1 DEF TypeOK, history
  <2>9. DoneMeansDone'
    BY <1>1, <1>3, <2>3, <2>7, <2>8, OthersDone DEF history
  <2> QED
    BY <2>4, <2>5, <2>6, <2>9 DEF PlanInv
<1> QED
  BY <1>8, <1>9

-----------------------------------------------------------------------------
(* The theorems.                                                           *)

LEMMA InvInit == Init => PlanInv
<1> SUFFICES ASSUME Init PROVE PlanInv
  OBVIOUS
<1>1. TypeOK
  BY TypeInit
<1>2. \A b \in Batches : ~Stored(b)
  BY DEF Init, Stored
<1>3. BatchInv /\ VersionInv /\ DoneMeansDone
  BY <1>2 DEF BatchInv, VersionInv, DoneMeansDone
<1>4. WroteInv
  BY <1>2 DEF WroteInv, Init
<1>5. ReqInv
  BY DEF ReqInv, Init
<1> QED
  BY <1>1, <1>3, <1>4, <1>5 DEF PlanInv

LEMMA InvNext == PlanInv /\ [Next]_vars => PlanInv'
<1> SUFFICES ASSUME PlanInv, [Next]_vars PROVE PlanInv'
  OBVIOUS
<1>1. CASE UNCHANGED vars
  BY <1>1 DEF vars, PlanInv, TypeOK, BatchInv, ReqInv, WroteInv, VersionInv, OpenOK,
              NewerOK, VersionsMatch, DoneMeansDone, Stored
<1>2. ASSUME NEW r \in Records,
             \/ \E c \in Cells, v \in Values : EditCell(r, c, v)
             \/ DeleteRow(r) \/ RestoreRow(r)
      PROVE  PlanInv'
  BY <1>2, PeopleStep
<1>3. ASSUME NEW q \in Requests, NEW b \in Batches, Apply(q, b)
      PROVE  PlanInv'
  BY <1>3, ApplyStep, BeginStep, DeduplicateStep DEF Apply
<1>4. ASSUME NEW q \in Requests,
             \/ ReadForActions(q) \/ ReadForAssignment(q) \/ ReadForEstimates(q)
             \/ \E b \in Batches : Preview(q, b) \/ Apply(q, b)
             \/ \E m \in Records \cup {NoRec} : LockTable(q, m)
             \/ FinishTasks(q) \/ FinishDesign(q) \/ CreateFails(q)
             \/ ReadFailed(q) \/ MarkFailed(q) \/ RequestDies(q)
      PROVE  PlanInv'
  BY <1>3, <1>4, ReadStep, PreviewStep, FinishStep, FailStep, MarkStep
<1> QED
  BY <1>1, <1>2, <1>4 DEF Next

(* The inductive invariant holds in every reachable state. *)
THEOREM Invariance == Spec => []PlanInv
BY InvInit, InvNext, PTL DEF Spec

(* Type correctness of the planners' state. *)
THEOREM TypeCorrect == Spec => []TypeOK
<1>1. PlanInv => TypeOK
  BY DEF PlanInv
<1> QED
  BY <1>1, Invariance, PTL

(* However a batch is applied, each of its items is written at most once. *)
THEOREM WrittenOnce == Spec => []ItemsWrittenOnce
<1>1. PlanInv => ItemsWrittenOnce
  <2>1. SUFFICES ASSUME PlanInv, NEW b \in Batches, NEW i \in Items
                 PROVE  wrote[b][i] <= 1
    BY DEF ItemsWrittenOnce
  <2>2. wrote[b][i] = 0 \/ wrote[b][i] = 1
    BY <2>1 DEF PlanInv, WroteInv
  <2> QED
    BY <2>2
<1> QED
  BY <1>1, Invariance, PTL

(* A batch that reports applied or deduplicated has what it suggested. *)
THEOREM DoneIsTrue == Spec => []DoneMeansDone
<1>1. PlanInv => DoneMeansDone
  BY DEF PlanInv
<1> QED
  BY <1>1, Invariance, PTL

(* A partial apply leaves the rest of its batch applicable. *)
THEOREM RestApplicable == Spec => []OpenItemsApplicable
<1>1. PlanInv => OpenItemsApplicable
  BY DEF PlanInv, VersionInv, OpenOK, OpenItemsApplicable
<1> QED
  BY <1>1, Invariance, PTL

(* No apply writes a row that somebody else changed since the preview,     *)
(* unless a merge has written the row.                                     *)
THEOREM NewerKept == Spec => NothingNewerOverwritten
<1>1. ASSUME PlanInv, [Next]_vars, NEW b \in Batches, NEW i \in Items,
             wrote'[b][i] # wrote[b][i], i[1] \notin merged
      PROVE  i[1] \notin touched[b]
  <2>1. wrote' # wrote
    BY <1>1
  <2>2. PICK q \in Requests, c \in Batches, S \in SUBSET Items :
          ApplyActions(q, c, S) \/ ApplyAssignments(q, c, S) \/ ApplyEstimates(q, c, S)
    <3>1. ASSUME NEW r \in Records PROVE ~DeleteRow(r) /\ ~RestoreRow(r)
                /\ \A c \in Cells, v \in Values : ~EditCell(r, c, v)
      BY <2>1 DEF DeleteRow, RestoreRow, EditCell
    <3>2. ASSUME NEW q \in Requests
          PROVE  ~ReadForActions(q) /\ ~ReadForAssignment(q) /\ ~ReadForEstimates(q)
      BY <2>1 DEF ReadForActions, ReadForAssignment, ReadForEstimates, BeginPreview, history
    <3>3. ASSUME NEW q \in Requests, NEW c \in Batches PROVE ~Preview(q, c)
      BY <2>1 DEF Preview, StoreActions, StoreAssignments, StoreEstimates, StorePreview,
                  PreviewTasks, PreviewDesign, PreviewWhole, history
    <3>4. ASSUME NEW q \in Requests, NEW c \in Batches
          PROVE  /\ ~ApplyFails(q, c) /\ ~Deduplicate(q, c) /\ ~BeginDesign(q, c)
                 /\ \A repeat \in BOOLEAN : ~BeginTasks(q, c, repeat)
      BY <2>1 DEF ApplyFails, Deduplicate, BeginDesign, BeginTasks, BeginCreate, history
    <3>5. ASSUME NEW q \in Requests
          PROVE  ~FinishTasks(q) /\ ~FinishDesign(q) /\ ~CreateFails(q) /\ ~ReadFailed(q)
                 /\ ~MarkFailed(q) /\ ~RequestDies(q)
                 /\ \A m \in Records \cup {NoRec} : ~LockTable(q, m)
      BY <2>1 DEF FinishTasks, FinishDesign, FinishCreate, CreateFails, ReadFailed,
                  MarkFailed, RequestDies, LockTable, history
    <3>6. Next
      BY <1>1, <2>1 DEF vars
    <3>7. PICK q \in Requests, c \in Batches : Apply(q, c)
      BY <3>1, <3>2, <3>3, <3>5, <3>6 DEF Next
    <3> QED
      BY <3>4, <3>7 DEF Apply
  <2>3. TypeOK
    BY <1>1 DEF PlanInv
  <2>4. PICK I \in SUBSET Items, v \in Values, always \in BOOLEAN :
          /\ VersionsMatch(c, I)
          /\ Commit(c, I, Patched(I, v, always),
                    IF batch[c].kind = "action"
                    THEN AdvanceVersions(c, I, Patched(I, v, always)) ELSE batch[c].base)
    BY <2>2, <2>3, ApplyIsCommit
  <2>5. wrote' = [wrote EXCEPT ![c] =
                    [j \in Items |-> wrote[c][j] + IF j \in I THEN 1 ELSE 0]]
    BY <2>4 DEF Commit
  <2>6. b = c /\ i \in I
    BY <1>1, <2>3, <2>5 DEF TypeOK
  <2>7. Stored(c)
    BY <2>2, <2>3, ApplyIsCommit
  <2>8. NewerOK(c)
    BY <1>1, <2>7 DEF PlanInv, VersionInv
  <2> QED
    BY <1>1, <2>3, <2>4, <2>6, <2>7, <2>8, CheckRefuses
<1>2. PlanInv /\ [Next]_vars =>
        [\A b \in Batches, i \in Items :
           wrote'[b][i] # wrote[b][i] /\ i[1] \notin merged => i[1] \notin touched[b]]_vars
  BY <1>1
<1> QED
  BY <1>2, Invariance, PTL DEF Spec, NothingNewerOverwritten
=============================================================================
