----------------------------- MODULE AssetStore -----------------------------
(***************************************************************************)
(* The revision store (internal/assets/store.go) under the handlers of     *)
(* internal/httpapi/server.go that write to it.  Handlers run concurrently,*)
(* one per request; each write is a Postgres transaction of several        *)
(* statements at READ COMMITTED.  What a transaction has written is private*)
(* to it (tx[h]) until Commit; a row it updated stays locked until then,   *)
(* and a statement that needs the row waits and re-reads it.               *)
(***************************************************************************)
EXTENDS RevisionLog

CONSTANT Handler  \* goroutines serving write requests

VARIABLES
    outbox_events_id_seq,  \* last id the bigserial sequence has handed out
    req,                   \* the request each handler serves, and its next step
    tx                     \* the uncommitted writes of each handler

vars == <<logVars, outbox_events_id_seq, req, tx>>

Step == {"idle", "insertAsset", "getSource", "updateAsset",
         "insertRevision", "insertEvent", "commit"}

Idle == [step |-> "idle", asset |-> None, kind |-> None, slug |-> None,
         title |-> None, document |-> None, source |-> Original, base |-> 0]

NoTx == [row |-> NoRow, revisions |-> {}, events |-> {}]

(***************************************************************************)
(* h's transaction has written the assets row: it holds the row's lock.    *)
(***************************************************************************)
InTx(h) == tx[h].row # NoRow

Locked(a) == \E h \in Handler : InTx(h) /\ req[h].asset = a

StoreInit ==
    /\ LogInit
    /\ outbox_events_id_seq = 0
    /\ req = [h \in Handler |-> Idle]
    /\ tx = [h \in Handler |-> NoTx]

-----------------------------------------------------------------------------
(***************************************************************************)
(* Requests arrive.                                                        *)
(***************************************************************************)

validDocument(kind, document) == document.kind = expected(kind)

Arrive(h, request) ==
    /\ req[h] = Idle
    /\ req' = [req EXCEPT ![h] = request]
    /\ UNCHANGED <<logVars, outbox_events_id_seq, tx>>

createAsset(h, kind, slug, title, document) ==
    /\ validDocument(kind, document)
    /\ Arrive(h, [Idle EXCEPT !.step = "insertAsset", !.kind = kind,
                  !.slug = slug, !.title = title, !.document = document])

(***************************************************************************)
(* A client takes If-Match from a response, so base is a revision that was *)
(* the head at some time.  The URL's kind only selects what validDocument  *)
(* asks of the document: the asset is found by id.                         *)
(***************************************************************************)
updateAsset(h, kind, a, base, title, document) ==
    /\ validDocument(kind, document)
    /\ base \in 1 .. Latest(a)
    /\ Arrive(h, [Idle EXCEPT !.step = "updateAsset", !.asset = a, !.base = base,
                  !.title = title, !.document = document])

(***************************************************************************)
(* The URL's revision may be 0 or one that does not exist yet.             *)
(***************************************************************************)
restoreRevision(h, a, source, base) ==
    /\ base \in 1 .. Latest(a)
    /\ source \in 0 .. Latest(a) + 1
    /\ Arrive(h, [Idle EXCEPT !.step = "getSource", !.asset = a, !.base = base,
                  !.source = source])

-----------------------------------------------------------------------------
(***************************************************************************)
(* Statements of Store.Create, Store.Restore and Store.Update.             *)
(***************************************************************************)

(***************************************************************************)
(* Rollback, and the error response: the transaction leaves no trace but   *)
(* the sequence value it drew.                                             *)
(***************************************************************************)
Abort(h) ==
    /\ req' = [req EXCEPT ![h] = Idle]
    /\ tx' = [tx EXCEPT ![h] = NoTx]
    /\ UNCHANGED <<logVars, outbox_events_id_seq>>

(***************************************************************************)
(* The UNIQUE index makes an INSERT wait for a pending one of the same key.*)
(***************************************************************************)
SlugPending(kind, slug) ==
    \E h \in Handler : /\ req[h].base = 0 /\ InTx(h)
                       /\ <<req[h].kind, req[h].slug>> = <<kind, slug>>

(* Mutant: looks for the slug among committed rows, without the index. *)
InsertAsset_CheckThenInsert(h) ==
    LET r == req[h] IN
    /\ r.step = "insertAsset"
    /\ IF SlugFree(r.kind, r.slug)
       THEN \E a \in Asset :
              /\ ~Exists(a) /\ ~Locked(a)
              /\ req' = [req EXCEPT ![h].step = "insertRevision", ![h].asset = a]
              /\ tx' = [tx EXCEPT ![h].row =
                         [kind |-> r.kind, slug |-> r.slug, title |-> r.title,
                          latest_revision |-> 1, archived |-> FALSE]]
              /\ UNCHANGED <<logVars, outbox_events_id_seq>>
       ELSE Abort(h)

(* Mutant: tries a taken slug again and again instead of answering 409. *)
InsertAsset_RetryTaken(h) ==
    /\ SlugFree(req[h].kind, req[h].slug)
    /\ InsertAsset_CheckThenInsert(h)

InsertAsset(h) ==
    LET r == req[h] IN
    /\ r.step = "insertAsset"
    /\ ~SlugPending(r.kind, r.slug)
    /\ IF SlugFree(r.kind, r.slug)
       THEN \E a \in Asset :
              /\ ~Exists(a) /\ ~Locked(a)
              /\ req' = [req EXCEPT ![h].step = "insertRevision", ![h].asset = a]
              /\ tx' = [tx EXCEPT ![h].row =
                         [kind |-> r.kind, slug |-> r.slug, title |-> r.title,
                          latest_revision |-> 1, archived |-> FALSE]]
              /\ UNCHANGED <<logVars, outbox_events_id_seq>>
       ELSE Abort(h)

(***************************************************************************)
(* Store.Restore first reads the old document, and the title, by a         *)
(* statement of its own.                                                   *)
(***************************************************************************)
(* Mutant: a revision that does not exist is restored as an empty document. *)
GetSource_NoRowsIgnored(h) ==
    LET r     == req[h]
        found == {row.document : row \in {q \in asset_revisions :
                    q.asset = r.asset /\ q.revision = Resolve(r.asset, r.source)}}
    IN
    /\ r.step = "getSource"
    /\ \E document \in IF found = {} THEN {None} ELSE found :
         req' = [req EXCEPT ![h].step = "updateAsset",
                            ![h].title = assets[r.asset].title,
                            ![h].document = document]
    /\ UNCHANGED <<logVars, outbox_events_id_seq, tx>>

(* Mutant: restores the title together with the document. *)
GetSource_OldTitle(h) ==
    LET r     == req[h]
        found == {row \in asset_revisions :
                    row.asset = r.asset /\ row.revision = Resolve(r.asset, r.source)}
    IN
    /\ r.step = "getSource"
    /\ IF found = {} THEN Abort(h)
       ELSE \E row \in found :
              /\ req' = [req EXCEPT ![h].step = "updateAsset",
                                    ![h].title = row.title,
                                    ![h].document = row.document]
              /\ UNCHANGED <<logVars, outbox_events_id_seq, tx>>

GetSource(h) ==
    LET r     == req[h]
        found == {row \in asset_revisions :
                    row.asset = r.asset /\ row.revision = Resolve(r.asset, r.source)}
    IN
    /\ r.step = "getSource"
    /\ IF found = {} THEN Abort(h)
       ELSE \E row \in found :
              /\ req' = [req EXCEPT ![h].step = "updateAsset",
                                    ![h].title = assets[r.asset].title,
                                    ![h].document = row.document]
              /\ UNCHANGED <<logVars, outbox_events_id_seq, tx>>

(***************************************************************************)
(* UPDATE assets ... WHERE id AND latest_revision = base.  It waits for the*)
(* row's lock and evaluates WHERE on the row it then finds; no row is      *)
(* ErrConflict.                                                            *)
(***************************************************************************)
(* Mutant: WHERE id only, any base is good. *)
UpdateAsset_AnyBase(h) ==
    LET r == req[h] IN
    /\ r.step = "updateAsset"
    /\ ~Locked(r.asset)
    /\ req' = [req EXCEPT ![h].step = "insertRevision"]
    /\ tx' = [tx EXCEPT ![h].row = [assets[r.asset] EXCEPT !.title = r.title,
                                                         !.latest_revision = @ + 1]]
    /\ UNCHANGED <<logVars, outbox_events_id_seq>>

(* Mutant: the UPDATE runs on the pool, outside the transaction. *)
UpdateAsset_OnPool(h) ==
    LET r   == req[h]
        row == [assets[r.asset] EXCEPT !.title = r.title, !.latest_revision = @ + 1]
    IN
    /\ r.step = "updateAsset"
    /\ ~Locked(r.asset)
    /\ IF Latest(r.asset) = r.base
       THEN /\ req' = [req EXCEPT ![h].step = "insertRevision"]
            /\ tx' = [tx EXCEPT ![h].row = row]
            /\ assets' = [assets EXCEPT ![r.asset] = row]
            /\ UNCHANGED <<asset_revisions, outbox_events, outbox_events_id_seq>>
       ELSE Abort(h)

UpdateAsset(h) ==
    LET r == req[h] IN
    /\ r.step = "updateAsset"
    /\ ~Locked(r.asset)
    /\ IF Latest(r.asset) = r.base
       THEN /\ req' = [req EXCEPT ![h].step = "insertRevision"]
            /\ tx' = [tx EXCEPT ![h].row =
                       [assets[r.asset] EXCEPT !.title = r.title,
                                               !.latest_revision = @ + 1]]
            /\ UNCHANGED <<logVars, outbox_events_id_seq>>
       ELSE Abort(h)

(***************************************************************************)
(* The primary key (asset_id, revision) refuses a second row.              *)
(***************************************************************************)
insertRevision(h) ==
    LET r   == req[h]
        new == [asset |-> r.asset, revision |-> tx[h].row.latest_revision,
                document |-> r.document, source |-> r.source,
                base |-> r.base, title |-> r.title]
    IN
    /\ r.step = "insertRevision"
    /\ IF \E row \in asset_revisions :
            row.asset = new.asset /\ row.revision = new.revision
       THEN Abort(h)
       ELSE /\ req' = [req EXCEPT ![h].step = "insertEvent"]
            /\ tx' = [tx EXCEPT ![h].revisions = {new}]
            /\ UNCHANGED <<logVars, outbox_events_id_seq>>

(***************************************************************************)
(* The id is drawn here, before the commit, and is never given back.  An   *)
(* exhausted sequence is an error.                                         *)
(***************************************************************************)
(* Mutant: the event is written on the pool, outside the transaction. *)
insertEvent_OnPool(h) ==
    LET id == outbox_events_id_seq + 1 IN
    /\ req[h].step = "insertEvent"
    /\ IF id \in EventId
       THEN /\ outbox_events_id_seq' = id
            /\ req' = [req EXCEPT ![h].step = "commit"]
            /\ outbox_events' = outbox_events \cup
                 {[id |-> id, asset |-> req[h].asset,
                   revision |-> tx[h].row.latest_revision]}
            /\ UNCHANGED <<assets, asset_revisions, tx>>
       ELSE Abort(h)

(* Mutant: the id is one more than the largest committed one. *)
insertEvent_MaxPlusOne(h) ==
    /\ req[h].step = "insertEvent"
    /\ \E id \in EventId :
         /\ \A e \in outbox_events : e.id < id
         /\ id = 1 \/ \E e \in outbox_events : e.id = id - 1
         /\ req' = [req EXCEPT ![h].step = "commit"]
         /\ tx' = [tx EXCEPT ![h].events =
                    {[id |-> id, asset |-> req[h].asset,
                      revision |-> tx[h].row.latest_revision]}]
    /\ UNCHANGED <<logVars, outbox_events_id_seq>>

insertEvent(h) ==
    LET id == outbox_events_id_seq + 1 IN
    /\ req[h].step = "insertEvent"
    /\ IF id \in EventId
       THEN /\ outbox_events_id_seq' = id
            /\ req' = [req EXCEPT ![h].step = "commit"]
            /\ tx' = [tx EXCEPT ![h].events =
                       {[id |-> id, asset |-> req[h].asset,
                         revision |-> tx[h].row.latest_revision]}]
            /\ UNCHANGED logVars
       ELSE Abort(h)

(***************************************************************************)
(* Whether or not the answer reaches the client.                           *)
(***************************************************************************)
Commit(h) ==
    /\ req[h].step = "commit"
    /\ assets' = [assets EXCEPT ![req[h].asset] = tx[h].row]
    /\ asset_revisions' = asset_revisions \cup tx[h].revisions
    /\ outbox_events' = outbox_events \cup tx[h].events
    /\ req' = [req EXCEPT ![h] = Idle]
    /\ tx' = [tx EXCEPT ![h] = NoTx]
    /\ UNCHANGED outbox_events_id_seq

(***************************************************************************)
(* A statement or the commit fails, the client goes away (its context ends *)
(* the transaction), or the process dies.                                  *)
(***************************************************************************)
Fail(h) == req[h].step # "idle" /\ Abort(h)

(***************************************************************************)
(* archiveAsset is one autocommitted UPDATE: it waits for the row's lock.  *)
(***************************************************************************)
(* Mutant: does not wait for the transaction that is writing the row. *)
archiveAsset_NoWait(a) == Archive(a) /\ UNCHANGED <<outbox_events_id_seq, req, tx>>

archiveAsset(a) == ~Locked(a) /\ Archive(a) /\ UNCHANGED <<outbox_events_id_seq, req, tx>>

-----------------------------------------------------------------------------
Request(h) ==
    \E kind \in Kind, title \in Title, document \in Document :
        \/ \E slug \in Slug : createAsset(h, kind, slug, title, document)
        \/ \E a \in Asset : \E base \in 1 .. Latest(a) :
             updateAsset(h, kind, a, base, title, document)

RestoreRequest(h) ==
    \E a \in Asset : \E base \in 1 .. Latest(a), source \in 0 .. Latest(a) + 1 :
        restoreRevision(h, a, source, base)

Statement(h) ==
    \/ InsertAsset(h)
    \/ GetSource(h)
    \/ UpdateAsset(h)
    \/ insertRevision(h)
    \/ insertEvent(h)
    \/ Commit(h)

StoreNext ==
    \/ \E h \in Handler : Request(h) \/ RestoreRequest(h) \/ Statement(h) \/ Fail(h)
    \/ \E a \in Asset : archiveAsset(a)

StoreSpec == StoreInit /\ [][StoreNext]_vars

(***************************************************************************)
(* A statement that waits for a lock gets it in turn: Postgres queues the  *)
(* waiters of a row.                                                       *)
(***************************************************************************)
FairStoreSpec == StoreSpec /\ \A h \in Handler : SF_vars(Statement(h))

-----------------------------------------------------------------------------
RequestRecord ==
    [step : Step, asset : Asset \cup {None}, kind : Kind \cup {None},
     slug : Slug \cup {None}, title : Title \cup {None},
     document : Document \cup {None}, source : Int, base : Nat]

TxRecord == [row : AssetRow \cup {NoRow}, revisions : SUBSET RevisionRow,
             events : SUBSET EventRow]

(***************************************************************************)
(* The types of the tables, the sequence and the handlers' state.          *)
(***************************************************************************)
TypeOK ==
    /\ LogTypeOK
    /\ outbox_events_id_seq \in Nat
    /\ req \in [Handler -> RequestRecord]
    /\ tx \in [Handler -> TxRecord]

(***************************************************************************)
(* The store implements the revision log: each commit is one append on top *)
(* of the head, every other statement changes nothing a reader can see.    *)
(***************************************************************************)
ImplementsLog == LogSpec

(***************************************************************************)
(* Every request ends: no handler waits forever for a row's lock or for a  *)
(* racing INSERT of its slug.                                              *)
(***************************************************************************)
RequestsAnswered == \A h \in Handler : (req[h] # Idle) ~> (req[h] = Idle)
=============================================================================
