-------------------------- MODULE AssetStoreProofs --------------------------
(***************************************************************************)
(* AssetStore keeps its types and implements RevisionLog, for every set of *)
(* handlers and assets; the safety properties of the log follow.           *)
(*                                                                         *)
(* HandlerOK says, step by step, what a handler's request and transaction  *)
(* hold and how they relate to the committed tables: once a handler owns   *)
(* the row, the committed row is still the one it updated.  Apart says that*)
(* two handlers never own the same row, insert the same slug or hold the   *)
(* same event id.                                                          *)
(***************************************************************************)
EXTENDS AssetStore, RevisionLogProofs

NoTxStep == {"idle", "insertAsset", "getSource", "updateAsset"}

(***************************************************************************)
(* What a restore read is still right, unless its base is stale already.   *)
(***************************************************************************)
SourceRead(h) ==
    LET r == req[h] IN
    r.source # Original /\ r.base = Latest(r.asset) =>
        /\ r.title = assets[r.asset].title
        /\ \E q \in asset_revisions :
             /\ q.asset = r.asset
             /\ q.revision = IF r.source = 0 THEN r.base ELSE r.source
             /\ q.document = r.document

Creating(h) ==
    LET r == req[h] IN
    /\ r.base = 0 /\ r.source = Original
    /\ r.kind \in Kind /\ r.slug \in Slug
    /\ validDocument(r.kind, r.document)
    /\ ~Exists(r.asset)
    /\ SlugFree(r.kind, r.slug)
    /\ tx[h].row = [kind |-> r.kind, slug |-> r.slug, title |-> r.title,
                    latest_revision |-> 1, archived |-> FALSE]

Updating(h) ==
    LET r == req[h] IN
    /\ r.base > 0
    /\ r.base = Latest(r.asset)
    /\ tx[h].row = [assets[r.asset] EXCEPT !.title = r.title, !.latest_revision = @ + 1]

NewRow(h) ==
    [asset |-> req[h].asset, revision |-> req[h].base + 1, document |-> req[h].document,
     source |-> req[h].source, base |-> req[h].base, title |-> req[h].title]

NewEvent(h, id) == [id |-> id, asset |-> req[h].asset, revision |-> req[h].base + 1]

Writes(h) ==
    /\ tx[h].revisions = IF req[h].step = "insertRevision" THEN {} ELSE {NewRow(h)}
    /\ req[h].step # "commit" => tx[h].events = {}
    /\ req[h].step = "commit" =>
         \E id \in EventId : /\ tx[h].events = {NewEvent(h, id)}
                             /\ id <= outbox_events_id_seq
                             /\ NewEventId(req[h].asset, id)

Filled(h) == /\ req[h].asset \in Asset
             /\ req[h].title \in Title
             /\ req[h].document \in Document
             /\ req[h].source \in Nat \cup {Original}

HandlerOK(h) ==
    LET r == req[h] IN
    /\ r.step = "idle" => r = Idle
    /\ r.step \in NoTxStep => tx[h] = NoTx
    /\ r.step = "insertAsset" =>
         /\ r.base = 0 /\ r.source = Original
         /\ r.kind \in Kind /\ r.slug \in Slug /\ r.title \in Title
         /\ r.document \in Document /\ validDocument(r.kind, r.document)
    /\ r.step = "getSource" =>
         r.asset \in Asset /\ r.source \in Nat /\ r.base \in 1 .. Latest(r.asset)
    /\ r.step = "updateAsset" =>
         Filled(h) /\ r.base \in 1 .. Latest(r.asset) /\ SourceRead(h)
    /\ r.step \notin NoTxStep =>
         Filled(h) /\ (Creating(h) \/ Updating(h)) /\ SourceRead(h) /\ Writes(h)

Apart(h, k) ==
    /\ InTx(h) /\ InTx(k) =>
         /\ req[h].asset # req[k].asset
         /\ req[h].base = 0 /\ req[k].base = 0 =>
              <<req[h].kind, req[h].slug>> # <<req[k].kind, req[k].slug>>
    /\ \A e \in tx[h].events, f \in tx[k].events : e.id # f.id

HInv ==
    /\ outbox_events_id_seq \in Nat
    /\ \A e \in outbox_events : e.id <= outbox_events_id_seq
    /\ req \in [Handler -> RequestRecord]
    /\ tx \in [Handler -> TxRecord]
    /\ \A h \in Handler : HandlerOK(h)
    /\ \A h, k \in Handler : h # k => Apart(h, k)

IInv == LogInv /\ HInv

-----------------------------------------------------------------------------
LEMMA IdleTypes == Idle \in RequestRecord /\ NoTx \in TxRecord
BY DEF Idle, RequestRecord, Step, Original, NoTx, TxRecord

LEMMA InTxStep ==
    ASSUME IInv, NEW h \in Handler
    PROVE  InTx(h) <=> req[h].step \notin NoTxStep
<1>1. HandlerOK(h) /\ req[h] \in RequestRecord
  BY DEF IInv, HInv
<1>2. CASE req[h].step \in NoTxStep
  BY <1>1, <1>2 DEF HandlerOK, InTx, NoTx
<1>3. CASE req[h].step \notin NoTxStep
  <2>1. Creating(h) \/ Updating(h)
    BY <1>1, <1>3 DEF HandlerOK
  <2>2. CASE Creating(h)
    BY <2>2, <1>3 DEF Creating, InTx, NoRow
  <2>3. CASE Updating(h)
    <3>1. tx[h].row.title = req[h].title /\ req[h].title \in Title
      <4>1. assets[req[h].asset] \in AssetRow \/ assets[req[h].asset] = NoRow
        BY <1>1, <1>3 DEF HandlerOK, Filled, IInv, LogInv, LogTypeOK
      <4> QED BY <4>1, <1>1, <1>3, <2>3 DEF HandlerOK, Filled, Updating, AssetRow, NoRow
    <3>2. None \notin Title
      BY NoneAssumption
    <3> QED BY <3>1, <3>2, <1>3 DEF InTx, NoRow
  <2> QED BY <2>1, <2>2, <2>3
<1> QED BY <1>2, <1>3

(***************************************************************************)
(* A handler that did not move stays right if the log only grew and, once  *)
(* it owns a row, the log left its row, its slug and its event id alone.   *)
(***************************************************************************)
LEMMA OtherHandler ==
    ASSUME IInv, NEW k \in Handler,
           req'[k] = req[k], tx'[k] = tx[k],
           outbox_events_id_seq' \in Nat, outbox_events_id_seq <= outbox_events_id_seq',
           \A a \in Asset : /\ Latest(a)' \in Nat /\ Latest(a) <= Latest(a)'
                            /\ Latest(a)' = Latest(a) => assets'[a].title = assets[a].title,
           asset_revisions \subseteq asset_revisions',
           InTx(k) =>
             /\ assets'[req[k].asset] = assets[req[k].asset]
             /\ req[k].base = 0 /\ SlugFree(req[k].kind, req[k].slug)
                  => SlugFree(req[k].kind, req[k].slug)'
             /\ \A id \in EventId :
                  tx[k].events = {NewEvent(k, id)} /\ NewEventId(req[k].asset, id)
                    => NewEventId(req[k].asset, id)'
    PROVE  HandlerOK(k)'
<1>1. HandlerOK(k) /\ outbox_events_id_seq \in Nat /\ req[k] \in RequestRecord
  BY DEF IInv, HInv
<1>2. \A a \in Asset : Latest(a) \in Nat
  BY LatestType DEF IInv, LogInv
<1>3. req[k].asset \in Asset /\ req[k].base \in 1 .. Latest(req[k].asset)
        => req[k].base \in 1 .. Latest(req[k].asset)' /\ (SourceRead(k) => SourceRead(k)')
  <2>1. ASSUME req[k].asset \in Asset, req[k].base \in 1 .. Latest(req[k].asset)
        PROVE  req[k].base \in 1 .. Latest(req[k].asset)'
    BY <1>2, <2>1
  <2>2. ASSUME req[k].asset \in Asset, req[k].base \in 1 .. Latest(req[k].asset), SourceRead(k),
               req[k].source # Original, req[k].base = Latest(req[k].asset)'
        PROVE  Latest(req[k].asset)' = Latest(req[k].asset)
    BY <1>2, <2>2
  <2> QED BY <2>1, <2>2, <1>2 DEF SourceRead, Latest
<1>4. (Filled(k) => Filled(k)') /\ (NewRow(k))' = NewRow(k)
  BY DEF Filled, NewRow
<1>5. CASE req[k].step \in NoTxStep
  BY <1>1, <1>3, <1>4, <1>5 DEF HandlerOK, NoTxStep, Filled
<1>6. CASE req[k].step \notin NoTxStep
  <2>1. /\ Filled(k) /\ (Creating(k) \/ Updating(k)) /\ SourceRead(k) /\ Writes(k)
        /\ InTx(k)
    BY <1>1, <1>6, InTxStep DEF HandlerOK
  <2>2. Creating(k) => Creating(k)'
    BY <2>1 DEF Creating, Exists
  <2>3. Updating(k) => Updating(k)'
    BY <2>1 DEF Updating, Latest
  <2>4. SourceRead(k)'
    <3>1. CASE Creating(k)
      BY <3>1 DEF SourceRead, Creating
    <3>2. CASE Updating(k)
      BY <2>1, <3>2, <1>2, <1>3 DEF Filled, Updating
    <3> QED BY <2>1, <3>1, <3>2
  <2>5. Writes(k)'
    <3>1. CASE req[k].step # "commit"
      BY <3>1, <2>1, <1>4 DEF Writes
    <3>2. CASE req[k].step = "commit"
      <4>1. PICK id \in EventId : /\ tx[k].events = {NewEvent(k, id)}
                                  /\ id <= outbox_events_id_seq
                                  /\ NewEventId(req[k].asset, id)
        BY <3>2, <2>1 DEF Writes
      <4>2. NewEventId(req[k].asset, id)'
        BY <4>1, <2>1
      <4>3. id <= outbox_events_id_seq'
        BY <4>1, <1>1 DEF EventId
      <4>4. tx'[k].events = {NewEvent(k, id)'}
        BY <4>1 DEF NewEvent
      <4>5. tx'[k].revisions = {NewRow(k)'}
        BY <3>2, <2>1, <1>4 DEF Writes
      <4> QED BY <3>2, <4>2, <4>3, <4>4, <4>5 DEF Writes
    <3> QED BY <3>1, <3>2
  <2> QED BY <1>4, <1>6, <2>1, <2>2, <2>3, <2>4, <2>5 DEF HandlerOK, NoTxStep
<1> QED BY <1>5, <1>6

(***************************************************************************)
(* A step of one handler that leaves the committed tables alone.           *)
(***************************************************************************)
LEMMA PrivateStep ==
    ASSUME IInv, NEW h \in Handler,
           UNCHANGED logVars,
           outbox_events_id_seq' \in Nat, outbox_events_id_seq <= outbox_events_id_seq',
           NEW r \in RequestRecord, req' = [req EXCEPT ![h] = r],
           NEW w \in TxRecord, tx' = [tx EXCEPT ![h] = w],
           HandlerOK(h)',
           \A k \in Handler : k # h => Apart(h, k)'
    PROVE  IInv'
<1>1. LogInv'
  BY LogNextInv DEF IInv
<1>2. \A k \in Handler : k # h => req'[k] = req[k] /\ tx'[k] = tx[k]
  BY DEF IInv, HInv
<1>3. ASSUME NEW k \in Handler, k # h PROVE HandlerOK(k)'
  <2>1. \A a \in Asset : /\ Latest(a)' \in Nat /\ Latest(a) <= Latest(a)'
                         /\ Latest(a)' = Latest(a) /\ assets'[a].title = assets[a].title
    BY LatestType DEF IInv, LogInv, Latest, logVars
  <2>2. /\ assets'[req[k].asset] = assets[req[k].asset]
        /\ SlugFree(req[k].kind, req[k].slug) => SlugFree(req[k].kind, req[k].slug)'
        /\ \A id \in EventId : NewEventId(req[k].asset, id) => NewEventId(req[k].asset, id)'
    BY <1>2, <1>3 DEF SlugFree, NewEventId, logVars
  <2> QED BY <1>2, <1>3, <2>1, <2>2, OtherHandler DEF logVars
<1>4. ASSUME NEW j \in Handler, NEW k \in Handler, j # k PROVE Apart(j, k)'
  <2>1. CASE j = h
    BY <2>1, <1>4
  <2>2. CASE k = h
    BY <2>2, <1>4 DEF Apart
  <2>3. CASE j # h /\ k # h
    BY <2>3, <1>2, <1>4 DEF Apart, InTx, IInv, HInv
  <2> QED BY <2>1, <2>2, <2>3
<1>5. /\ req' \in [Handler -> RequestRecord] /\ tx' \in [Handler -> TxRecord]
      /\ \A e \in outbox_events' : e.id <= outbox_events_id_seq'
  BY DEF IInv, HInv, logVars, LogInv, LogTypeOK, EventRow, EventId
<1> QED BY <1>1, <1>3, <1>4, <1>5 DEF IInv, HInv

(***************************************************************************)
(* A handler outside any transaction is apart from every other.            *)
(***************************************************************************)
LEMMA NoTxApart ==
    ASSUME NEW h \in Handler, tx'[h] = NoTx
    PROVE  \A k \in Handler : Apart(h, k)'
BY DEF Apart, InTx, NoTx

LEMMA AbortKeeps ==
    ASSUME IInv, NEW h \in Handler, Abort(h)
    PROVE  IInv'
<1>1. req'[h] = Idle /\ tx'[h] = NoTx
  BY DEF Abort, IInv, HInv
<1>2. HandlerOK(h)'
  BY <1>1 DEF HandlerOK, Idle, NoTxStep
<1>3. \A k \in Handler : k # h => Apart(h, k)'
  BY <1>1, NoTxApart
<1>4. /\ UNCHANGED logVars
      /\ outbox_events_id_seq' \in Nat /\ outbox_events_id_seq <= outbox_events_id_seq'
      /\ req' = [req EXCEPT ![h] = Idle] /\ tx' = [tx EXCEPT ![h] = NoTx]
  BY DEF Abort, IInv, HInv
<1> QED BY <1>2, <1>3, <1>4, IdleTypes, PrivateStep

LEMMA ArriveKeeps ==
    ASSUME IInv, NEW h \in Handler, NEW r \in RequestRecord, Arrive(h, r), HandlerOK(h)'
    PROVE  IInv'
<1>1. tx[h] = NoTx
  BY DEF Arrive, Idle, IInv, HInv, HandlerOK, NoTxStep
<1>2. tx' = [tx EXCEPT ![h] = NoTx] /\ tx'[h] = NoTx
  BY <1>1 DEF Arrive, IInv, HInv
<1>3. \A k \in Handler : k # h => Apart(h, k)'
  BY <1>2, NoTxApart
<1>4. /\ UNCHANGED logVars
      /\ outbox_events_id_seq' \in Nat /\ outbox_events_id_seq <= outbox_events_id_seq'
      /\ req' = [req EXCEPT ![h] = r]
  BY DEF Arrive, IInv, HInv
<1> QED BY <1>2, <1>3, <1>4, IdleTypes, PrivateStep

LEMMA RequestKeeps ==
    ASSUME IInv, NEW h \in Handler, Request(h)
    PROVE  IInv'
<1>1. ASSUME NEW kind \in Kind, NEW slug \in Slug, NEW title \in Title,
             NEW document \in Document, createAsset(h, kind, slug, title, document)
      PROVE  IInv'
  <2> DEFINE r == [Idle EXCEPT !.step = "insertAsset", !.kind = kind,
                   !.slug = slug, !.title = title, !.document = document]
  <2>1. r \in RequestRecord
    BY IdleTypes DEF RequestRecord, Step
  <2>2. Arrive(h, r) /\ validDocument(kind, document)
    BY <1>1 DEF createAsset
  <2>3. req'[h] = r /\ tx'[h] = NoTx
    BY <2>2 DEF Arrive, Idle, IInv, HInv, HandlerOK, NoTxStep
  <2>4. /\ req'[h].step = "insertAsset" /\ req'[h].base = 0 /\ req'[h].source = Original
        /\ req'[h].kind = kind /\ req'[h].slug = slug /\ req'[h].title = title
        /\ req'[h].document = document
    BY <2>3 DEF Idle
  <2>5. HandlerOK(h)'
    BY <2>2, <2>3, <2>4 DEF HandlerOK, NoTxStep, validDocument
  <2> HIDE DEF r
  <2> QED BY <2>1, <2>2, <2>5, ArriveKeeps
<1>2. ASSUME NEW kind \in Kind, NEW title \in Title, NEW document \in Document,
             NEW a \in Asset, NEW base \in 1 .. Latest(a),
             updateAsset(h, kind, a, base, title, document)
      PROVE  IInv'
  <2> DEFINE r == [Idle EXCEPT !.step = "updateAsset", !.asset = a, !.base = base,
                   !.title = title, !.document = document]
  <2>1. r \in RequestRecord
    <3>1. base \in Nat
      BY LatestType DEF IInv, LogInv
    <3> QED BY <3>1, IdleTypes DEF RequestRecord, Step
  <2>2. Arrive(h, r)
    BY <1>2 DEF updateAsset
  <2>3. req'[h] = r /\ tx'[h] = NoTx /\ Latest(a)' = Latest(a)
    BY <2>2 DEF Arrive, Idle, IInv, HInv, HandlerOK, NoTxStep, logVars, Latest
  <2>4. /\ req'[h].step = "updateAsset" /\ req'[h].asset = a /\ req'[h].base = base
        /\ req'[h].title = title /\ req'[h].document = document /\ req'[h].source = Original
    BY <2>3 DEF Idle
  <2>5. Filled(h)' /\ SourceRead(h)'
    BY <2>4 DEF Filled, SourceRead
  <2>6. HandlerOK(h)'
    BY <2>3, <2>4, <2>5 DEF HandlerOK, NoTxStep
  <2> HIDE DEF r
  <2> QED BY <2>1, <2>2, <2>6, ArriveKeeps
<1> QED BY <1>1, <1>2 DEF Request

LEMMA RestoreRequestKeeps ==
    ASSUME IInv, NEW h \in Handler, RestoreRequest(h)
    PROVE  IInv'
<1>0. PICK a \in Asset : \E base \in 1 .. Latest(a), source \in 0 .. Latest(a) + 1 :
        restoreRevision(h, a, source, base)
  BY DEF RestoreRequest
<1>1. PICK base \in 1 .. Latest(a), source \in 0 .. Latest(a) + 1 :
         restoreRevision(h, a, source, base)
  BY <1>0
<1> DEFINE r == [Idle EXCEPT !.step = "getSource", !.asset = a, !.base = base,
                 !.source = source]
<1>2. r \in RequestRecord /\ source \in Nat
  <2>1. source \in Nat /\ source \in Int /\ base \in Nat
    BY LatestType DEF IInv, LogInv
  <2>2. r \in RequestRecord
    BY <2>1, IdleTypes DEF RequestRecord, Step
  <2> QED BY <2>1, <2>2
<1>3. Arrive(h, r)
  BY <1>1 DEF restoreRevision
<1>4. req'[h] = r /\ tx'[h] = NoTx /\ Latest(a)' = Latest(a)
  BY <1>3 DEF Arrive, Idle, IInv, HInv, HandlerOK, NoTxStep, logVars, Latest
<1>5. HandlerOK(h)'
  BY <1>2, <1>4 DEF HandlerOK, NoTxStep, Idle
<1> HIDE DEF r
<1> QED BY <1>2, <1>3, <1>5, ArriveKeeps

LEMMA InsertAssetKeeps ==
    ASSUME IInv, NEW h \in Handler, InsertAsset(h)
    PROVE  IInv'
<1>1. CASE SlugFree(req[h].kind, req[h].slug)
  <2>1. PICK a \in Asset :
          /\ ~Exists(a) /\ ~Locked(a)
          /\ req' = [req EXCEPT ![h].step = "insertRevision", ![h].asset = a]
          /\ tx' = [tx EXCEPT ![h].row =
                     [kind |-> req[h].kind, slug |-> req[h].slug, title |-> req[h].title,
                      latest_revision |-> 1, archived |-> FALSE]]
          /\ UNCHANGED <<logVars, outbox_events_id_seq>>
    BY <1>1 DEF InsertAsset
  <2>2. /\ req[h].step = "insertAsset" /\ ~SlugPending(req[h].kind, req[h].slug)
        /\ req[h] \in RequestRecord /\ tx[h] = NoTx
        /\ req[h].base = 0 /\ req[h].source = Original
        /\ req[h].kind \in Kind /\ req[h].slug \in Slug /\ req[h].title \in Title
        /\ req[h].document \in Document /\ validDocument(req[h].kind, req[h].document)
    BY DEF InsertAsset, IInv, HInv, HandlerOK, NoTxStep
  <2> DEFINE r == [req[h] EXCEPT !.step = "insertRevision", !.asset = a]
             row == [kind |-> req[h].kind, slug |-> req[h].slug, title |-> req[h].title,
                     latest_revision |-> 1, archived |-> FALSE]
             w == [tx[h] EXCEPT !.row = row]
  <2>3. r \in RequestRecord /\ row \in AssetRow /\ w \in TxRecord
    <3>1. r \in RequestRecord
      BY <2>2 DEF RequestRecord, Step
    <3>2. row \in AssetRow
      BY <2>2 DEF AssetRow
    <3>3. tx[h] \in TxRecord
      BY DEF IInv, HInv
    <3> HIDE DEF row
    <3>4. w \in TxRecord
      BY <3>2, <3>3 DEF TxRecord
    <3> QED BY <3>1, <3>2, <3>4
  <2>4. req' = [req EXCEPT ![h] = r] /\ tx' = [tx EXCEPT ![h] = w]
    BY <2>1
  <2>5. /\ req'[h] = r /\ tx'[h] = w
        /\ \A k \in Handler : k # h => req'[k] = req[k] /\ tx'[k] = tx[k]
    BY <2>4 DEF IInv, HInv
  <2>6. /\ req'[h].step = "insertRevision" /\ req'[h].asset = a /\ req'[h].base = 0
        /\ req'[h].source = Original /\ req'[h].kind = req[h].kind
        /\ req'[h].slug = req[h].slug /\ req'[h].title = req[h].title
        /\ req'[h].document = req[h].document
        /\ tx'[h].row = row /\ tx'[h].revisions = {} /\ tx'[h].events = {}
    BY <2>2, <2>5 DEF RequestRecord, NoTx
  <2>7. HandlerOK(h)'
    <3>1. Filled(h)' /\ SourceRead(h)' /\ Writes(h)'
      BY <2>2, <2>6 DEF Filled, SourceRead, Writes
    <3>2. Creating(h)'
      BY <1>1, <2>1, <2>2, <2>6 DEF Creating, SlugFree, Exists, validDocument, logVars
    <3> QED BY <3>1, <3>2, <2>6 DEF HandlerOK, NoTxStep
  <2>8. ASSUME NEW k \in Handler, k # h PROVE Apart(h, k)'
    <3>1. req'[k] = req[k] /\ tx'[k] = tx[k]
      BY <2>5, <2>8
    <3>2. InTx(k) => /\ req[k].asset # a
                     /\ req[k].base = 0 =>
                          <<req[k].kind, req[k].slug>> # <<req[h].kind, req[h].slug>>
      BY <2>1, <2>2 DEF Locked, SlugPending
    <3> QED BY <3>1, <3>2, <2>6 DEF Apart, InTx
  <2>9. /\ UNCHANGED logVars
        /\ outbox_events_id_seq' \in Nat /\ outbox_events_id_seq <= outbox_events_id_seq'
    BY <2>1 DEF IInv, HInv
  <2> HIDE DEF r, w, row
  <2> QED BY <2>3, <2>4, <2>7, <2>8, <2>9, PrivateStep
<1>2. CASE ~SlugFree(req[h].kind, req[h].slug)
  BY <1>2, AbortKeeps DEF InsertAsset
<1> QED BY <1>1, <1>2

LEMMA GetSourceKeeps ==
    ASSUME IInv, NEW h \in Handler, GetSource(h)
    PROVE  IInv'
<1> DEFINE found == {row \in asset_revisions :
                       /\ row.asset = req[h].asset
                       /\ row.revision = Resolve(req[h].asset, req[h].source)}
<1>1. CASE found = {}
  BY <1>1, AbortKeeps DEF GetSource
<1>2. CASE found # {}
  <2>1. PICK row \in found :
          /\ req' = [req EXCEPT ![h].step = "updateAsset",
                                ![h].title = assets[req[h].asset].title,
                                ![h].document = row.document]
          /\ UNCHANGED <<logVars, outbox_events_id_seq, tx>>
    BY <1>2 DEF GetSource
  <2>2. /\ req[h].step = "getSource" /\ req[h] \in RequestRecord /\ tx[h] = NoTx
        /\ req[h].asset \in Asset /\ req[h].source \in Nat
        /\ req[h].base \in 1 .. Latest(req[h].asset)
    BY DEF GetSource, IInv, HInv, HandlerOK, NoTxStep
  <2>3. row.document \in Document
    BY DEF IInv, LogInv, LogTypeOK, RevisionRow
  <2>4. assets[req[h].asset].title \in Title
    <3>1. Exists(req[h].asset)
      BY <2>2, LatestType DEF IInv, LogInv
    <3> QED BY <3>1, <2>2, LatestType DEF IInv, LogInv, AssetRow
  <2> DEFINE r == [req[h] EXCEPT !.step = "updateAsset",
                     !.title = assets[req[h].asset].title, !.document = row.document]
  <2>5. r \in RequestRecord
    BY <2>2, <2>3, <2>4 DEF RequestRecord, Step
  <2>6. /\ req' = [req EXCEPT ![h] = r] /\ tx' = [tx EXCEPT ![h] = NoTx]
        /\ req'[h] = r /\ tx'[h] = NoTx
    BY <2>1, <2>2 DEF IInv, HInv
  <2>7. /\ req'[h].step = "updateAsset" /\ req'[h].asset = req[h].asset
        /\ req'[h].base = req[h].base /\ req'[h].source = req[h].source
        /\ req'[h].title = assets[req[h].asset].title
        /\ req'[h].document = row.document
    <3> DEFINE title == assets[req[h].asset].title
    <3> HIDE DEF title
    <3>1. r = [req[h] EXCEPT !.step = "updateAsset", !.title = title, !.document = row.document]
      BY DEF title
    <3>2. /\ r.step = "updateAsset" /\ r.asset = req[h].asset /\ r.base = req[h].base
          /\ r.source = req[h].source /\ r.title = title /\ r.document = row.document
      BY <2>2, <3>1 DEF RequestRecord
    <3> HIDE DEF r
    <3> QED BY <2>6, <3>2 DEF title
  <2>0. \A a \in Asset : Latest(a)' = Latest(a)
    BY <2>1 DEF Latest, logVars
  <2>8. HandlerOK(h)'
    <3>1. Filled(h)'
      BY <2>2, <2>3, <2>4, <2>7 DEF Filled
    <3>2. SourceRead(h)'
      <4>1. /\ row.asset = req[h].asset /\ row \in asset_revisions'
            /\ row.revision = IF req[h].source = 0 THEN Latest(req[h].asset) ELSE req[h].source
            /\ assets' = assets
        <5>1. row \in asset_revisions /\ row.asset = req[h].asset
              /\ row.revision = Resolve(req[h].asset, req[h].source)
          OBVIOUS
        <5>2. assets' = assets /\ asset_revisions' = asset_revisions
          BY <2>1 DEF logVars
        <5> QED BY <2>0, <2>2, <5>1, <5>2 DEF Resolve
      <4> QED BY <2>2, <2>7, <4>1 DEF SourceRead, Latest
    <3>3. (req[h].base \in 1 .. Latest(req[h].asset))'
      BY <2>0, <2>2, <2>7 DEF Latest
    <3> QED BY <3>1, <3>2, <3>3, <2>6, <2>7 DEF HandlerOK, NoTxStep
  <2> HIDE DEF r
  <2>9. \A k \in Handler : k # h => Apart(h, k)'
    BY <2>6, NoTxApart
  <2>10. /\ UNCHANGED logVars
         /\ outbox_events_id_seq' \in Nat /\ outbox_events_id_seq <= outbox_events_id_seq'
    BY <2>1 DEF IInv, HInv
  <2> QED BY <2>5, <2>6, <2>8, <2>9, <2>10, IdleTypes, PrivateStep
<1> QED BY <1>1, <1>2

LEMMA UpdateAssetKeeps ==
    ASSUME IInv, NEW h \in Handler, UpdateAsset(h)
    PROVE  IInv'
<1>1. CASE Latest(req[h].asset) = req[h].base
  <2>1. /\ req[h].step = "updateAsset" /\ ~Locked(req[h].asset)
        /\ req' = [req EXCEPT ![h].step = "insertRevision"]
        /\ tx' = [tx EXCEPT ![h].row =
                   [assets[req[h].asset] EXCEPT !.title = req[h].title,
                                                !.latest_revision = @ + 1]]
        /\ UNCHANGED <<logVars, outbox_events_id_seq>>
    BY <1>1 DEF UpdateAsset
  <2>2. /\ req[h] \in RequestRecord /\ tx[h] = NoTx /\ tx[h] \in TxRecord
        /\ Filled(h) /\ SourceRead(h) /\ req[h].base \in 1 .. Latest(req[h].asset)
    BY <2>1 DEF IInv, HInv, HandlerOK, NoTxStep
  <2> DEFINE a == req[h].asset
             row == [assets[a] EXCEPT !.title = req[h].title, !.latest_revision = @ + 1]
             r == [req[h] EXCEPT !.step = "insertRevision"]
             w == [tx[h] EXCEPT !.row = row]
  <2>3. /\ a \in Asset /\ Latest(a) \in Nat /\ assets[a] \in AssetRow
        /\ req[h].title \in Title
    BY <2>2, LatestType DEF Filled, IInv, LogInv
  <2>4. row \in AssetRow
    <3>1. assets[a].latest_revision + 1 \in Nat \ {0}
      BY <2>3 DEF Latest
    <3> QED BY <2>3, <3>1 DEF AssetRow
  <2>5. r \in RequestRecord
    BY <2>2 DEF RequestRecord, Step
  <2>6. w \in TxRecord
    <3> HIDE DEF row
    <3> QED BY <2>2, <2>4 DEF TxRecord
  <2>7. /\ req' = [req EXCEPT ![h] = r] /\ tx' = [tx EXCEPT ![h] = w]
        /\ req'[h] = r /\ tx'[h] = w
        /\ \A k \in Handler : k # h => req'[k] = req[k] /\ tx'[k] = tx[k]
    BY <2>1 DEF IInv, HInv
  <2>8. /\ r.step = "insertRevision" /\ r.asset = a /\ r.base = req[h].base
        /\ r.source = req[h].source /\ r.title = req[h].title
        /\ r.document = req[h].document
    BY <2>2 DEF RequestRecord
  <2>9. w.row = row /\ w.revisions = {} /\ w.events = {}
    BY <2>2 DEF NoTx
  <2> HIDE DEF r, w
  <2>10. HandlerOK(h)'
    <3>1. /\ req'[h].step = "insertRevision" /\ req'[h].asset = a
          /\ req'[h].base = req[h].base /\ req'[h].source = req[h].source
          /\ req'[h].title = req[h].title /\ req'[h].document = req[h].document
          /\ tx'[h].row = row /\ tx'[h].revisions = {} /\ tx'[h].events = {}
      BY <2>7, <2>8, <2>9
    <3>2. assets' = assets /\ asset_revisions' = asset_revisions
      BY <2>1 DEF logVars
    <3>3. Filled(h)'
      BY <2>2, <3>1 DEF Filled
    <3>4. SourceRead(h)'
      BY <2>2, <3>1, <3>2 DEF SourceRead, Latest
    <3>5. Writes(h)'
      BY <3>1 DEF Writes
    <3>6. Updating(h)'
      <4>1. (req[h].base > 0)' /\ (req[h].base = Latest(req[h].asset))'
        BY <1>1, <2>2, <2>3, <3>1, <3>2 DEF Latest
      <4>2. tx'[h].row = [assets'[req'[h].asset] EXCEPT !.title = req'[h].title,
                                                       !.latest_revision = @ + 1]
        BY Zenon, <3>1, <3>2
      <4> QED BY <4>1, <4>2 DEF Updating
    <3> QED BY <3>1, <3>3, <3>4, <3>5, <3>6 DEF HandlerOK, NoTxStep
  <2>11. ASSUME NEW k \in Handler, k # h PROVE Apart(h, k)'
    <3>1. InTx(k) => req[k].asset # a
      BY <2>1 DEF Locked
    <3>2. req'[h].base # 0
      BY <2>2, <2>3, <2>7, <2>8
    <3> HIDE DEF row
    <3> QED BY <3>1, <3>2, <2>7, <2>8, <2>9, <2>11 DEF Apart, InTx
  <2>12. /\ UNCHANGED logVars
         /\ outbox_events_id_seq' \in Nat /\ outbox_events_id_seq <= outbox_events_id_seq'
    BY <2>1 DEF IInv, HInv
  <2> QED BY <2>5, <2>6, <2>7, <2>10, <2>11, <2>12, PrivateStep
<1>2. CASE Latest(req[h].asset) # req[h].base
  BY <1>2, AbortKeeps DEF UpdateAsset
<1> QED BY <1>1, <1>2

(***************************************************************************)
(* Facts of a handler in a transaction, used by the next three steps.      *)
(***************************************************************************)
LEMMA InTxFacts ==
    ASSUME IInv, NEW h \in Handler, req[h].step \notin NoTxStep
    PROVE  /\ req[h] \in RequestRecord /\ tx[h] \in TxRecord /\ InTx(h)
           /\ Filled(h) /\ (Creating(h) \/ Updating(h)) /\ SourceRead(h) /\ Writes(h)
           /\ req[h].base = Latest(req[h].asset) /\ req[h].base \in Nat
           /\ tx[h].row \in AssetRow
           /\ tx[h].row.latest_revision = req[h].base + 1
           /\ tx[h].row.title = req[h].title
<1>1. /\ req[h] \in RequestRecord /\ tx[h] \in TxRecord /\ InTx(h)
      /\ Filled(h) /\ (Creating(h) \/ Updating(h)) /\ SourceRead(h) /\ Writes(h)
  BY InTxStep DEF IInv, HInv, HandlerOK
<1>2. tx[h].row \in AssetRow
  BY <1>1 DEF InTx, TxRecord
<1>3. req[h].asset \in Asset /\ req[h].base \in Nat
  BY <1>1 DEF Filled, RequestRecord
<1>4. CASE Creating(h)
  BY <1>1, <1>2, <1>3, <1>4, LatestType DEF Creating, IInv, LogInv
<1>5. CASE Updating(h)
  <2>1. assets[req[h].asset] \in AssetRow
    BY <1>3, <1>5, LatestType DEF Updating, IInv, LogInv
  <2> QED BY <1>1, <1>2, <1>3, <1>5, <2>1 DEF Updating, Latest, AssetRow
<1> QED BY <1>1, <1>2, <1>3, <1>4, <1>5

(***************************************************************************)
(* Only the step and the later writes of a handler's transaction change.   *)
(***************************************************************************)
LEMMA SameRequest ==
    ASSUME NEW h \in Handler,
           assets' = assets, asset_revisions' = asset_revisions,
           req'[h].asset = req[h].asset, req'[h].base = req[h].base,
           req'[h].source = req[h].source, req'[h].title = req[h].title,
           req'[h].kind = req[h].kind, req'[h].slug = req[h].slug,
           req'[h].document = req[h].document, tx'[h].row = tx[h].row,
           Filled(h), SourceRead(h), Creating(h) \/ Updating(h)
    PROVE  Filled(h)' /\ SourceRead(h)' /\ (Creating(h)' \/ Updating(h)')
<1>1. Filled(h)'
  BY DEF Filled
<1>2. SourceRead(h)'
  BY DEF SourceRead, Latest
<1>3. Creating(h) => Creating(h)'
  BY DEF Creating, Exists, SlugFree, validDocument
<1>4. Updating(h) => Updating(h)'
  BY DEF Updating, Latest
<1> QED BY <1>1, <1>2, <1>3, <1>4

LEMMA insertRevisionKeeps ==
    ASSUME IInv, NEW h \in Handler, insertRevision(h)
    PROVE  IInv'
<1> DEFINE new == [asset |-> req[h].asset, revision |-> tx[h].row.latest_revision,
                   document |-> req[h].document, source |-> req[h].source,
                   base |-> req[h].base, title |-> req[h].title]
<1>1. req[h].step = "insertRevision"
  BY DEF insertRevision
<1>2. req[h].step \notin NoTxStep
  BY <1>1 DEF NoTxStep
<1>3. CASE \E row \in asset_revisions : row.asset = new.asset /\ row.revision = new.revision
  BY <1>3, AbortKeeps DEF insertRevision
<1>4. CASE ~\E row \in asset_revisions : row.asset = new.asset /\ row.revision = new.revision
  <2>1. /\ req' = [req EXCEPT ![h].step = "insertEvent"]
        /\ tx' = [tx EXCEPT ![h].revisions = {new}]
        /\ UNCHANGED <<logVars, outbox_events_id_seq>>
    BY <1>4 DEF insertRevision
  <2> DEFINE r == [req[h] EXCEPT !.step = "insertEvent"]
             w == [tx[h] EXCEPT !.revisions = {new}]
  <2>2. new = NewRow(h) /\ new \in RevisionRow
    BY <1>2, InTxFacts DEF NewRow, RevisionRow, Filled, Original
  <2> HIDE DEF new
  <2>3. r \in RequestRecord /\ w \in TxRecord
    BY <1>2, <2>2, InTxFacts DEF RequestRecord, Step, TxRecord
  <2>4. /\ req' = [req EXCEPT ![h] = r] /\ tx' = [tx EXCEPT ![h] = w]
        /\ req'[h] = r /\ tx'[h] = w
        /\ \A k \in Handler : k # h => req'[k] = req[k] /\ tx'[k] = tx[k]
    BY <2>1 DEF IInv, HInv
  <2>5. /\ r.step = "insertEvent" /\ r.asset = req[h].asset /\ r.base = req[h].base
        /\ r.source = req[h].source /\ r.title = req[h].title /\ r.kind = req[h].kind
        /\ r.slug = req[h].slug /\ r.document = req[h].document
    BY <1>2, InTxFacts DEF RequestRecord
  <2>6. w.row = tx[h].row /\ w.revisions = {new} /\ w.events = tx[h].events
    BY <1>2, InTxFacts DEF TxRecord
  <2>7. tx[h].events = {}
    BY <1>1, <1>2, InTxFacts DEF Writes
  <2> HIDE DEF r, w
  <2>8. HandlerOK(h)'
    <3>1. assets' = assets /\ asset_revisions' = asset_revisions
      BY <2>1 DEF logVars
    <3>2. /\ Filled(h)' /\ SourceRead(h)' /\ (Creating(h)' \/ Updating(h)')
      BY <1>2, <2>4, <2>5, <2>6, <3>1, InTxFacts, SameRequest
    <3>3. Writes(h)'
      BY <2>2, <2>4, <2>5, <2>6, <2>7 DEF Writes, NewRow
    <3> QED BY <3>2, <3>3, <2>4, <2>5 DEF HandlerOK, NoTxStep
  <2>9. ASSUME NEW k \in Handler, k # h PROVE Apart(h, k)'
    BY <2>4, <2>5, <2>6, <2>9 DEF Apart, InTx, IInv, HInv
  <2>10. /\ UNCHANGED logVars
         /\ outbox_events_id_seq' \in Nat /\ outbox_events_id_seq <= outbox_events_id_seq'
    BY <2>1 DEF IInv, HInv
  <2> QED BY <2>3, <2>4, <2>8, <2>9, <2>10, PrivateStep
<1> QED BY <1>3, <1>4

(***************************************************************************)
(* A pending event's id was drawn from the sequence.                       *)
(***************************************************************************)
LEMMA PendingDrawn ==
    ASSUME IInv, NEW k \in Handler, NEW f \in tx[k].events
    PROVE  f.id \in EventId /\ f.id <= outbox_events_id_seq
<1>1. tx[k].events # {}
  OBVIOUS
<1>2. req[k].step \notin NoTxStep
  BY <1>1 DEF IInv, HInv, HandlerOK, NoTx
<1>3. Writes(k)
  BY <1>2, InTxFacts
<1>4. PICK id \in EventId : tx[k].events = {NewEvent(k, id)} /\ id <= outbox_events_id_seq
  BY <1>1, <1>3 DEF Writes
<1> QED BY <1>4 DEF NewEvent

LEMMA insertEventKeeps ==
    ASSUME IInv, NEW h \in Handler, insertEvent(h)
    PROVE  IInv'
<1> DEFINE id == outbox_events_id_seq + 1
<1>1. req[h].step = "insertEvent"
  BY DEF insertEvent
<1>2. req[h].step \notin NoTxStep
  BY <1>1 DEF NoTxStep
<1>3. CASE id \notin EventId
  BY <1>3, AbortKeeps DEF insertEvent
<1>4. CASE id \in EventId
  <2> DEFINE new == [id |-> id, asset |-> req[h].asset,
                     revision |-> tx[h].row.latest_revision]
             r == [req[h] EXCEPT !.step = "commit"]
             w == [tx[h] EXCEPT !.events = {new}]
  <2>1. /\ outbox_events_id_seq' = id
        /\ req' = [req EXCEPT ![h].step = "commit"]
        /\ tx' = [tx EXCEPT ![h].events = {new}]
        /\ UNCHANGED logVars
    BY <1>4 DEF insertEvent
  <2>2. outbox_events_id_seq \in Nat /\ id \in Nat /\ outbox_events_id_seq <= id
    BY DEF IInv, HInv
  <2>3. new = NewEvent(h, id) /\ new \in EventRow
    BY <1>2, <1>4, InTxFacts DEF NewEvent, EventRow, Filled
  <2> HIDE DEF new
  <2>4. r \in RequestRecord /\ w \in TxRecord
    BY <1>2, <2>3, InTxFacts DEF RequestRecord, Step, TxRecord
  <2>5. /\ req' = [req EXCEPT ![h] = r] /\ tx' = [tx EXCEPT ![h] = w]
        /\ req'[h] = r /\ tx'[h] = w
        /\ \A k \in Handler : k # h => req'[k] = req[k] /\ tx'[k] = tx[k]
    BY <2>1 DEF IInv, HInv
  <2>6. /\ r.step = "commit" /\ r.asset = req[h].asset /\ r.base = req[h].base
        /\ r.source = req[h].source /\ r.title = req[h].title /\ r.kind = req[h].kind
        /\ r.slug = req[h].slug /\ r.document = req[h].document
    BY <1>2, InTxFacts DEF RequestRecord
  <2>7. w.row = tx[h].row /\ w.revisions = tx[h].revisions /\ w.events = {new}
    BY <1>2, InTxFacts DEF TxRecord
  <2>8. tx[h].revisions = {NewRow(h)}
    BY <1>1, <1>2, InTxFacts DEF Writes
  <2> HIDE DEF r, w
  <2>9. HandlerOK(h)'
    <3>1. assets' = assets /\ asset_revisions' = asset_revisions /\ outbox_events' = outbox_events
      BY <2>1 DEF logVars
    <3>2. /\ Filled(h)' /\ SourceRead(h)' /\ (Creating(h)' \/ Updating(h)')
      BY <1>2, <2>5, <2>6, <2>7, <3>1, InTxFacts, SameRequest
    <3>3. Writes(h)'
      <4>2. tx'[h].revisions = {NewRow(h)'}
        BY <2>5, <2>6, <2>7, <2>8 DEF NewRow
      <4>3. tx'[h].events = {[id |-> id, asset |-> req'[h].asset,
                              revision |-> req'[h].base + 1]}
        BY <2>3, <2>5, <2>6, <2>7 DEF NewEvent
      <4>4. req'[h].step = "commit" /\ id <= outbox_events_id_seq'
        BY <2>1, <2>2, <2>5, <2>6
      <4> DEFINE i == id
      <4>6. i \in EventId /\ i <= outbox_events_id_seq'
        BY <1>4, <4>4
      <4>7. \A e \in outbox_events' : e.id # i /\ (e.asset = req'[h].asset => e.id < i)
        BY <3>1, <2>2 DEF IInv, HInv, LogInv, LogTypeOK, EventRow, EventId
      <4>8. tx'[h].events = {[id |-> i, asset |-> req'[h].asset,
                              revision |-> req'[h].base + 1]}
        BY <4>3
      <4> HIDE DEF i
      <4> QED BY <4>2, <4>4, <4>6, <4>7, <4>8 DEF Writes, NewEvent, NewEventId
    <3> QED BY <3>2, <3>3, <2>5, <2>6 DEF HandlerOK, NoTxStep
  <2>10. ASSUME NEW k \in Handler, k # h PROVE Apart(h, k)'
    <3>1. \A f \in tx[k].events : new.id # f.id
      BY <2>2, PendingDrawn DEF new, EventId
    <3>2. Apart(h, k)
      BY <2>10 DEF IInv, HInv
    <3> QED BY <2>5, <2>6, <2>7, <2>10, <3>1, <3>2 DEF Apart, InTx
  <2>11. UNCHANGED logVars /\ outbox_events_id_seq' \in Nat
         /\ outbox_events_id_seq <= outbox_events_id_seq'
    BY <2>1, <2>2
  <2> QED BY <2>4, <2>5, <2>9, <2>10, <2>11, PrivateStep
<1> QED BY <1>3, <1>4

-----------------------------------------------------------------------------
(***************************************************************************)
(* The commit is one step of the log.                                      *)
(***************************************************************************)
LEMMA CommitAppends ==
    ASSUME IInv, NEW h \in Handler, Commit(h)
    PROVE  LogNext
<1> DEFINE r == req[h]
           a == r.asset
           row == tx[h].row
<1>1. r.step = "commit" /\ r.step \notin NoTxStep
  BY DEF Commit, NoTxStep
<1>2. /\ r \in RequestRecord /\ row \in AssetRow
      /\ Filled(h) /\ (Creating(h) \/ Updating(h)) /\ SourceRead(h) /\ Writes(h)
      /\ r.base = Latest(a) /\ r.base \in Nat
      /\ row.latest_revision = r.base + 1 /\ row.title = r.title
  BY <1>1, InTxFacts
<1>3. PICK id \in EventId : tx[h].events = {NewEvent(h, id)} /\ NewEventId(a, id)
  BY <1>1, <1>2 DEF Writes
<1>4. AppendRevision(a, row, r.document, r.source, id)
  <2>1. tx[h].revisions = {NewRow(h)}
    BY <1>1, <1>2 DEF Writes
  <2> QED BY <1>2, <1>3, <2>1 DEF AppendRevision, Commit, NewRow, NewEvent
<1>5. /\ a \in Asset /\ r.title \in Title /\ r.document \in Document
      /\ r.source \in Nat \cup {Original}
  BY <1>2 DEF Filled
<1>6. CASE Creating(h)
  <2>1. Create(a, r.kind, r.slug, r.title, r.document, id)
    BY <1>4, <1>6 DEF Creating, Create, validDocument
  <2> QED BY <1>5, <1>6, <2>1 DEF LogNext, Creating
<1>7. CASE Updating(h) /\ r.source = Original
  <2>1. Exists(a)
    BY <1>2, <1>5, <1>7, LatestType DEF Updating, IInv, LogInv
  <2>2. Update(a, r.title, r.document, id)
    BY <1>4, <1>7, <2>1 DEF Updating, Update
  <2> QED BY <1>5, <2>2 DEF LogNext
<1>8. CASE Updating(h) /\ r.source # Original
  <2>1. Exists(a) /\ assets[a] \in AssetRow
    BY <1>2, <1>5, <1>8, LatestType DEF Updating, IInv, LogInv
  <2>2. PICK q \in asset_revisions :
           /\ q.asset = a
           /\ q.revision = IF r.source = 0 THEN r.base ELSE r.source
           /\ q.document = r.document
    BY <1>2, <1>8 DEF SourceRead
  <2>3. r.title = assets[a].title
    BY <1>2, <1>8 DEF SourceRead
  <2>4. row = [assets[a] EXCEPT !.latest_revision = @ + 1]
    <3>1. row = [assets[a] EXCEPT !.title = assets[a].title, !.latest_revision = @ + 1]
      BY <1>8, <2>3 DEF Updating
    <3> QED BY <2>1, <3>1 DEF AssetRow
  <2>5. Restore(a, r.source, id)
    BY <1>2, <1>4, <2>1, <2>2, <2>4 DEF Restore, Resolve
  <2>6. r.source \in 0 .. Latest(a)
    <3>1. q.revision <= Latest(a)
      BY <2>2 DEF IInv, LogInv, RowsBelowHead
    <3> QED BY <1>2, <1>5, <1>8, <2>2, <3>1
  <2> QED BY <1>5, <2>5, <2>6 DEF LogNext
<1> QED BY <1>2, <1>6, <1>7, <1>8

LEMMA CommitKeeps ==
    ASSUME IInv, NEW h \in Handler, Commit(h)
    PROVE  IInv'
<1> DEFINE a == req[h].asset
<1>1. LogInv'
  BY CommitAppends, LogNextInv DEF IInv
<1>2. req[h].step = "commit" /\ req[h].step \notin NoTxStep
  BY DEF Commit, NoTxStep
<1>3. /\ tx[h].row \in AssetRow /\ InTx(h) /\ a \in Asset
      /\ (Creating(h) \/ Updating(h)) /\ Writes(h)
      /\ tx[h].row.latest_revision = Latest(a) + 1
  BY <1>2, InTxFacts DEF Filled
<1>4. PICK id \in EventId : /\ tx[h].events = {NewEvent(h, id)}
                            /\ id <= outbox_events_id_seq
  BY <1>2, <1>3 DEF Writes
<1>5. /\ assets' = [assets EXCEPT ![a] = tx[h].row]
      /\ asset_revisions \subseteq asset_revisions'
      /\ outbox_events' = outbox_events \cup {NewEvent(h, id)}
      /\ outbox_events_id_seq' = outbox_events_id_seq
      /\ req'[h] = Idle /\ tx'[h] = NoTx
      /\ req' \in [Handler -> RequestRecord] /\ tx' \in [Handler -> TxRecord]
      /\ \A k \in Handler : k # h => req'[k] = req[k] /\ tx'[k] = tx[k]
  BY <1>4, IdleTypes DEF Commit, IInv, HInv
<1>6. \A b \in Asset : /\ Latest(b) \in Nat
                       /\ b # a => assets'[b] = assets[b] /\ Latest(b)' = Latest(b)
  BY <1>5, LatestType DEF IInv, LogInv, LogTypeOK, Latest
<1>7. assets'[a] = tx[h].row /\ Latest(a) + 1 = assets'[a].latest_revision
  BY <1>3, <1>5 DEF IInv, LogInv, LogTypeOK
<1>8. outbox_events_id_seq \in Nat
  BY DEF IInv, HInv
<1>9. HandlerOK(h)'
  BY <1>5 DEF HandlerOK, Idle, NoTxStep
<1>10. ASSUME NEW k \in Handler, k # h PROVE HandlerOK(k)'
  <2>1. \A b \in Asset : /\ Latest(b)' \in Nat /\ Latest(b) <= Latest(b)'
                         /\ Latest(b)' = Latest(b) => assets'[b].title = assets[b].title
    <3>1. assets'[a].latest_revision \in Nat /\ Latest(a) < assets'[a].latest_revision
      BY <1>3, <1>6, <1>7
    <3> QED BY <1>6, <3>1 DEF Latest
  <2>2. ASSUME InTx(k)
        PROVE  /\ assets'[req[k].asset] = assets[req[k].asset]
               /\ req[k].base = 0 /\ SlugFree(req[k].kind, req[k].slug)
                    => SlugFree(req[k].kind, req[k].slug)'
               /\ \A i \in EventId :
                    tx[k].events = {NewEvent(k, i)} /\ NewEventId(req[k].asset, i)
                      => NewEventId(req[k].asset, i)'
    <3>1. Apart(h, k)
      BY <1>10 DEF IInv, HInv
    <3>2. req[k].asset # a /\ req[k].asset \in Asset
      BY <1>3, <2>2, <3>1, InTxStep, InTxFacts DEF Apart, Filled
    <3>3. assets'[req[k].asset] = assets[req[k].asset]
      BY <1>6, <3>2
    <3>4. ASSUME req[k].base = 0, SlugFree(req[k].kind, req[k].slug)
          PROVE  SlugFree(req[k].kind, req[k].slug)'
      <4>1. <<assets'[a].kind, assets'[a].slug>> # <<req[k].kind, req[k].slug>>
        <5>1. CASE Creating(h)
          BY <1>3, <1>7, <2>2, <3>1, <3>4, <5>1 DEF Creating, Apart
        <5>2. CASE Updating(h)
          <6>1. assets[a] \in AssetRow
            BY <1>3, <5>2, LatestType DEF Updating, IInv, LogInv
          <6>2. assets'[a].kind = assets[a].kind /\ assets'[a].slug = assets[a].slug
            BY <1>7, <5>2, <6>1 DEF Updating, AssetRow
          <6> QED BY <1>3, <3>4, <6>2 DEF SlugFree
        <5> QED BY <1>3, <5>1, <5>2
      <4> QED BY <1>5, <1>6, <1>10, <3>4, <4>1 DEF SlugFree
    <3>5. ASSUME NEW i \in EventId, tx[k].events = {NewEvent(k, i)},
                 NewEventId(req[k].asset, i)
          PROVE  NewEventId(req[k].asset, i)'
      <4>1. i # id
        <5>1. NewEvent(h, id) \in tx[h].events /\ NewEvent(k, i) \in tx[k].events
          BY <1>4, <3>5
        <5>2. NewEvent(h, id).id # NewEvent(k, i).id
          BY <3>1, <5>1 DEF Apart
        <5> QED BY <5>2 DEF NewEvent
      <4>2. NewEvent(h, id).id = id /\ NewEvent(h, id).asset # req[k].asset
        BY <3>2 DEF NewEvent
      <4> QED BY <1>5, <1>10, <3>5, <4>1, <4>2 DEF NewEventId
    <3> QED BY <3>3, <3>4, <3>5
  <2> QED BY <1>5, <1>8, <1>10, <2>1, <2>2, OtherHandler
<1>11. ASSUME NEW j \in Handler, NEW k \in Handler, j # k PROVE Apart(j, k)'
  BY <1>5, <1>11 DEF Apart, InTx, NoTx, IInv, HInv
<1>12. \A e \in outbox_events' : e.id <= outbox_events_id_seq'
  BY <1>4, <1>5 DEF NewEvent, IInv, HInv
<1> QED BY <1>1, <1>5, <1>8, <1>9, <1>10, <1>11, <1>12 DEF IInv, HInv

LEMMA archiveAssetKeeps ==
    ASSUME IInv, NEW a \in Asset, archiveAsset(a)
    PROVE  IInv' /\ LogNext
<1>1. /\ Archive(a) /\ ~Locked(a)
      /\ UNCHANGED <<asset_revisions, outbox_events, outbox_events_id_seq, req, tx>>
  BY DEF archiveAsset, Archive
<1>2. LogNext
  BY <1>1 DEF LogNext
<1>3. LogInv'
  BY <1>2, LogNextInv DEF IInv
<1>4. /\ assets[a] \in AssetRow
      /\ assets' = [assets EXCEPT ![a] = [assets[a] EXCEPT !.archived = TRUE]]
  BY <1>1, LatestType DEF Archive, IInv, LogInv
<1>5. /\ \A b \in Asset : /\ Latest(b)' = Latest(b) /\ Latest(b) \in Nat
                          /\ assets'[b].title = assets[b].title
                          /\ assets'[b].kind = assets[b].kind
                          /\ assets'[b].slug = assets[b].slug
      /\ \A b \in Asset : b # a => assets'[b] = assets[b]
  BY <1>4, LatestType DEF IInv, LogInv, LogTypeOK, Latest, AssetRow
<1>6. ASSUME NEW k \in Handler PROVE HandlerOK(k)'
  <2>1. InTx(k) => assets'[req[k].asset] = assets[req[k].asset]
    BY <1>1, <1>5, InTxStep, InTxFacts DEF Locked, Filled
  <2>2. SlugFree(req[k].kind, req[k].slug) => SlugFree(req[k].kind, req[k].slug)'
    BY <1>1, <1>5 DEF SlugFree
  <2>3. \A id \in EventId : NewEventId(req[k].asset, id) => NewEventId(req[k].asset, id)'
    BY <1>1 DEF NewEventId
  <2>4. /\ req'[k] = req[k] /\ tx'[k] = tx[k] /\ asset_revisions \subseteq asset_revisions'
        /\ outbox_events_id_seq' \in Nat /\ outbox_events_id_seq <= outbox_events_id_seq'
    BY <1>1 DEF IInv, HInv
  <2>5. \A b \in Asset : /\ Latest(b)' \in Nat /\ Latest(b) <= Latest(b)'
                         /\ Latest(b)' = Latest(b) => assets'[b].title = assets[b].title
    BY <1>5
  <2> QED BY <2>1, <2>2, <2>3, <2>4, <2>5, OtherHandler
<1>7. \A j, k \in Handler : j # k => Apart(j, k)'
  BY <1>1 DEF Apart, InTx, IInv, HInv
<1> QED BY <1>1, <1>2, <1>3, <1>6, <1>7 DEF IInv, HInv

-----------------------------------------------------------------------------
LEMMA StoreInitInv == StoreInit => IInv
<1> SUFFICES ASSUME StoreInit PROVE IInv
  OBVIOUS
<1>1. LogInv
  BY LogInitInv DEF StoreInit
<1>2. /\ outbox_events = {} /\ outbox_events_id_seq = 0
      /\ req = [h \in Handler |-> Idle] /\ tx = [h \in Handler |-> NoTx]
  BY DEF StoreInit, LogInit
<1>3. \A h \in Handler : HandlerOK(h)
  BY <1>2 DEF HandlerOK, Idle, NoTxStep
<1>4. \A h, k \in Handler : Apart(h, k)
  BY <1>2 DEF Apart, InTx, NoTx
<1> QED BY <1>1, <1>2, <1>3, <1>4, IdleTypes DEF IInv, HInv

LEMMA StatementKeeps ==
    ASSUME IInv, NEW h \in Handler, Statement(h)
    PROVE  IInv'
BY InsertAssetKeeps, GetSourceKeeps, UpdateAssetKeeps, insertRevisionKeeps,
   insertEventKeeps, CommitKeeps DEF Statement

LEMMA StoreNextInv == IInv /\ [StoreNext]_vars => IInv'
<1> SUFFICES ASSUME IInv, [StoreNext]_vars PROVE IInv'
  OBVIOUS
<1>1. ASSUME NEW h \in Handler, Request(h) \/ RestoreRequest(h) \/ Statement(h) \/ Fail(h)
      PROVE  IInv'
  BY <1>1, RequestKeeps, RestoreRequestKeeps, StatementKeeps, AbortKeeps DEF Fail
<1>2. ASSUME NEW a \in Asset, archiveAsset(a) PROVE IInv'
  BY <1>2, archiveAssetKeeps
<1>3. CASE UNCHANGED vars
  <2>1. UNCHANGED <<assets, asset_revisions, outbox_events, outbox_events_id_seq, req, tx>>
    BY <1>3 DEF vars, logVars
  <2>2. LogInv'
    BY <1>3, LogNextInv DEF IInv, vars
  <2>3. \A h \in Handler : HandlerOK(h)'
    <3> SUFFICES ASSUME NEW h \in Handler PROVE HandlerOK(h)'
      OBVIOUS
    <3>1. \A a \in Asset : /\ Latest(a)' \in Nat /\ Latest(a) <= Latest(a)'
                           /\ Latest(a)' = Latest(a) => assets'[a].title = assets[a].title
      BY <2>1, LatestType DEF IInv, LogInv, Latest
    <3>2. /\ req'[h] = req[h] /\ tx'[h] = tx[h] /\ asset_revisions \subseteq asset_revisions'
          /\ outbox_events_id_seq' \in Nat /\ outbox_events_id_seq <= outbox_events_id_seq'
      BY <2>1 DEF IInv, HInv
    <3>3. /\ assets'[req[h].asset] = assets[req[h].asset]
          /\ SlugFree(req[h].kind, req[h].slug) => SlugFree(req[h].kind, req[h].slug)'
          /\ \A id \in EventId : NewEventId(req[h].asset, id) => NewEventId(req[h].asset, id)'
      BY <2>1 DEF SlugFree, NewEventId
    <3> QED BY <3>1, <3>2, <3>3, OtherHandler
  <2>4. \A j, k \in Handler : j # k => Apart(j, k)'
    BY <2>1 DEF Apart, InTx, IInv, HInv
  <2> QED BY <2>1, <2>2, <2>3, <2>4 DEF IInv, HInv
<1> QED BY <1>1, <1>2, <1>3 DEF StoreNext

LEMMA IInvAlways == StoreSpec => []IInv
BY StoreInitInv, StoreNextInv, PTL DEF StoreSpec

(***************************************************************************)
(* A step other than a commit or an archiving leaves the tables alone.     *)
(***************************************************************************)
LEMMA StoreStepLog == IInv /\ [StoreNext]_vars => [LogNext]_logVars
<1> SUFFICES ASSUME IInv, [StoreNext]_vars PROVE [LogNext]_logVars
  OBVIOUS
<1>1. ASSUME NEW h \in Handler, Request(h) \/ RestoreRequest(h) \/ Fail(h)
      PROVE  UNCHANGED logVars
  BY <1>1 DEF Request, RestoreRequest, Fail, createAsset, updateAsset, restoreRevision,
     Arrive, Abort
<1>2. ASSUME NEW h \in Handler, Statement(h)
      PROVE  LogNext \/ UNCHANGED logVars
  BY <1>2, CommitAppends DEF Statement, InsertAsset, GetSource, UpdateAsset, insertRevision,
     insertEvent, Abort
<1>3. ASSUME NEW a \in Asset, archiveAsset(a) PROVE LogNext
  BY <1>3, archiveAssetKeeps
<1>4. CASE UNCHANGED vars
  BY <1>4 DEF vars
<1> QED BY <1>1, <1>2, <1>3, <1>4 DEF StoreNext

-----------------------------------------------------------------------------
(***************************************************************************)
(* Tables, sequence, requests and transactions keep their types.           *)
(***************************************************************************)
THEOREM StoreTypeOK == StoreSpec => []TypeOK
<1>1. IInv => TypeOK
  BY DEF IInv, HInv, LogInv, TypeOK
<1> QED BY <1>1, IInvAlways, PTL

(***************************************************************************)
(* The store implements the revision log: what readers of the three tables *)
(* see is a sequence of whole appends, whatever handlers race or fail.     *)
(***************************************************************************)
THEOREM StoreImplementsLog == StoreSpec => ImplementsLog
<1>1. StoreInit => LogInit
  BY DEF StoreInit
<1> QED BY <1>1, IInvAlways, StoreStepLog, PTL DEF StoreSpec, LogSpec, ImplementsLog

(***************************************************************************)
(* No save is lost (store.go:103).                                         *)
(***************************************************************************)
THEOREM StoreNoLostUpdate == StoreSpec => []NoLostUpdate
BY StoreImplementsLog, LogSafety, PTL DEF ImplementsLog

(***************************************************************************)
(* Revisions are numbered 1 .. latest_revision without gap or duplicate.   *)
(***************************************************************************)
THEOREM StoreRevisionsDense == StoreSpec => []RevisionsDense
BY StoreImplementsLog, LogSafety, PTL DEF ImplementsLog

(***************************************************************************)
(* A restored revision is the one it names, under the title of the head.   *)
(***************************************************************************)
THEOREM StoreRestoreFaithful == StoreSpec => []RestoreFaithful
BY StoreImplementsLog, LogSafety, PTL DEF ImplementsLog

(***************************************************************************)
(* The outbox has one event per revision, in each asset's order.           *)
(***************************************************************************)
THEOREM StoreOutbox == StoreSpec => [](OutboxMirrorsRevisions /\ OutboxOrdered)
BY StoreImplementsLog, LogSafety, PTL DEF ImplementsLog

(***************************************************************************)
(* Whatever fails in between, a revision and its event are both there or   *)
(* both not: every revision has its event, and no event is without one.    *)
(***************************************************************************)
THEOREM StoreOutboxMirrors == StoreSpec => []OutboxMirrorsRevisions
BY StoreOutbox, PTL

(***************************************************************************)
(* Slugs stay unique within a kind.                                        *)
(***************************************************************************)
THEOREM StoreSlugsUnique == StoreSpec => []SlugsUnique
BY StoreImplementsLog, LogSafety, PTL DEF ImplementsLog

(***************************************************************************)
(* Archiving is never undone by a concurrent save.                         *)
(***************************************************************************)
THEOREM StoreArchiveSticky == StoreSpec => ArchiveSticky
BY StoreImplementsLog, LogArchiveSticky, PTL DEF ImplementsLog

-----------------------------------------------------------------------------
(***************************************************************************)
(* The URL's kind is the only hole through which a document of another kind*)
(* gets into an asset (server.go:206): creations are checked against the   *)
(* kind they are stored under, and a restore copies within one asset.      *)
(***************************************************************************)
Agrees(h) == req[h].document.kind = expected(assets[req[h].asset].kind)

(***************************************************************************)
(* No update comes under the URL of the other kind.                        *)
(***************************************************************************)
UrlsAgree ==
    \A h \in Handler : req[h].step = "updateAsset" /\ req[h].source = Original => Agrees(h)

DocumentsAgree ==
    \A h \in Handler :
        /\ req[h].step = "updateAsset" /\ req[h].source # Original => Agrees(h)
        /\ req[h].step \notin NoTxStep => req[h].document.kind = expected(tx[h].row.kind)

KindInv == KindMatches /\ DocumentsAgree

LEMMA KindsKept ==
    ASSUME IInv, [StoreNext]_vars, NEW a \in Asset, Exists(a)
    PROVE  assets'[a].kind = assets[a].kind
<1>1. assets[a] \in AssetRow /\ assets \in [Asset -> AssetRow \cup {NoRow}]
  BY LatestType DEF IInv, LogInv, LogTypeOK
<1>2. CASE UNCHANGED assets
  BY <1>2
<1>3. ASSUME NEW b \in Asset, Archive(b) PROVE assets'[a].kind = assets[a].kind
  BY <1>1, <1>3 DEF Archive, AssetRow
<1>4. ASSUME NEW b \in Asset, NEW row, assets' = [assets EXCEPT ![b] = row],
             a # b \/ row.kind = assets[a].kind
      PROVE  assets'[a].kind = assets[a].kind
  BY <1>1, <1>4
<1>5. ASSUME NEW b \in Asset, NEW id, NEW title, NEW d, Update(b, title, d, id)
      PROVE  assets'[a].kind = assets[a].kind
  BY <1>1, <1>4, <1>5 DEF Update, AppendRevision, AssetRow
<1>6. ASSUME NEW b \in Asset, NEW id, NEW source, Restore(b, source, id)
      PROVE  assets'[a].kind = assets[a].kind
  BY <1>1, <1>4, <1>6 DEF Restore, AppendRevision, AssetRow
<1>7. ASSUME NEW b \in Asset, NEW kind, NEW slug, NEW title, NEW d, NEW id,
             Create(b, kind, slug, title, d, id)
      PROVE  assets'[a].kind = assets[a].kind
  BY <1>4, <1>7 DEF Create, AppendRevision
<1> QED BY <1>2, <1>3, <1>5, <1>6, <1>7, StoreStepLog DEF LogNext, logVars

(***************************************************************************)
(* A handler that does not move keeps what it holds.                       *)
(***************************************************************************)
LEMMA OthersAgree ==
    ASSUME IInv, DocumentsAgree, [StoreNext]_vars, NEW k \in Handler,
           req'[k] = req[k], tx'[k] = tx[k]
    PROVE  /\ req'[k].step = "updateAsset" /\ req'[k].source # Original => Agrees(k)'
           /\ req'[k].step \notin NoTxStep => req'[k].document.kind = expected(tx'[k].row.kind)
<1>1. ASSUME req[k].step = "updateAsset", req[k].source # Original PROVE Agrees(k)'
  <2>1. req[k].asset \in Asset /\ req[k].base \in 1 .. Latest(req[k].asset)
    BY <1>1 DEF IInv, HInv, HandlerOK, Filled
  <2>2. Exists(req[k].asset)
    BY <2>1, LatestType DEF IInv, LogInv
  <2>3. assets'[req[k].asset].kind = assets[req[k].asset].kind
    BY <2>1, <2>2, KindsKept
  <2> QED BY <1>1, <2>3 DEF DocumentsAgree, Agrees
<1> QED BY <1>1 DEF DocumentsAgree

LEMMA RevisionsKeepKind ==
    ASSUME IInv, KindMatches, [StoreNext]_vars, NEW r \in asset_revisions
    PROVE  r.document.kind = expected(assets'[r.asset].kind)
<1>1. r.asset \in Asset /\ Exists(r.asset)
  <2>1. r \in RevisionRow /\ r.revision <= Latest(r.asset)
    BY DEF IInv, LogInv, LogTypeOK, RowsBelowHead
  <2>2. r.asset \in Asset /\ r.revision \in Nat /\ r.revision > 0
    BY <2>1 DEF RevisionRow
  <2> QED BY <2>1, <2>2, LatestType DEF IInv, LogInv
<1>2. assets'[r.asset].kind = assets[r.asset].kind
  BY <1>1, KindsKept
<1> QED BY <1>2 DEF KindMatches

(***************************************************************************)
(* Only a commit adds a revision, of the document its handler holds.       *)
(***************************************************************************)
LEMMA CommitKind ==
    ASSUME IInv, KindInv, NEW h \in Handler, Commit(h)
    PROVE  KindMatches'
<1>1. req[h].step = "commit" /\ req[h].step \notin NoTxStep
  BY DEF Commit, NoTxStep
<1>2. req[h].asset \in Asset /\ tx[h].revisions = {NewRow(h)}
  BY <1>1, InTxFacts DEF Filled, Writes
<1>3. assets' = [assets EXCEPT ![req[h].asset] = tx[h].row]
      /\ asset_revisions' = asset_revisions \cup {NewRow(h)}
  BY <1>2 DEF Commit
<1>4. assets'[req[h].asset] = tx[h].row
  BY <1>2, <1>3 DEF IInv, LogInv, LogTypeOK
<1>5. NewRow(h).document.kind = expected(assets'[NewRow(h).asset].kind)
  BY <1>1, <1>4 DEF KindInv, DocumentsAgree, NewRow
<1>6. [StoreNext]_vars
  BY DEF StoreNext, Statement
<1>7. \A r \in asset_revisions : r.document.kind = expected(assets'[r.asset].kind)
  BY <1>6, RevisionsKeepKind DEF KindInv
<1> QED BY <1>3, <1>5, <1>7 DEF KindMatches

LEMMA StatementAgrees ==
    ASSUME IInv, KindInv, UrlsAgree, NEW h \in Handler, Statement(h)
    PROVE  /\ req'[h].step = "updateAsset" /\ req'[h].source # Original => Agrees(h)'
           /\ req'[h].step \notin NoTxStep => req'[h].document.kind = expected(tx'[h].row.kind)
<1>1. /\ req \in [Handler -> RequestRecord] /\ tx \in [Handler -> TxRecord]
      /\ req[h] \in RequestRecord /\ tx[h] \in TxRecord /\ HandlerOK(h)
  BY DEF IInv, HInv
<1>2. CASE Abort(h) \/ Commit(h)
  BY <1>1, <1>2 DEF Abort, Commit, Idle, NoTxStep
<1>3. CASE InsertAsset(h) /\ ~Abort(h)
  <2>1. PICK a \in Asset :
          /\ req' = [req EXCEPT ![h].step = "insertRevision", ![h].asset = a]
          /\ tx' = [tx EXCEPT ![h].row =
                     [kind |-> req[h].kind, slug |-> req[h].slug, title |-> req[h].title,
                      latest_revision |-> 1, archived |-> FALSE]]
    BY <1>3 DEF InsertAsset
  <2>2. /\ req'[h].step = "insertRevision" /\ req'[h].document = req[h].document
        /\ tx'[h].row.kind = req[h].kind
    BY <1>1, <2>1 DEF RequestRecord, TxRecord
  <2>3. req[h].document.kind = expected(req[h].kind)
    BY <1>1, <1>3 DEF InsertAsset, HandlerOK, validDocument
  <2> QED BY <2>2, <2>3
<1>4. CASE GetSource(h) /\ ~Abort(h)
  <2>1. PICK row \in asset_revisions :
          /\ row.asset = req[h].asset
          /\ req' = [req EXCEPT ![h].step = "updateAsset",
                                ![h].title = assets[req[h].asset].title,
                                ![h].document = row.document]
          /\ assets' = assets
    BY <1>4 DEF GetSource, logVars
  <2>2. /\ req'[h].step = "updateAsset" /\ req'[h].document = row.document
        /\ req'[h].asset = req[h].asset
    BY <1>1, <2>1 DEF RequestRecord
  <2> QED BY <2>1, <2>2 DEF Agrees, KindInv, KindMatches, NoTxStep
<1>5. CASE UpdateAsset(h) /\ ~Abort(h)
  <2>1. /\ req' = [req EXCEPT ![h].step = "insertRevision"]
        /\ tx' = [tx EXCEPT ![h].row = [assets[req[h].asset] EXCEPT
                                         !.title = req[h].title, !.latest_revision = @ + 1]]
    BY <1>5 DEF UpdateAsset
  <2>2. req[h].step = "updateAsset" /\ Agrees(h)
    BY <1>5 DEF UpdateAsset, UrlsAgree, KindInv, DocumentsAgree
  <2>3. assets[req[h].asset] \in AssetRow
    BY <1>1, <2>2, LatestType DEF HandlerOK, Filled, IInv, LogInv
  <2>4. /\ req'[h].step = "insertRevision" /\ req'[h].document = req[h].document
        /\ tx'[h].row.kind = assets[req[h].asset].kind
    BY <1>1, <2>1, <2>3 DEF RequestRecord, TxRecord, AssetRow
  <2> QED BY <2>2, <2>4 DEF Agrees
<1>6. CASE (insertRevision(h) \/ insertEvent(h)) /\ ~Abort(h)
  <2>1. /\ req[h].step \notin NoTxStep
        /\ \E step \in {"insertEvent", "commit"} : req' = [req EXCEPT ![h].step = step]
        /\ tx'[h].row = tx[h].row
    BY <1>1, <1>6 DEF insertRevision, insertEvent, NoTxStep, TxRecord
  <2>2. req'[h].step # "updateAsset" /\ req'[h].document = req[h].document
    BY <1>1, <2>1 DEF RequestRecord
  <2> QED BY <2>1, <2>2 DEF KindInv, DocumentsAgree
<1> QED BY <1>2, <1>3, <1>4, <1>5, <1>6 DEF Statement

LEMMA KindInvStep ==
    ASSUME IInv, KindInv, UrlsAgree, [StoreNext]_vars
    PROVE  KindInv'
<1>1. req \in [Handler -> RequestRecord] /\ tx \in [Handler -> TxRecord]
  BY DEF IInv, HInv
<1>2. CASE UNCHANGED <<req, tx>> /\ UNCHANGED asset_revisions
  BY <1>2, OthersAgree, RevisionsKeepKind DEF KindInv, DocumentsAgree, KindMatches
<1>3. ASSUME NEW h \in Handler, Request(h) \/ RestoreRequest(h) \/ Statement(h) \/ Fail(h)
      PROVE  KindInv'
  <2>1. /\ req'[h].step = "updateAsset" /\ req'[h].source # Original => Agrees(h)'
        /\ req'[h].step \notin NoTxStep => req'[h].document.kind = expected(tx'[h].row.kind)
    <3>1. CASE Request(h) \/ RestoreRequest(h)
      <4>. DEFINE Good(request) ==
                    /\ Arrive(h, request)
                    /\ request.step \in NoTxStep
                    /\ request.step = "updateAsset" => request.source = Original
      <4>1. \E request : Good(request)
        <5>1. ASSUME NEW kind, NEW slug, NEW title, NEW document,
                     createAsset(h, kind, slug, title, document)
              PROVE  Good([Idle EXCEPT !.step = "insertAsset", !.kind = kind,
                           !.slug = slug, !.title = title, !.document = document])
          BY <5>1 DEF createAsset, Idle, NoTxStep
        <5>2. ASSUME NEW kind, NEW a, NEW base, NEW title, NEW document,
                     updateAsset(h, kind, a, base, title, document)
              PROVE  Good([Idle EXCEPT !.step = "updateAsset", !.asset = a,
                           !.base = base, !.title = title, !.document = document])
          BY <5>2 DEF updateAsset, Idle, NoTxStep
        <5>3. ASSUME NEW a, NEW source, NEW base, restoreRevision(h, a, source, base)
              PROVE  Good([Idle EXCEPT !.step = "getSource", !.asset = a,
                           !.base = base, !.source = source])
          BY <5>3 DEF restoreRevision, Idle, NoTxStep
        <5> HIDE DEF Good
        <5> QED BY <3>1, <5>1, <5>2, <5>3 DEF Request, RestoreRequest
      <4>2. PICK request : Good(request)
        BY <4>1
      <4>3. req'[h] = request
        BY <1>1, <4>2 DEF Arrive
      <4> QED BY <4>2, <4>3
    <3>2. CASE Fail(h)
      BY <1>1, <3>2 DEF Fail, Abort, Idle, NoTxStep
    <3>3. CASE Statement(h)
      BY <3>3, StatementAgrees
    <3> QED BY <1>3, <3>1, <3>2, <3>3
  <2>2. ASSUME NEW k \in Handler, k # h PROVE req'[k] = req[k] /\ tx'[k] = tx[k]
    BY <1>1, <1>3, <2>2 DEF Request, RestoreRequest, Fail, createAsset, updateAsset,
       restoreRevision, Arrive, Abort, Statement, InsertAsset, GetSource, UpdateAsset,
       insertRevision, insertEvent, Commit
  <2>3. DocumentsAgree'
    BY <2>1, <2>2, OthersAgree DEF KindInv, DocumentsAgree
  <2>4. KindMatches'
    <3>1. CASE Commit(h)
      BY <3>1, CommitKind
    <3>2. CASE ~Commit(h)
      <4>1. UNCHANGED asset_revisions
        BY <1>3, <3>2 DEF Request, RestoreRequest, Fail, createAsset, updateAsset,
           restoreRevision, Arrive, Abort, Statement, InsertAsset, GetSource, UpdateAsset,
           insertRevision, insertEvent, logVars
      <4> QED BY <4>1, RevisionsKeepKind DEF KindInv, KindMatches
    <3> QED BY <3>1, <3>2
  <2> QED BY <2>3, <2>4 DEF KindInv
<1>4. ASSUME NEW a \in Asset, archiveAsset(a) PROVE KindInv'
  BY <1>2, <1>4 DEF archiveAsset, Archive
<1>5. CASE UNCHANGED vars
  BY <1>2, <1>5 DEF vars, logVars
<1> QED BY <1>3, <1>4, <1>5 DEF StoreNext

(***************************************************************************)
(* KindMatches, which the code does not keep, holds in every behaviour in  *)
(* which no update comes under the URL of the other kind: races, restores  *)
(* and failures add no other way to break it (server.go:206, 325).         *)
(***************************************************************************)
THEOREM StoreKindsByUrl == StoreSpec /\ []UrlsAgree => []KindMatches
<1>1. StoreInit => KindInv
  BY DEF StoreInit, LogInit, KindInv, KindMatches, DocumentsAgree, Idle, NoTxStep
<1>2. IInv /\ KindInv /\ UrlsAgree /\ [StoreNext]_vars => KindInv'
  BY KindInvStep
<1>3. KindInv => KindMatches
  BY DEF KindInv
<1> QED BY <1>1, <1>2, <1>3, IInvAlways, PTL DEF StoreSpec

-----------------------------------------------------------------------------
(***************************************************************************)
(* A handler waits for a row's lock or for a racing INSERT of its slug     *)
(* (store.go:76, 102).                                                     *)
(***************************************************************************)
Waits(h) ==
    \/ req[h].step = "updateAsset" /\ Locked(req[h].asset)
    \/ req[h].step = "insertAsset" /\ SlugPending(req[h].kind, req[h].slug)

NoHoldAndWait == \A h \in Handler : Waits(h) => tx[h] = NoTx

(***************************************************************************)
(* A handler that waits has written nothing yet, so whoever holds what it  *)
(* waits for waits for nobody: no cycle of handlers, however many.         *)
(***************************************************************************)
THEOREM StoreNoHoldAndWait == StoreSpec => []NoHoldAndWait
<1>1. IInv => NoHoldAndWait
  BY DEF IInv, HInv, HandlerOK, Waits, NoHoldAndWait, NoTxStep
<1> QED BY <1>1, IInvAlways, PTL
=============================================================================
