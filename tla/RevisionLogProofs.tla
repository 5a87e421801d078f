------------------------- MODULE RevisionLogProofs -------------------------
(***************************************************************************)
(* The safety properties of RevisionLog hold for every set of assets,      *)
(* kinds, slugs, titles and bodies.  LogInv is the inductive invariant: to *)
(* the properties it adds that rows stay at or below the head, that every  *)
(* revision below the head has a row, and that the asset's title is the    *)
(* one its head was written with.                                          *)
(***************************************************************************)
EXTENDS RevisionLog, TLAPS

(* A revision row of asset a with revision number n, in set R. *)
HasRow(R, a, n) == \E r \in R : r.asset = a /\ r.revision = n

RowsBelowHead == \A r \in asset_revisions : r.revision <= Latest(r.asset)

RowsComplete == \A a \in Asset : \A n \in 1 .. Latest(a) : HasRow(asset_revisions, a, n)

RowsUnique == \A r, q \in asset_revisions :
                r.asset = q.asset /\ r.revision = q.revision => r = q

HeadTitle == \A r \in asset_revisions :
               r.revision = Latest(r.asset) => r.title = assets[r.asset].title

LogInv ==
    /\ LogTypeOK
    /\ RowsBelowHead
    /\ RowsComplete
    /\ RowsUnique
    /\ HeadTitle
    /\ NoLostUpdate
    /\ RestoreFaithful
    /\ OutboxMirrorsRevisions
    /\ OutboxOrdered
    /\ SlugsUnique

-----------------------------------------------------------------------------
LEMMA LatestType ==
    ASSUME LogTypeOK, NEW a \in Asset
    PROVE  /\ Latest(a) \in Nat
           /\ Exists(a) <=> Latest(a) > 0
           /\ ~Exists(a) => Latest(a) = 0
           /\ Exists(a) => assets[a] \in AssetRow
BY DEF LogTypeOK, Latest, Exists, AssetRow, NoRow

(***************************************************************************)
(* One append on top of the head keeps everything but SlugsUnique, which   *)
(* depends on where the row comes from.                                    *)
(***************************************************************************)
LEMMA AppendKeeps ==
    ASSUME LogInv, NEW a \in Asset, NEW row \in AssetRow, NEW document \in Document,
           NEW source \in Int, NEW id \in EventId,
           row.latest_revision = Latest(a) + 1,
           AppendRevision(a, row, document, source, id),
           source # Original =>
             /\ Exists(a)
             /\ row.title = assets[a].title
             /\ \E q \in asset_revisions :
                  /\ q.asset = a
                  /\ q.revision = IF source = 0 THEN Latest(a) ELSE source
                  /\ q.document = document
    PROVE  /\ LogTypeOK' /\ RowsBelowHead' /\ RowsComplete' /\ RowsUnique'
           /\ HeadTitle' /\ NoLostUpdate' /\ RestoreFaithful'
           /\ OutboxMirrorsRevisions' /\ OutboxOrdered'
<1> DEFINE n == Latest(a) + 1
           new == [asset |-> a, revision |-> n, document |-> document,
                   source |-> source, base |-> Latest(a), title |-> row.title]
           ev == [id |-> id, asset |-> a, revision |-> n]
<1>1. /\ Latest(a) \in Nat
      /\ assets' = [assets EXCEPT ![a] = row]
      /\ asset_revisions' = asset_revisions \cup {new}
      /\ outbox_events' = outbox_events \cup {ev}
      /\ NewEventId(a, id)
  BY LatestType DEF LogInv, AppendRevision
<1>2. new \in RevisionRow /\ ev \in EventRow
  BY <1>1 DEF RevisionRow, EventRow, AssetRow
<1>3. LogTypeOK'
  BY <1>1, <1>2 DEF LogInv, LogTypeOK
<1>4. /\ Latest(a)' = n
      /\ \A b \in Asset : b # a => Latest(b)' = Latest(b) /\ assets'[b] = assets[b]
      /\ assets'[a] = row
  BY <1>1 DEF LogInv, LogTypeOK, Latest
<1>5. \A r \in asset_revisions : /\ r.asset \in Asset /\ r.revision \in Nat \ {0}
                                 /\ r.revision <= Latest(r.asset)
                                 /\ r.asset = a => r.revision < n
  BY <1>1 DEF LogInv, LogTypeOK, RevisionRow, RowsBelowHead
<1>6. \A e \in outbox_events : /\ e.asset \in Asset /\ e.revision \in Nat /\ e.id \in Nat
                               /\ e.id # id /\ e.revision <= Latest(e.asset)
                               /\ e.asset = a => e.id < id /\ e.revision < n
  BY <1>1, <1>5 DEF LogInv, LogTypeOK, EventRow, EventId, NewEventId, OutboxMirrorsRevisions
<1>7. RowsBelowHead'
  BY <1>1, <1>4, <1>5, LatestType DEF RowsBelowHead, LogInv
<1>8. RowsComplete'
  <2> SUFFICES ASSUME NEW b \in Asset, NEW m \in (1 .. Latest(b))'
               PROVE  HasRow(asset_revisions', b, m)
    BY DEF RowsComplete
  <2>1. CASE b = a /\ m = n
    <3>1. new \in asset_revisions' /\ new.asset = b /\ new.revision = m
      BY <2>1, <1>1
    <3> QED BY <3>1 DEF HasRow
  <2>2. CASE ~(b = a /\ m = n)
    <3>1. m \in 1 .. Latest(b)
      BY <2>2, <1>1, <1>4, LatestType DEF LogInv
    <3>2. HasRow(asset_revisions, b, m)
      BY <3>1 DEF LogInv, RowsComplete
    <3> QED BY <3>2, <1>1 DEF HasRow
  <2> QED BY <2>1, <2>2
<1>9. RowsUnique'
  BY <1>1, <1>5 DEF RowsUnique, LogInv
<1>10. HeadTitle'
  BY <1>1, <1>4, <1>5 DEF HeadTitle, LogInv
<1>11. NoLostUpdate'
  BY <1>1 DEF NoLostUpdate, LogInv
<1>12. RestoreFaithful'
  <2> SUFFICES ASSUME NEW r \in asset_revisions', r.source # Original
               PROVE  \E q, head \in asset_revisions' :
                        /\ q.asset = r.asset /\ head.asset = r.asset
                        /\ head.revision = r.revision - 1
                        /\ q.revision = IF r.source = 0 THEN head.revision ELSE r.source
                        /\ q.revision < r.revision
                        /\ r.document = q.document
                        /\ r.title = head.title
    BY DEF RestoreFaithful
  <2>1. CASE r \in asset_revisions
    BY <2>1, <1>1 DEF RestoreFaithful, LogInv
  <2>2. CASE r = new
    <3>1. Exists(a) /\ row.title = assets[a].title
      BY <2>2
    <3>2. PICK q \in asset_revisions :
                  /\ q.asset = a
                  /\ q.revision = IF source = 0 THEN Latest(a) ELSE source
                  /\ q.document = document
      BY <2>2
    <3>3. PICK head \in asset_revisions : head.asset = a /\ head.revision = Latest(a)
      BY <3>1, <1>1, LatestType DEF LogInv, RowsComplete, HasRow
    <3>4. head.title = assets[a].title
      BY <3>3 DEF LogInv, HeadTitle
    <3>5. q.revision < n /\ n - 1 = Latest(a)
      BY <3>2, <1>1, <1>5
    <3>6. q \in asset_revisions' /\ head \in asset_revisions'
      BY <1>1
    <3> QED BY <2>2, <3>1, <3>2, <3>3, <3>4, <3>5, <3>6
  <2> QED BY <2>1, <2>2, <1>1
<1>13. OutboxMirrorsRevisions'
  <2>1. \A e \in outbox_events : ~(e.asset = ev.asset /\ e.revision = ev.revision)
    BY <1>6
  <2>2. new.asset = ev.asset /\ new.revision = ev.revision
    OBVIOUS
  <2>3. new \in asset_revisions' /\ ev \in outbox_events'
    BY <1>1
  <2> HIDE DEF new, ev
  <2>4. \A r \in asset_revisions' : \E e \in outbox_events' :
          e.asset = r.asset /\ e.revision = r.revision
    BY <1>1, <2>2, <2>3 DEF OutboxMirrorsRevisions, LogInv
  <2>5. \A e \in outbox_events' : \E r \in asset_revisions' :
          e.asset = r.asset /\ e.revision = r.revision
    BY <1>1, <2>2, <2>3 DEF OutboxMirrorsRevisions, LogInv
  <2>6. \A e, f \in outbox_events' : e.asset = f.asset /\ e.revision = f.revision => e = f
    BY <1>1, <2>1 DEF OutboxMirrorsRevisions, LogInv
  <2> QED BY <2>4, <2>5, <2>6 DEF OutboxMirrorsRevisions
<1>14. OutboxOrdered'
  <2> SUFFICES ASSUME NEW e \in outbox_events', NEW f \in outbox_events'
               PROVE  /\ e.id = f.id => e = f
                      /\ e.asset = f.asset => (e.id < f.id <=> e.revision < f.revision)
    BY DEF OutboxOrdered
  <2>1. CASE e \in outbox_events /\ f \in outbox_events
    BY <2>1 DEF OutboxOrdered, LogInv
  <2>2. CASE e = ev /\ f = ev
    BY <2>2, <1>1 DEF EventId
  <2>3. CASE e = ev /\ f \in outbox_events
    BY <2>3, <1>1, <1>6 DEF EventId
  <2>4. CASE e \in outbox_events /\ f = ev
    BY <2>4, <1>1, <1>6 DEF EventId
  <2> QED BY <2>1, <2>2, <2>3, <2>4, <1>1
<1> QED BY <1>3, <1>7, <1>8, <1>9, <1>10, <1>11, <1>12, <1>13, <1>14

(***************************************************************************)
(* A step that gives no asset a new kind or slug keeps SlugsUnique.        *)
(***************************************************************************)
LEMMA SameSlugs ==
    ASSUME LogInv, NEW a \in Asset, NEW row, Exists(a),
           row.kind = assets[a].kind, row.slug = assets[a].slug,
           assets' = [assets EXCEPT ![a] = row]
    PROVE  SlugsUnique'
<1>1. \A b \in Asset : /\ assets'[b].kind = assets[b].kind
                       /\ assets'[b].slug = assets[b].slug
                       /\ Exists(b)' => Exists(b)
  BY DEF LogInv, LogTypeOK, Exists
<1> QED BY <1>1 DEF SlugsUnique, LogInv

-----------------------------------------------------------------------------
LEMMA LogInitInv == LogInit => LogInv
<1> SUFFICES ASSUME LogInit PROVE LogInv
  OBVIOUS
<1>1. \A a \in Asset : Latest(a) = 0 /\ ~Exists(a)
  BY DEF LogInit, Latest, Exists, NoRow
<1>2. LogTypeOK
  BY DEF LogInit, LogTypeOK
<1> QED BY <1>1, <1>2 DEF LogInv, LogInit, RowsBelowHead, RowsComplete, RowsUnique, HeadTitle,
          NoLostUpdate, RestoreFaithful, OutboxMirrorsRevisions, OutboxOrdered, SlugsUnique

LEMMA CreateKeeps ==
    ASSUME LogInv, NEW a \in Asset, NEW kind \in Kind, NEW slug \in Slug,
           NEW title \in Title, NEW document \in Document, NEW id \in EventId,
           Create(a, kind, slug, title, document, id)
    PROVE  LogInv'
<1> DEFINE row == [kind |-> kind, slug |-> slug, title |-> title,
                   latest_revision |-> 1, archived |-> FALSE]
<1>1. row \in AssetRow /\ row.latest_revision = Latest(a) + 1
  BY LatestType DEF AssetRow, Create, LogInv
<1>2. AppendRevision(a, row, document, Original, id)
  BY DEF Create
<1>3. /\ LogTypeOK' /\ RowsBelowHead' /\ RowsComplete' /\ RowsUnique'
      /\ HeadTitle' /\ NoLostUpdate' /\ RestoreFaithful'
      /\ OutboxMirrorsRevisions' /\ OutboxOrdered'
  <2> HIDE DEF row
  <2> QED BY <1>1, <1>2, AppendKeeps DEF Original
<1>4. SlugsUnique'
  <2>1. assets' = [assets EXCEPT ![a] = row] /\ SlugFree(kind, slug)
    BY DEF Create, AppendRevision
  <2>2. \A b \in Asset : b # a => assets'[b] = assets[b]
    BY <2>1 DEF LogInv, LogTypeOK
  <2>3. assets'[a].kind = kind /\ assets'[a].slug = slug
    BY <2>1 DEF LogInv, LogTypeOK
  <2> QED BY <2>1, <2>2, <2>3 DEF SlugsUnique, SlugFree, LogInv, Exists
<1> QED BY <1>3, <1>4 DEF LogInv

LEMMA UpdateKeeps ==
    ASSUME LogInv, NEW a \in Asset, NEW title \in Title, NEW document \in Document,
           NEW id \in EventId, Update(a, title, document, id)
    PROVE  LogInv'
<1> DEFINE row == [assets[a] EXCEPT !.title = title, !.latest_revision = @ + 1]
<1>1. /\ Exists(a) /\ assets[a] \in AssetRow /\ Latest(a) \in Nat
      /\ AppendRevision(a, row, document, Original, id)
  BY LatestType DEF Update, LogInv
<1>2. row \in AssetRow /\ row.latest_revision = Latest(a) + 1
  <2>1. assets[a].latest_revision \in Nat \ {0}
    BY <1>1 DEF AssetRow
  <2>2. assets[a].latest_revision + 1 \in Nat \ {0}
    BY <2>1
  <2> QED BY <1>1, <2>2 DEF AssetRow, Latest
<1>3. row.kind = assets[a].kind /\ row.slug = assets[a].slug
  BY <1>1 DEF AssetRow
<1>4. assets' = [assets EXCEPT ![a] = row]
  BY <1>1 DEF AppendRevision
<1> HIDE DEF row
<1>5. /\ LogTypeOK' /\ RowsBelowHead' /\ RowsComplete' /\ RowsUnique'
      /\ HeadTitle' /\ NoLostUpdate' /\ RestoreFaithful'
      /\ OutboxMirrorsRevisions' /\ OutboxOrdered'
  BY <1>1, <1>2, AppendKeeps DEF Original
<1>6. SlugsUnique'
  BY <1>1, <1>3, <1>4, SameSlugs
<1> QED BY <1>5, <1>6 DEF LogInv

LEMMA RestoreKeeps ==
    ASSUME LogInv, NEW a \in Asset, NEW source \in 0 .. Latest(a), NEW id \in EventId,
           Restore(a, source, id)
    PROVE  LogInv'
<1> DEFINE row == [assets[a] EXCEPT !.latest_revision = @ + 1]
<1>1. PICK r \in asset_revisions :
         /\ r.asset = a /\ r.revision = Resolve(a, source)
         /\ AppendRevision(a, row, r.document, source, id)
  BY DEF Restore
<1>2. Exists(a) /\ assets[a] \in AssetRow /\ Latest(a) \in Nat /\ r.document \in Document
  BY <1>1, LatestType DEF Restore, LogInv, LogTypeOK, RevisionRow
<1>3. row \in AssetRow /\ row.latest_revision = Latest(a) + 1 /\ row.title = assets[a].title
  BY <1>2 DEF AssetRow, Latest
<1>4. row.kind = assets[a].kind /\ row.slug = assets[a].slug
  BY <1>2 DEF AssetRow
<1>5. assets' = [assets EXCEPT ![a] = row]
  BY <1>1 DEF AppendRevision
<1> HIDE DEF row
<1>6. /\ LogTypeOK' /\ RowsBelowHead' /\ RowsComplete' /\ RowsUnique'
      /\ HeadTitle' /\ NoLostUpdate' /\ RestoreFaithful'
      /\ OutboxMirrorsRevisions' /\ OutboxOrdered'
  <2>1. source \in Int
    BY <1>2
  <2>2. r.revision = IF source = 0 THEN Latest(a) ELSE source
    BY <1>1 DEF Resolve
  <2> QED BY <1>1, <1>2, <1>3, <2>1, <2>2, AppendKeeps
<1>7. SlugsUnique'
  BY <1>2, <1>4, <1>5, SameSlugs
<1> QED BY <1>6, <1>7 DEF LogInv

LEMMA ArchiveKeeps ==
    ASSUME LogInv, NEW a \in Asset, Archive(a)
    PROVE  LogInv'
<1> DEFINE row == [assets[a] EXCEPT !.archived = TRUE]
<1>1. /\ assets' = [assets EXCEPT ![a] = row] /\ UNCHANGED <<asset_revisions, outbox_events>>
      /\ Exists(a) /\ assets[a] \in AssetRow
  BY LatestType DEF Archive, LogInv
<1>2. /\ row \in AssetRow /\ row.latest_revision = Latest(a) /\ row.title = assets[a].title
      /\ row.kind = assets[a].kind /\ row.slug = assets[a].slug
  BY <1>1 DEF AssetRow, Latest
<1> HIDE DEF row
<1>3. LogTypeOK'
  BY <1>1, <1>2 DEF LogInv, LogTypeOK
<1>4. \A b \in Asset : Latest(b)' = Latest(b) /\ assets'[b].title = assets[b].title
  BY <1>1, <1>2 DEF LogInv, LogTypeOK, Latest
<1>5. RowsBelowHead' /\ RowsComplete' /\ RowsUnique' /\ HeadTitle'
  BY <1>1, <1>4 DEF LogInv, LogTypeOK, RevisionRow,
     RowsBelowHead, RowsComplete, RowsUnique, HeadTitle, HasRow
<1>6. NoLostUpdate' /\ RestoreFaithful' /\ OutboxMirrorsRevisions' /\ OutboxOrdered'
  BY <1>1 DEF LogInv, NoLostUpdate, RestoreFaithful, OutboxMirrorsRevisions, OutboxOrdered
<1>7. SlugsUnique'
  BY <1>1, <1>2, SameSlugs
<1> QED BY <1>3, <1>5, <1>6, <1>7 DEF LogInv

LEMMA LogNextInv == LogInv /\ [LogNext]_logVars => LogInv'
<1> SUFFICES ASSUME LogInv, [LogNext]_logVars PROVE LogInv'
  OBVIOUS
<1>1. CASE LogNext
  <2>1. PICK a \in Asset :
          \/ Archive(a)
          \/ \E id \in EventId :
               \/ \E kind \in Kind, slug \in Slug, title \in Title, d \in Document :
                    Create(a, kind, slug, title, d, id)
               \/ \E title \in Title, d \in Document : Update(a, title, d, id)
               \/ \E source \in 0 .. Latest(a) : Restore(a, source, id)
    BY <1>1 DEF LogNext
  <2> QED BY <2>1, ArchiveKeeps, CreateKeeps, UpdateKeeps, RestoreKeeps
<1>2. CASE UNCHANGED logVars
  BY <1>2 DEF logVars, LogInv, LogTypeOK, RowsBelowHead, RowsComplete, RowsUnique, HeadTitle,
     HasRow, Latest, Exists, NoLostUpdate, RestoreFaithful, OutboxMirrorsRevisions,
     OutboxOrdered, SlugsUnique
<1> QED BY <1>1, <1>2

LEMMA LogInvAlways == LogSpec => []LogInv
BY LogInitInv, LogNextInv, PTL DEF LogSpec

-----------------------------------------------------------------------------
LEMMA LogInvDense == LogInv => RevisionsDense
<1> SUFFICES ASSUME LogInv, NEW a \in Asset
             PROVE  {r.revision : r \in {q \in asset_revisions : q.asset = a}} = 1 .. Latest(a)
  BY DEF RevisionsDense, LogInv, RowsUnique
<1>1. \A r \in asset_revisions : r.asset = a => r.revision \in 1 .. Latest(a)
  BY LatestType DEF LogInv, LogTypeOK, RevisionRow, RowsBelowHead
<1>2. \A n \in 1 .. Latest(a) : \E r \in asset_revisions : r.asset = a /\ r.revision = n
  BY DEF LogInv, RowsComplete, HasRow
<1> QED BY <1>1, <1>2

(***************************************************************************)
(* The log keeps the safety properties of the module: dense and immutable  *)
(* numbering, no lost save, faithful restores, an outbox that mirrors the  *)
(* revisions in each asset's order, unique slugs.                          *)
(***************************************************************************)
THEOREM LogSafety ==
    LogSpec => [](/\ LogTypeOK /\ RevisionsDense /\ NoLostUpdate /\ RestoreFaithful
                  /\ OutboxMirrorsRevisions /\ OutboxOrdered /\ SlugsUnique)
<1>1. LogInv => /\ LogTypeOK /\ RevisionsDense /\ NoLostUpdate /\ RestoreFaithful
                /\ OutboxMirrorsRevisions /\ OutboxOrdered /\ SlugsUnique
  BY LogInvDense DEF LogInv
<1> QED BY <1>1, LogInvAlways, PTL

(***************************************************************************)
(* Nothing un-archives an asset.                                           *)
(***************************************************************************)
THEOREM LogArchiveSticky == LogSpec => ArchiveSticky
<1>1. LogInv /\ [LogNext]_logVars
        => [\A a \in Asset : assets[a].archived => assets'[a].archived]_logVars
  <2> SUFFICES ASSUME LogInv, LogNext, NEW b \in Asset, assets[b].archived
               PROVE  assets'[b].archived
    OBVIOUS
  <2>1. PICK a \in Asset :
          \/ Archive(a)
          \/ \E id \in EventId :
               \/ \E kind \in Kind, slug \in Slug, title \in Title, d \in Document :
                    Create(a, kind, slug, title, d, id)
               \/ \E title \in Title, d \in Document : Update(a, title, d, id)
               \/ \E source \in 0 .. Latest(a) : Restore(a, source, id)
    BY DEF LogNext
  <2>2. assets \in [Asset -> AssetRow \cup {NoRow}] /\ Exists(b)
    BY DEF LogInv, LogTypeOK, Exists, NoRow
  <2>3. CASE Archive(a)
    BY <2>2, <2>3, LatestType DEF Archive, AssetRow, LogInv
  <2>4. ASSUME NEW kind, NEW slug, NEW title, NEW d, NEW id,
               Create(a, kind, slug, title, d, id)
        PROVE  assets'[b].archived
    BY <2>2, <2>4 DEF Create, AppendRevision
  <2>5. ASSUME NEW title, NEW d, NEW id, Update(a, title, d, id)
        PROVE  assets'[b].archived
    BY <2>2, <2>5, LatestType DEF Update, AppendRevision, AssetRow, LogInv
  <2>6. ASSUME NEW source, NEW id, Restore(a, source, id)
        PROVE  assets'[b].archived
    BY <2>2, <2>6, LatestType DEF Restore, AppendRevision, AssetRow, LogInv
  <2> QED BY <2>1, <2>3, <2>4, <2>5, <2>6
<1> QED BY <1>1, LogInvAlways, PTL DEF LogSpec, ArchiveSticky
=============================================================================
