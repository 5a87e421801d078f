---------------------------- MODULE RevisionLog ----------------------------
(***************************************************************************)
(* What the asset store promises to everything else in flooks: each asset  *)
(* is a log of immutable revisions, every write appends exactly one        *)
(* revision on top of the head its author named, and the same atomic step  *)
(* puts exactly one event for that revision in the outbox.  AssetStore     *)
(* models how internal/assets/store.go gets there with transactions, row   *)
(* locks and a compare-and-set; Dispatcher and EventFanout extend this     *)
(* module as the store they serve.                                         *)
(***************************************************************************)
EXTENDS Integers

CONSTANTS
    Asset,       \* uuids gen_random_uuid() may return
    Kind,        \* the {kind} segments of the URLs in use
    Slug,
    Title,
    Body,        \* what a document holds besides its kind
    MaxEventId,  \* last value of the sequence behind outbox_events.id
    None         \* a column of a row that does not exist

ASSUME KindAssumption == Kind \subseteq {"chart", "dashboard"}
ASSUME MaxEventIdAssumption == MaxEventId \in Nat
ASSUME NoneAssumption == None \notin Kind \cup Slug \cup Title

VARIABLES
    assets,           \* committed rows of table assets, NoRow before the INSERT
    asset_revisions,  \* committed rows of table asset_revisions
    outbox_events     \* committed rows of table outbox_events

logVars == <<assets, asset_revisions, outbox_events>>

(***************************************************************************)
(* The document kind the handlers accept under a URL kind.                 *)
(***************************************************************************)
expected(kind) == IF kind = "dashboard" THEN "Dashboard" ELSE "Chart"

Document == [kind : {expected(k) : k \in Kind}, body : Body]

EventId == 1 .. MaxEventId

NoRow == [kind |-> None, slug |-> None, title |-> None,
          latest_revision |-> 0, archived |-> FALSE]

AssetRow == [kind : Kind, slug : Slug, title : Title,
             latest_revision : Nat \ {0}, archived : BOOLEAN]

(***************************************************************************)
(* A row of asset_revisions.  `source` is what the summary of a restored   *)
(* revision says ("revision %d ..."), Original for the others.  `base` (the*)
(* If-Match revision of the request that wrote the row) and `title` (the   *)
(* title the asset got with it) are history: no column holds them.         *)
(***************************************************************************)
Original == -1

RevisionRow == [asset : Asset, revision : Nat \ {0}, document : Document,
                source : Int, base : Nat, title : Title]

EventRow == [id : EventId, asset : Asset, revision : Nat \ {0}]

Exists(a) == assets[a] # NoRow

Latest(a) == assets[a].latest_revision

(* Mutant: every restore takes the head. *)
Resolve_AlwaysLatest(a, revision) == IF revision = 0 THEN Latest(a) ELSE Latest(a)

(***************************************************************************)
(* revision 0 stands for the latest one.                                   *)
(***************************************************************************)
Resolve(a, revision) == IF revision = 0 THEN Latest(a) ELSE revision

SlugFree(kind, slug) ==
    \A a \in Asset : <<assets[a].kind, assets[a].slug>> # <<kind, slug>>

(***************************************************************************)
(* An event id is new, and larger than the ids of the asset's own events;  *)
(* between assets ids need not follow the order of the commits.            *)
(***************************************************************************)
NewEventId(a, id) ==
    \A e \in outbox_events : e.id # id /\ (e.asset = a => e.id < id)

AppendRevision(a, row, document, source, id) ==
    /\ NewEventId(a, id)
    /\ assets' = [assets EXCEPT ![a] = row]
    /\ asset_revisions' = asset_revisions \cup
         {[asset |-> a, revision |-> Latest(a) + 1, document |-> document,
           source |-> source, base |-> Latest(a), title |-> row.title]}
    /\ outbox_events' = outbox_events \cup
         {[id |-> id, asset |-> a, revision |-> Latest(a) + 1]}

LogInit ==
    /\ assets = [a \in Asset |-> NoRow]
    /\ asset_revisions = {}
    /\ outbox_events = {}

Create(a, kind, slug, title, document, id) ==
    /\ ~Exists(a)
    /\ SlugFree(kind, slug)
    /\ document.kind = expected(kind)
    /\ AppendRevision(a, [kind |-> kind, slug |-> slug, title |-> title,
                          latest_revision |-> 1, archived |-> FALSE],
                      document, Original, id)

Update(a, title, document, id) ==
    /\ Exists(a)
    /\ AppendRevision(a, [assets[a] EXCEPT !.title = title, !.latest_revision = @ + 1],
                      document, Original, id)

(***************************************************************************)
(* A restore copies an old document and leaves the title alone.            *)
(***************************************************************************)
Restore(a, source, id) ==
    /\ Exists(a)
    /\ \E r \in asset_revisions :
         /\ r.asset = a
         /\ r.revision = Resolve(a, source)
         /\ AppendRevision(a, [assets[a] EXCEPT !.latest_revision = @ + 1],
                           r.document, source, id)

Archive(a) ==
    /\ Exists(a)
    /\ assets' = [assets EXCEPT ![a].archived = TRUE]
    /\ UNCHANGED <<asset_revisions, outbox_events>>

LogNext ==
    \E a \in Asset :
        \/ Archive(a)
        \/ \E id \in EventId :
             \/ \E kind \in Kind, slug \in Slug, title \in Title, d \in Document :
                  Create(a, kind, slug, title, d, id)
             \/ \E title \in Title, d \in Document : Update(a, title, d, id)
             \/ \E source \in 0 .. Latest(a) : Restore(a, source, id)

LogSpec == LogInit /\ [][LogNext]_logVars

-----------------------------------------------------------------------------
(***************************************************************************)
(* The types of the three tables.                                          *)
(***************************************************************************)
LogTypeOK ==
    /\ assets \in [Asset -> AssetRow \cup {NoRow}]
    /\ asset_revisions \subseteq RevisionRow
    /\ outbox_events \subseteq EventRow

(***************************************************************************)
(* The committed revisions of an asset are exactly 1 .. latest_revision,   *)
(* one row each, whatever transactions failed or raced on the way          *)
(* (store.go:82, 112: the revision and the head move in one transaction).  *)
(***************************************************************************)
RevisionsDense ==
    /\ \A a \in Asset : {r.revision : r \in {q \in asset_revisions : q.asset = a}}
                          = 1 .. Latest(a)
    /\ \A r, q \in asset_revisions :
         r.asset = q.asset /\ r.revision = q.revision => r = q

(***************************************************************************)
(* No save is lost: the writer of every revision had named the revision    *)
(* just below it in If-Match (store.go:103), also when several handlers    *)
(* waited for the row's lock with the same base.                           *)
(***************************************************************************)
NoLostUpdate == \A r \in asset_revisions : r.base = r.revision - 1

(***************************************************************************)
(* A restored revision holds the document of the revision it names, 0      *)
(* naming the head it replaced, and carries the title that head had, though*)
(* Store.Restore reads both before its transaction (store.go:148-152).     *)
(***************************************************************************)
RestoreFaithful ==
    \A r \in asset_revisions : r.source # Original =>
        \E q, head \in asset_revisions :
            /\ q.asset = r.asset /\ head.asset = r.asset
            /\ head.revision = r.revision - 1
            /\ q.revision = IF r.source = 0 THEN head.revision ELSE r.source
            /\ q.revision < r.revision
            /\ r.document = q.document
            /\ r.title = head.title

(***************************************************************************)
(* The outbox holds one event for each committed revision and none for     *)
(* anything else (store.go:85, 115: the outbox row is part of the          *)
(* transaction).                                                           *)
(***************************************************************************)
OutboxMirrorsRevisions ==
    /\ \A r \in asset_revisions : \E e \in outbox_events :
         e.asset = r.asset /\ e.revision = r.revision
    /\ \A e \in outbox_events : \E r \in asset_revisions :
         e.asset = r.asset /\ e.revision = r.revision
    /\ \A e, f \in outbox_events :
         e.asset = f.asset /\ e.revision = f.revision => e = f

(***************************************************************************)
(* Event ids are unique, and the ids of one asset's events grow with its   *)
(* revisions although ids are drawn before the commit (store.go:163): the  *)
(* row's lock orders an asset's writers.  The dispatcher, which sends by   *)
(* id, relies on it.                                                       *)
(***************************************************************************)
OutboxOrdered ==
    \A e, f \in outbox_events :
        /\ e.id = f.id => e = f
        /\ e.asset = f.asset => (e.id < f.id <=> e.revision < f.revision)

(***************************************************************************)
(* No two assets of a kind have the same slug, also when two creations     *)
(* race (00001_init.sql:13).                                               *)
(***************************************************************************)
SlugsUnique ==
    \A a, b \in Asset :
        /\ Exists(a) /\ Exists(b)
        /\ <<assets[a].kind, assets[a].slug>> = <<assets[b].kind, assets[b].slug>>
        => a = b

(***************************************************************************)
(* An archived asset stays archived, also when the archiving races with a  *)
(* save that read the row before (store.go:126).                           *)
(***************************************************************************)
ArchiveSticky == [][\A a \in Asset : assets[a].archived => assets'[a].archived]_logVars

(***************************************************************************)
(* Every revision of an asset holds a document of the asset's own kind:    *)
(* "kind must be" Chart or Dashboard (server.go:325).  The code does not   *)
(* keep this: a dashboard saved under the charts' URL gets a Chart document*)
(* and a chart under the dashboards' URL a Dashboard one.                  *)
(***************************************************************************)
KindMatches ==
    \A r \in asset_revisions : r.document.kind = expected(assets[r.asset].kind)
=============================================================================
