---------------------------- MODULE ChartEditor ----------------------------
(***************************************************************************)
(* One page of the client: the revisions on the server as the page meets   *)
(* them, the lists App.tsx keeps of them, and its chart section            *)
(* (ChartEditor.tsx).  DashboardEditor adds the dashboard section.  What a *)
(* draft holds is the user's business; what matters is which revision it   *)
(* was opened from and which one its save names in If-Match.               *)
(***************************************************************************)
EXTENDS Integers, Sequences, FiniteSets

CONSTANTS
    Chart,
    Board,      \* the dashboard the workspace shows, dashboards.data[0]
    Placement,  \* ids a dashboard's panels may have
    MaxSaves,   \* bound: revisions on the server
    MaxSent,    \* bound: saves on their way whose answer changes nothing here
    None

ASSUME EditorAssumption ==
    /\ MaxSaves \in Nat /\ MaxSent \in Nat /\ Board \notin Chart
    /\ None \notin Chart \cup Placement \cup {Board, "editor", "drawer", "board", "revived"}

Asset == Chart \cup {Board}

VARIABLES
    saves,     \* every committed revision, in the order of the commits
    sent,      \* saves on their way whose answer changes nothing on the page
    list,      \* newest revision of each asset the page's queries hold, 0 for none
    section,   \* the section the page shows
    selected,  \* App's snapshot of the chart that is edited
    draft      \* the chart editor's document

serverVars == <<saves, sent>>

editorVars == <<selected, draft>>

Latest(a) == Cardinality({i \in DOMAIN saves : saves[i].asset = a})

Exists(a) == Latest(a) > 0

NoPin == [chart |-> None, revision |-> 0]

Pin == [chart : Chart, revision : Nat]

NoPins == [p \in Placement |-> NoPin]

Pins == [Placement -> Pin \cup {NoPin}]

(***************************************************************************)
(* A save in flight, and its row once committed.  base 0 is a creation.    *)
(* `blind` is history: which editor sent it, if its document was opened    *)
(* before the revision its If-Match names.                                 *)
(***************************************************************************)
Save == [asset : Asset, base : Nat, pins : Pins,
         blind : {None, "editor", "drawer", "board", "revived"}]

ChartSave(c, base, seen, writer) ==
    [asset |-> c, base |-> base, pins |-> NoPins,
     blind |-> IF base > seen THEN writer ELSE None]

BoardSave(base, pins, seen, writer) ==
    [asset |-> Board, base |-> base, pins |-> pins,
     blind |-> IF base > seen THEN writer ELSE None]

Revision(a, n) ==
    CHOOSE i \in DOMAIN saves :
        /\ saves[i].asset = a
        /\ Cardinality({j \in 1 .. i : saves[j].asset = a}) = n

-----------------------------------------------------------------------------
(***************************************************************************)
(* The server, as AssetStore implements it.                                *)
(***************************************************************************)

(* Mutant: the server does not compare If-Match. *)
Accepted_AnyBase(s) ==
    IF s.base = 0 THEN ~Exists(s.asset) ELSE Exists(s.asset)

(***************************************************************************)
(* An update needs the head in If-Match; a creation needs a free slug.     *)
(***************************************************************************)
Accepted(s) == s.base = Latest(s.asset)

Committed(s) ==
    IF Accepted(s) /\ Len(saves) < MaxSaves THEN saves' = Append(saves, s)
                                            ELSE UNCHANGED saves

(***************************************************************************)
(* A save is accepted, refused, or lost on the way.                        *)
(***************************************************************************)
Handle(s) ==
    /\ s \in sent
    /\ sent' = sent \ {s}
    /\ Committed(s) \/ UNCHANGED saves
    /\ UNCHANGED <<list, section, editorVars>>

(***************************************************************************)
(* Other pages save on top of what they have read.                         *)
(***************************************************************************)
OtherSaves(s) ==
    /\ Accepted(s) /\ Len(saves) < MaxSaves
    /\ saves' = Append(saves, s)
    /\ UNCHANGED <<sent, list, section, editorVars>>

-----------------------------------------------------------------------------
(***************************************************************************)
(* The chart section.                                                      *)
(***************************************************************************)

(* Mutant: a click only changes the selection, and the draft stays. *)
Select_KeepsDraft(c) ==
    /\ section = "charts"
    /\ list[c] > 0
    /\ selected' = [chart |-> c, revision |-> list[c]]
    /\ draft' = IF draft.chart = c THEN draft ELSE selected'
    /\ UNCHANGED <<serverVars, list, section>>

(***************************************************************************)
(* A click on a chart of the list.  A new snapshot resets the draft; the   *)
(* snapshot the editor already has leaves it alone.                        *)
(***************************************************************************)
Select(c) ==
    /\ section = "charts"
    /\ list[c] > 0
    /\ selected' = [chart |-> c, revision |-> list[c]]
    /\ draft' = selected'
    /\ UNCHANGED <<serverVars, list, section>>

(***************************************************************************)
(* "New chart" drops the selection and keeps the document.                 *)
(***************************************************************************)
NewChart ==
    /\ section = "charts"
    /\ selected # NoPin
    /\ selected' = NoPin
    /\ UNCHANGED <<serverVars, list, section, draft>>

(***************************************************************************)
(* A new chart is created under the name its user typed.  The button stays *)
(* enabled while a save is on its way, and the snapshot stays after it:    *)
(* the next save names the same revision again.                            *)
(***************************************************************************)
SaveChart ==
    /\ section = "charts"
    /\ Cardinality(sent) < MaxSent
    /\ \E s \in IF selected = NoPin
               THEN {ChartSave(c, 0, 0, "editor") : c \in Chart}
               ELSE {ChartSave(selected.chart, selected.revision, draft.revision, "editor")} :
         sent' = sent \cup {s}
    /\ UNCHANGED <<saves, list, section, editorVars>>

ChartSection ==
    \/ \E c \in Chart : Select(c)
    \/ NewChart \/ SaveChart

EditorInit ==
    /\ saves = <<>>
    /\ sent = {}
    /\ list = [a \in Asset |-> 0]
    /\ section = "dashboard"
    /\ selected = NoPin
    /\ draft = NoPin

-----------------------------------------------------------------------------
(***************************************************************************)
(* The server's revisions are a RevisionLog.  A revision's document is its *)
(* place in the order of the commits, which also numbers its event.        *)
(***************************************************************************)
KindOf(a) == IF a = Board THEN "dashboard" ELSE "chart"

Number(i) == Cardinality({j \in 1 .. i : saves[j].asset = saves[i].asset})

AssetOf(a) ==
    IF Exists(a)
    THEN [kind |-> KindOf(a), slug |-> a, title |-> "title",
          latest_revision |-> Latest(a), archived |-> FALSE]
    ELSE [kind |-> None, slug |-> None, title |-> None,
          latest_revision |-> 0, archived |-> FALSE]

RevisionOf(i) ==
    [asset |-> saves[i].asset, revision |-> Number(i),
     document |-> [kind |-> IF saves[i].asset = Board THEN "Dashboard" ELSE "Chart",
                   body |-> i],
     source |-> -1, base |-> saves[i].base, title |-> "title"]

EventOf(i) == [id |-> i, asset |-> saves[i].asset, revision |-> Number(i)]

Log == INSTANCE RevisionLog WITH
    Kind <- {"chart", "dashboard"}, Slug <- Asset, Title <- {"title"},
    Body <- 1 .. MaxSaves, MaxEventId <- MaxSaves,
    assets <- [a \in Asset |-> AssetOf(a)],
    asset_revisions <- {RevisionOf(i) : i \in DOMAIN saves},
    outbox_events <- {EventOf(i) : i \in DOMAIN saves}

(***************************************************************************)
(* Whatever the pages send, in whatever order it arrives, the server's     *)
(* revisions are a revision log: a save is one append on the revision it   *)
(* names, or nothing (api.ts:18-21, store.go:103).  A step that leaves     *)
(* `saves` alone leaves the log alone: this is Log!LogSpec.                *)
(***************************************************************************)
PagesKeepLog == Log!LogInit /\ [][saves' # saves /\ Log!LogNext]_saves

(***************************************************************************)
(* The chart editor never replaces a revision its user has not opened: its *)
(* document and its If-Match come from the same snapshot, however often the*)
(* list is refreshed meanwhile (App.tsx:45, ChartEditor.tsx:26-29).        *)
(***************************************************************************)
EditorSavesSeen ==
    \A i \in DOMAIN saves : saves[i].blind # "editor"
=============================================================================
