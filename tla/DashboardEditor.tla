-------------------------- MODULE DashboardEditor --------------------------
(***************************************************************************)
(* The dashboard section of a page (DashboardEditor.tsx) with the drawer   *)
(* that edits the chart of a panel, next to the chart section and the      *)
(* lists of ChartEditor.  Every change of the document restarts the        *)
(* panels' loads; every new list, document or loaded chart may reset the   *)
(* drawer; a chart save answers long after it was asked for, into the      *)
(* render it was asked from.                                               *)
(***************************************************************************)
EXTENDS ChartEditor

CONSTANT JsonRevision  \* revisions that JSON text names

(***************************************************************************)
(* Revision 0 would read the head (api.ts:18); no panel is given it.       *)
(***************************************************************************)
ASSUME JsonAssumption == JsonRevision \subseteq Nat \ {0}

VARIABLES
    document,   \* the dashboard's document, saved or not
    placement,  \* selectedPlacementID
    resolved,   \* resolvedCharts: the chart loaded for a panel
    loads,      \* loads of panels that are not cancelled
    drawer,     \* what the drawer edits and which head its save would name
    save        \* the chart save the drawer started, bound: one at a time

panelVars == <<resolved, loads>>

dashboardVars == <<document, placement, panelVars, drawer, save>>

pageVars == <<list, section, editorVars, dashboardVars>>

editorsVars == <<serverVars, pageVars>>

(***************************************************************************)
(* `from` is the dashboard revision the document came from, 0 the built-in *)
(* one; `revived` says that a chart save has put it back after that        *)
(* revision was replaced.  Both are history.                               *)
(***************************************************************************)
Document == [from : Nat, revived : BOOLEAN, pins : Pins]

Load == [placement : Placement, pin : Pin]

(***************************************************************************)
(* The drawer's draft has the chart it was loaded from, and the newest     *)
(* revision of that chart the page had shown by then.                      *)
(***************************************************************************)
Drawer == [draft : Pin \cup {NoPin}, head : Pin \cup {NoPin}]

Closed == [draft |-> NoPin, head |-> NoPin]

(***************************************************************************)
(* A chart save: the request, and what its callback will use: the panel    *)
(* and the document of the render it started in.  `drawer` and `page` say  *)
(* whether the components that wait for the answer are still there;        *)
(* `outcome` is 0 under way, the new revision, or Refused.                 *)
(***************************************************************************)
Refused == -1

PendingSave == [save : Save, placement : Placement, document : Document,
                drawer : BOOLEAN, page : BOOLEAN, outcome : Nat \cup {Refused}]

AsCommitted(n) ==
    IF n = 0 THEN [from |-> 0, revived |-> FALSE, pins |-> NoPins]
    ELSE [from |-> n, revived |-> FALSE, pins |-> saves[Revision(Board, n)].pins]

(***************************************************************************)
(* selectedPlacement: the panel the drawer is open on.                     *)
(***************************************************************************)
Selected(p, doc) == IF p # None /\ doc.pins[p] # NoPin THEN p ELSE None

(***************************************************************************)
(* Any panels with pins of some revisions.                                 *)
(***************************************************************************)
PinsOf(revisions) == [Placement -> {NoPin} \cup [chart : Chart, revision : revisions]]

Newer(m, n) == IF m > n THEN m ELSE n

-----------------------------------------------------------------------------
(***************************************************************************)
(* Renders.                                                                *)
(***************************************************************************)

(***************************************************************************)
(* The drawer's two effects, run after a step that renders.  The draft     *)
(* follows the panel and the chart loaded for it (`reloaded`: the panels   *)
(* whose chart is a new object), and stays when nothing is loaded; the head*)
(* follows the panel, the chart it names and the list.                     *)
(***************************************************************************)
Rendered(d, reloaded) ==
    LET p == Selected(placement, document)
        q == Selected(placement', document')
        chart == document'.pins[q].chart
        loaded == resolved'[q]
        another == p # q \/ document.pins[q].chart # chart IN
    IF q = None THEN Closed
    ELSE [draft |-> IF (p # q \/ q \in reloaded) /\ loaded # NoPin
                    THEN [chart |-> loaded.chart,
                          revision |-> Newer(loaded.revision, list'[loaded.chart])]
                    ELSE d.draft,
          head |-> IF another \/ list'[chart] # list[chart]
                   THEN IF list'[chart] = 0 THEN NoPin
                        ELSE [chart |-> chart, revision |-> list'[chart]]
                   ELSE d.head]

DrawerEffects(reloaded) ==
    /\ drawer' = Rendered(drawer, reloaded)
    /\ save' = IF save # None /\ Selected(placement', document') = None
               THEN [save EXCEPT !.drawer = FALSE] ELSE save

(* Mutant: the loads of the previous document are not cancelled. *)
Restarted_NotCancelled(pins) ==
    loads \cup {[placement |-> p, pin |-> pins[p]] : p \in {q \in Placement : pins[q] # NoPin}}

(***************************************************************************)
(* A new document or new filters cancel every load and start one per panel.*)
(***************************************************************************)
Restarted(pins) ==
    {[placement |-> p, pin |-> pins[p]] : p \in {q \in Placement : pins[q] # NoPin}}

setDocument(doc) ==
    /\ document' = doc
    /\ loads' = Restarted(doc.pins)

(* Mutant: a refetched dashboard leaves the document alone. *)
dashboardEffect_Keeps ==
    IF list'[Board] = list[Board] THEN UNCHANGED <<document, loads, placement>>
    ELSE UNCHANGED <<document, loads>> /\ placement' = None

(***************************************************************************)
(* A dashboard that has changed replaces the document, saved or not.       *)
(***************************************************************************)
dashboardEffect ==
    IF list'[Board] = list[Board] THEN UNCHANGED <<document, loads, placement>>
    ELSE setDocument(AsCommitted(list'[Board])) /\ placement' = None

(***************************************************************************)
(* A list or a single dashboard arrives; it may be older than the head.    *)
(***************************************************************************)
LoadList(a) ==
    /\ \E n \in list[a] + 1 .. Latest(a) : list' = [list EXCEPT ![a] = n]
    /\ IF section = "dashboard"
       THEN dashboardEffect ELSE UNCHANGED <<document, loads, placement>>
    /\ UNCHANGED <<serverVars, section, editorVars, resolved>>
    /\ DrawerEffects({})

ToCharts ==
    /\ section = "dashboard"
    /\ section' = "charts"
    /\ draft' = selected
    /\ document' = AsCommitted(0)
    /\ placement' = None
    /\ loads' = {}
    /\ resolved' = [p \in Placement |-> NoPin]
    /\ drawer' = Closed
    /\ save' = IF save = None THEN None
               ELSE [save EXCEPT !.drawer = FALSE, !.page = FALSE]
    /\ UNCHANGED <<serverVars, list, selected>>

ToDashboard ==
    /\ section = "charts"
    /\ section' = "dashboard"
    /\ draft' = NoPin
    /\ setDocument(AsCommitted(list[Board]))
    /\ UNCHANGED <<serverVars, list, selected, placement, resolved, drawer, save>>

-----------------------------------------------------------------------------
(***************************************************************************)
(* The panels.                                                             *)
(***************************************************************************)

dashboardStep ==
    /\ section = "dashboard"
    /\ UNCHANGED <<saves, list, section, editorVars>>

(***************************************************************************)
(* The revision a load asked for arrives, if there is one: an answer that  *)
(* came while the drawer was open on another chart may have pinned a number*)
(* its chart does not have.  Queries change only the picture.  A load that *)
(* fails changes nothing here: it is one that never arrives.               *)
(***************************************************************************)
ChartLoaded(l) ==
    /\ dashboardStep
    /\ l \in loads /\ l.pin.revision <= Latest(l.pin.chart)
    /\ loads' = loads \ {l}
    /\ resolved' = [resolved EXCEPT ![l.placement] = l.pin]
    /\ UNCHANGED <<sent, document, placement>>
    /\ DrawerEffects({l.placement})

-----------------------------------------------------------------------------
(***************************************************************************)
(* The document.                                                           *)
(***************************************************************************)

(***************************************************************************)
(* newPlacementID: a random id, which nothing holds yet.                   *)
(***************************************************************************)
newPlacementID(p) ==
    /\ \A i \in DOMAIN saves : saves[i].pins[p] = NoPin
    /\ \A s \in sent : s.pins[p] = NoPin
    /\ document.pins[p] = NoPin /\ resolved[p] = NoPin
    /\ save # None => save.document.pins[p] = NoPin

updateDocument(pins, selection) ==
    /\ dashboardStep
    /\ placement' = selection
    /\ setDocument([document EXCEPT !.pins = pins])
    /\ UNCHANGED <<sent, resolved>>
    /\ DrawerEffects({})

(* A title or a layout: the same panels in a new document. *)
Edit == updateDocument(document.pins, placement)

(***************************************************************************)
(* JSON text is checked for its kind only: it may name any panels, of      *)
(* charts and revisions that need not exist.                               *)
(***************************************************************************)
EditJson(pins) == updateDocument(pins, placement)

(***************************************************************************)
(* A new panel: of a chart of the list (add), or like the selected one     *)
(* (cloneSelected).                                                        *)
(***************************************************************************)
add(pin) ==
    /\ \/ pin.revision = list[pin.chart]
       \/ Selected(placement, document) # None /\ pin = document.pins[placement]
    /\ \E p \in Placement :
         /\ newPlacementID(p)
         /\ updateDocument([document.pins EXCEPT ![p] = pin], placement)

removeSelected ==
    /\ Selected(placement, document) # None
    /\ updateDocument([document.pins EXCEPT ![placement] = NoPin], None)

pinPlacementRevision(pins, p, n) ==
    IF pins[p] = NoPin THEN pins ELSE [pins EXCEPT ![p].revision = n]

(* The badge of a panel whose chart has a newer revision. *)
UpdateBadge(p) ==
    /\ document.pins[p] # NoPin
    /\ list[document.pins[p].chart] > document.pins[p].revision
    /\ updateDocument(pinPlacementRevision(document.pins, p, list[document.pins[p].chart]),
                      placement)

(***************************************************************************)
(* The dashboard in the list gives If-Match, the document what is saved.   *)
(***************************************************************************)
saveDashboard ==
    /\ dashboardStep
    /\ Cardinality(sent) < MaxSent
    /\ sent' = sent \cup {BoardSave(list[Board], document.pins, document.from,
                                    IF document.revived THEN "revived" ELSE "board")}
    /\ UNCHANGED dashboardVars

-----------------------------------------------------------------------------
(***************************************************************************)
(* The drawer.                                                             *)
(***************************************************************************)

setSelectedPlacementID(p) ==
    /\ dashboardStep
    /\ placement # p
    /\ p # None => document.pins[p] # NoPin
    /\ placement' = p
    /\ UNCHANGED <<sent, document, resolved, loads>>
    /\ DrawerEffects({})

(***************************************************************************)
(* The save button of the drawer, disabled while a save of this drawer is  *)
(* under way.                                                              *)
(***************************************************************************)
SaveDrawer ==
    /\ dashboardStep
    /\ drawer.draft # NoPin /\ drawer.head # NoPin
    /\ save = None
    /\ save' =
         [save |-> ChartSave(drawer.head.chart, drawer.head.revision,
                     IF drawer.draft.chart = drawer.head.chart
                     THEN drawer.draft.revision ELSE 0, "drawer"),
          placement |-> placement, document |-> document,
          drawer |-> TRUE, page |-> TRUE, outcome |-> 0]
    /\ UNCHANGED <<sent, document, placement, panelVars, drawer>>

(* Mutant: the answer goes out before the commit, which may still fail. *)
HandleSave_AnswersFirst ==
    /\ save # None /\ save.outcome = 0
    /\ Accepted(save.save) /\ Len(saves) < MaxSaves
    /\ saves' \in {saves, Append(saves, save.save)}
    /\ save' = [save EXCEPT !.outcome = save.save.base + 1]
    /\ UNCHANGED <<sent, list, section, editorVars, document, placement,
                   panelVars, drawer>>

(***************************************************************************)
(* The server takes the save, refuses it, or either message is lost.       *)
(***************************************************************************)
HandleSave ==
    /\ save # None /\ save.outcome = 0
    /\ \/ /\ Accepted(save.save) /\ Len(saves) < MaxSaves
          /\ saves' = Append(saves, save.save)
          /\ \E outcome \in {Refused, save.save.base + 1} :
               save' = [save EXCEPT !.outcome = outcome]
       \/ /\ UNCHANGED saves
          /\ save' = [save EXCEPT !.outcome = Refused]
    /\ UNCHANGED <<sent, list, section, editorVars, document, placement,
                   panelVars, drawer>>

(***************************************************************************)
(* The answer.  The callback pins the new revision in the document of the  *)
(* render the save was started in, and that becomes the document again.    *)
(***************************************************************************)
pinSavedChart ==
    LET p == save.placement
        saved == [chart |-> save.save.asset, revision |-> save.outcome]
        pins == pinPlacementRevision(save.document.pins, p, save.outcome) IN
    /\ setDocument([save.document EXCEPT !.pins = pins,
                      !.revived = @ \/ save.document.from # list[Board]])
    /\ resolved' = [resolved EXCEPT ![p] = saved]

(* Mutant: a refusal is taken for an answer. *)
SaveAnswered_AnyStatus ==
    /\ save # None /\ save.outcome # 0
    /\ save' = None
    /\ UNCHANGED <<serverVars, list, section, editorVars, placement>>
    /\ IF ~save.page THEN UNCHANGED <<document, loads, resolved, drawer>>
       ELSE /\ pinSavedChart
            /\ drawer' = Rendered(drawer, {save.placement})

SaveAnswered ==
    /\ save # None /\ save.outcome # 0
    /\ save' = None
    /\ UNCHANGED <<serverVars, list, section, editorVars, placement>>
    /\ IF save.outcome = Refused \/ ~save.page
       THEN UNCHANGED <<document, loads, resolved, drawer>>
       ELSE /\ pinSavedChart
            /\ drawer' = Rendered(IF save.drawer
                                  THEN [drawer EXCEPT !.head = resolved'[save.placement]]
                                  ELSE drawer, {save.placement})

-----------------------------------------------------------------------------
(***************************************************************************)
(* Another page saves a chart, or a dashboard with panels of its own.      *)
(***************************************************************************)
OthersSave ==
    /\ \/ \E c \in Chart : OtherSaves(ChartSave(c, Latest(c), Latest(c), None))
       \/ \E pins \in PinsOf(1 .. MaxSaves) :
            /\ \A p \in Placement : pins[p] # NoPin =>
                 /\ pins[p].revision <= Latest(pins[p].chart)
                 /\ AsCommitted(Latest(Board)).pins[p] # NoPin \/ newPlacementID(p)
            /\ OtherSaves(BoardSave(Latest(Board), pins, Latest(Board), None))
    /\ UNCHANGED dashboardVars

EditorsInit ==
    /\ EditorInit
    /\ document = AsCommitted(0)
    /\ placement = None
    /\ resolved = [p \in Placement |-> NoPin]
    /\ loads = {}
    /\ drawer = Closed
    /\ save = None

DocumentStep ==
    \/ Edit \/ removeSelected \/ saveDashboard
    \/ \E pins \in PinsOf(JsonRevision) : EditJson(pins)
    \/ \E pin \in [chart : Chart, revision : 1 .. MaxSaves] : add(pin)
    \/ \E p \in Placement : UpdateBadge(p)

EditorsNext ==
    \/ OthersSave
    \/ \E s \in sent : Handle(s) /\ UNCHANGED dashboardVars
    \/ \E a \in Asset : LoadList(a)
    \/ ToCharts \/ ToDashboard
    \/ ChartSection /\ UNCHANGED dashboardVars
    \/ \E l \in loads : ChartLoaded(l)
    \/ DocumentStep
    \/ \E p \in Placement \cup {None} : setSelectedPlacementID(p)
    \/ SaveDrawer \/ HandleSave \/ SaveAnswered

EditorsSpec == EditorsInit /\ [][EditorsNext]_editorsVars

-----------------------------------------------------------------------------
(***************************************************************************)
(* The types of the page and of the server.                                *)
(***************************************************************************)
EditorsTypeOK ==
    /\ saves \in Seq(Save)
    /\ sent \subseteq Save
    /\ list \in [Asset -> Nat]
    /\ section \in {"charts", "dashboard"}
    /\ selected \in Pin \cup {NoPin}
    /\ draft \in Pin \cup {NoPin}
    /\ document \in Document
    /\ placement \in Placement \cup {None}
    /\ resolved \in Pins
    /\ loads \subseteq Load
    /\ drawer \in Drawer
    /\ save \in PendingSave \cup {None}

(***************************************************************************)
(* A dashboard save never replaces a dashboard revision its document does  *)
(* not come from, however often the dashboard is refetched while it is     *)
(* edited (DashboardEditor.tsx:47, 68): unless a chart save put an older   *)
(* document back.                                                          *)
(***************************************************************************)
DashboardSavesSeen ==
    \A i \in DOMAIN saves : saves[i].blind # "board"

(***************************************************************************)
(* A panel with no load under way or failed has the revision its placement *)
(* pins, whatever loads earlier documents started and whenever those are   *)
(* answered, also after a chart save has put an older document back        *)
(* (DashboardEditor.tsx:48-62).                                            *)
(***************************************************************************)
PanelsCurrent ==
    \A p \in Placement :
        \/ section = "charts" \/ document.pins[p] = NoPin
        \/ \E l \in loads : l.placement = p
        \/ resolved[p] = document.pins[p]

(***************************************************************************)
(* Whatever the page sends names a revision the server has in If-Match, 0  *)
(* for a creation, also when it is sent on an answer or a list that other  *)
(* saves have made old (api.ts:20, DashboardEditor.tsx:96, 101): what the  *)
(* store is asked is what AssetStore takes requests to be.                 *)
(***************************************************************************)
BasesCommitted ==
    /\ \A s \in sent : s.base <= Latest(s.asset)
    /\ save # None => save.save.base \in 1 .. Latest(save.save.asset)

(***************************************************************************)
(* "Another user who saved the same ChartAsset first is not overwritten":  *)
(* a chart save of the drawer never replaces a revision that was not there *)
(* when its draft was loaded.  The code does not keep this.                *)
(***************************************************************************)
DrawerSavesSeen ==
    \A i \in DOMAIN saves : saves[i].blind # "drawer"
=============================================================================
