---------------------------- MODULE EditorProofs ----------------------------
(***************************************************************************)
(* The editors' safety properties and the refinement of the server they    *)
(* meet, for every number of charts, panels, saves and revisions.          *)
(***************************************************************************)
EXTENDS DashboardEditor, FiniteSetTheorems, TLAPS

Mine(a) == {i \in DOMAIN saves : saves[i].asset = a}

UpTo(a, n) == {j \in 1 .. n : saves[j].asset = a}

(***************************************************************************)
(* Every revision that is counted is there: Revision finds it.             *)
(***************************************************************************)
RevisionsFound ==
    \A a \in Asset : \A n \in 1 .. Latest(a) :
        \E i \in DOMAIN saves : saves[i].asset = a /\ Cardinality(UpTo(a, i)) = n

ListBehind == \A a \in Asset : list[a] <= Latest(a)

(***************************************************************************)
(* A draft needs a panel, and a page that shows charts has neither.        *)
(***************************************************************************)
DrawerOpen ==
    /\ drawer.draft # NoPin => Selected(placement, document) # None
    /\ section = "charts" => placement = None /\ drawer.draft = NoPin

SaveOfChart == save # None => save.save.asset \in Chart

EditorsInv ==
    /\ EditorsTypeOK
    /\ RevisionsFound
    /\ ListBehind
    /\ DrawerOpen
    /\ SaveOfChart

-----------------------------------------------------------------------------
(***************************************************************************)
(* Revisions and how they are counted.                                     *)
(***************************************************************************)
LEMMA UpToFinite ==
    ASSUME NEW a, NEW n \in Nat
    PROVE  IsFiniteSet(UpTo(a, n)) /\ Cardinality(UpTo(a, n)) \in Nat
<1>1. IsFiniteSet(1 .. n) /\ UpTo(a, n) \in SUBSET (1 .. n)
  BY FS_Interval DEF UpTo
<1> QED BY <1>1, FS_Subset, FS_CardinalityType

LEMMA LatestNat ==
    ASSUME saves \in Seq(Save), NEW a
    PROVE  /\ Latest(a) = Cardinality(UpTo(a, Len(saves)))
           /\ Latest(a) \in Nat
<1>1. Mine(a) = UpTo(a, Len(saves)) /\ Len(saves) \in Nat
  BY DEF Mine, UpTo
<1> QED BY <1>1, UpToFinite DEF Latest, Mine

LEMMA Appending ==
    ASSUME saves \in Seq(Save), NEW s \in Save, saves' = Append(saves, s)
    PROVE  /\ saves' \in Seq(Save)
           /\ Len(saves') = Len(saves) + 1
           /\ saves'[Len(saves) + 1] = s
           /\ \A i \in DOMAIN saves : i \in DOMAIN saves' /\ saves'[i] = saves[i]
           /\ DOMAIN saves' = DOMAIN saves \cup {Len(saves) + 1}
OBVIOUS

LEMMA UpToAppended ==
    ASSUME saves \in Seq(Save), NEW s \in Save, saves' = Append(saves, s), NEW a
    PROVE  /\ \A n \in 1 .. Len(saves) : UpTo(a, n)' = UpTo(a, n)
           /\ Latest(a)' = IF a = s.asset THEN Latest(a) + 1 ELSE Latest(a)
           /\ Latest(a)' = Cardinality(UpTo(a, Len(saves))')
<1>1. /\ saves' \in Seq(Save) /\ Len(saves') = Len(saves) + 1
      /\ saves'[Len(saves) + 1] = s
      /\ \A i \in 1 .. Len(saves) : saves'[i] = saves[i]
      /\ Len(saves) \in Nat
  BY Appending
<1>2. \A n \in 1 .. Len(saves) : UpTo(a, n)' = UpTo(a, n)
  BY <1>1 DEF UpTo
<1>3. Latest(a)' = Cardinality(UpTo(a, Len(saves))')
  <2>1. {i \in DOMAIN saves' : saves'[i].asset = a} = UpTo(a, Len(saves))'
    BY <1>1 DEF UpTo
  <2> QED BY <2>1 DEF Latest
<1>4. CASE a = s.asset
  <2>1. UpTo(a, Len(saves))' = UpTo(a, Len(saves)) \cup {Len(saves) + 1}
    BY <1>1, <1>4 DEF UpTo
  <2>2. Len(saves) + 1 \notin UpTo(a, Len(saves))
    BY <1>1 DEF UpTo
  <2>3. IsFiniteSet(UpTo(a, Len(saves)))
    BY <1>1, UpToFinite
  <2>4. Cardinality(UpTo(a, Len(saves))') = Cardinality(UpTo(a, Len(saves))) + 1
    BY <2>1, <2>2, <2>3, FS_AddElement
  <2> QED BY <1>2, <1>3, <1>4, <2>4, LatestNat
<1>5. CASE a # s.asset
  <2>1. UpTo(a, Len(saves))' = UpTo(a, Len(saves))
    BY <1>1, <1>5 DEF UpTo
  <2> QED BY <1>2, <1>3, <1>5, <2>1, LatestNat
<1> QED BY <1>4, <1>5

LEMMA SaveFields ==
    ASSUME NEW s \in Save
    PROVE  s.asset \in Asset /\ s.base \in Nat /\ s.pins \in Pins
BY DEF Save

(***************************************************************************)
(* What a commit keeps of the invariant.                                   *)
(***************************************************************************)
LEMMA RevisionsAppended ==
    ASSUME EditorsInv, NEW s \in Save, saves' = Append(saves, s), UNCHANGED list
    PROVE  saves' \in Seq(Save) /\ RevisionsFound' /\ ListBehind'
<1>1. saves \in Seq(Save) /\ s.asset \in Asset
  BY SaveFields DEF EditorsInv, EditorsTypeOK
<1>2. saves' \in Seq(Save)
  BY <1>1, Appending
<1>3. RevisionsFound'
  <2> SUFFICES ASSUME NEW a \in Asset, NEW n \in (1 .. Latest(a))'
               PROVE  \E i \in DOMAIN saves' :
                        saves'[i].asset = a /\ Cardinality(UpTo(a, i)') = n
    BY DEF RevisionsFound
  <2>1. CASE n \in 1 .. Latest(a)
    <3>1. PICK i \in DOMAIN saves : saves[i].asset = a /\ Cardinality(UpTo(a, i)) = n
      BY <2>1 DEF EditorsInv, RevisionsFound
    <3>2. i \in 1 .. Len(saves) /\ i \in DOMAIN saves' /\ saves'[i] = saves[i]
      BY <1>1, <3>1, Appending
    <3>3. UpTo(a, i)' = UpTo(a, i)
      BY <1>1, <3>2, UpToAppended
    <3> QED BY <3>1, <3>2, <3>3
  <2>2. CASE n \notin 1 .. Latest(a)
    <3>1. Latest(a)' = IF a = s.asset THEN Latest(a) + 1 ELSE Latest(a)
      BY <1>1, UpToAppended
    <3>2. Latest(a) \in Nat
      BY <1>1, LatestNat
    <3>3. a = s.asset /\ n = Latest(a)'
      BY <2>2, <3>1, <3>2
    <3>4. n = Cardinality(UpTo(a, Len(saves))')
      BY <1>1, <3>3, UpToAppended
    <3>5. Len(saves) + 1 \in DOMAIN saves' /\ saves'[Len(saves) + 1] = s
      BY <1>1, Appending
    <3> QED BY <3>3, <3>4, <3>5
  <2> QED BY <2>1, <2>2
<1>4. ListBehind'
  <2> SUFFICES ASSUME NEW a \in Asset PROVE list'[a] <= Latest(a)'
    BY DEF ListBehind
  <2>1. list[a] \in Nat /\ list[a] <= Latest(a) /\ list'[a] = list[a]
    BY DEF EditorsInv, EditorsTypeOK, ListBehind
  <2>2. Latest(a)' = IF a = s.asset THEN Latest(a) + 1 ELSE Latest(a)
    BY <1>1, UpToAppended
  <2> QED BY <1>1, <2>1, <2>2, LatestNat
<1> QED BY <1>2, <1>3, <1>4

LEMMA RevisionsSame ==
    ASSUME EditorsInv, UNCHANGED saves
    PROVE  saves' \in Seq(Save) /\ RevisionsFound' /\ \A a : Latest(a)' = Latest(a)
<1>1. \A a : Latest(a)' = Latest(a)
  BY DEF Latest
<1>2. \A a, n : UpTo(a, n)' = UpTo(a, n)
  BY DEF UpTo
<1> QED BY <1>1, <1>2 DEF EditorsInv, EditorsTypeOK, RevisionsFound

LEMMA ListSame ==
    ASSUME EditorsInv, UNCHANGED <<saves, list>>
    PROVE  ListBehind'
BY RevisionsSame DEF EditorsInv, ListBehind
-----------------------------------------------------------------------------
(***************************************************************************)
(* Documents, loads and the drawer's effects.                              *)
(***************************************************************************)
LEMMA RevisionPins ==
    ASSUME saves \in Seq(Save), RevisionsFound, NEW n \in 1 .. Latest(Board)
    PROVE  saves[Revision(Board, n)].pins \in Pins
<1>1. \E i \in DOMAIN saves : saves[i].asset = Board /\ Cardinality(UpTo(Board, i)) = n
  BY DEF RevisionsFound, Asset
<1>2. Revision(Board, n) \in DOMAIN saves
  BY <1>1 DEF Revision, UpTo
<1> QED BY <1>2, SaveFields

LEMMA NoPinsPins == NoPins \in Pins
BY DEF NoPins, Pins

LEMMA CommittedDocument ==
    ASSUME saves \in Seq(Save), RevisionsFound, NEW n \in 0 .. Latest(Board)
    PROVE  /\ AsCommitted(n) \in Document
           /\ AsCommitted(n).from = n /\ ~AsCommitted(n).revived
<1>1. CASE n = 0
  BY <1>1, NoPinsPins DEF AsCommitted, Document
<1>2. CASE n # 0
  <2>1. n \in 1 .. Latest(Board) /\ n \in Nat
    BY <1>2, LatestNat
  <2>2. saves[Revision(Board, n)].pins \in Pins
    BY <2>1, RevisionPins
  <2> QED BY <1>2, <2>1, <2>2 DEF AsCommitted, Document
<1> QED BY <1>1, <1>2

LEMMA RestartedLoads ==
    ASSUME NEW pins \in Pins
    PROVE  /\ Restarted(pins) \subseteq Load
           /\ \A l \in Restarted(pins) : l.pin = pins[l.placement]
           /\ \A p \in Placement : pins[p] # NoPin =>
                \E l \in Restarted(pins) : l.placement = p
<1>1. \A p \in Placement : pins[p] \in Pin \cup {NoPin}
  BY DEF Pins
<1>2. \A l \in Restarted(pins) : \E p \in Placement :
        pins[p] # NoPin /\ l = [placement |-> p, pin |-> pins[p]]
  BY DEF Restarted
<1>3. Restarted(pins) \subseteq Load
  BY <1>1, <1>2 DEF Load
<1>4. \A l \in Restarted(pins) : l.pin = pins[l.placement]
  BY <1>2
<1>5. ASSUME NEW p \in Placement, pins[p] # NoPin
      PROVE  \E l \in Restarted(pins) : l.placement = p
  <2>1. [placement |-> p, pin |-> pins[p]] \in Restarted(pins)
    BY <1>5 DEF Restarted
  <2> QED BY <2>1
<1> QED BY <1>3, <1>4, <1>5

LEMMA SelectedPanel ==
    ASSUME NEW p \in Placement \cup {None}, NEW doc \in Document, Selected(p, doc) # None
    PROVE  /\ Selected(p, doc) = p /\ p \in Placement
           /\ doc.pins[p] \in Pin
BY DEF Selected, Document, Pins

LEMMA RenderedDrawer ==
    ASSUME NEW d \in Drawer, NEW reloaded, document' \in Document,
           placement' \in Placement \cup {None}, resolved' \in Pins,
           list' \in [Asset -> Nat]
    PROVE  /\ Rendered(d, reloaded) \in Drawer
           /\ Rendered(d, reloaded).draft # NoPin => Selected(placement', document') # None
<1>. DEFINE q == Selected(placement', document')
            chart == document'.pins[q].chart
            loaded == resolved'[q]
<1>1. CASE q = None
  BY <1>1 DEF Rendered, Closed, Drawer
<1>2. CASE q # None
  <2>1. q \in Placement /\ document'.pins[q] \in Pin /\ loaded \in Pin \cup {NoPin}
    BY <1>2, SelectedPanel DEF Pins
  <2>2. chart \in Asset /\ list'[chart] \in Nat
    BY <2>1 DEF Pin, Asset
  <2>3. loaded # NoPin => /\ loaded.chart \in Chart /\ loaded.revision \in Nat
                          /\ list'[loaded.chart] \in Nat
    BY <2>1 DEF Pin, Asset
  <2>4. Rendered(d, reloaded).draft \in Pin \cup {NoPin}
    BY <1>2, <2>3 DEF Rendered, Pin, Newer, Drawer
  <2>5. Rendered(d, reloaded).head \in Pin \cup {NoPin}
    BY <1>2, <2>1, <2>2 DEF Rendered, Pin, Drawer
  <2>6. Rendered(d, reloaded) = [draft |-> Rendered(d, reloaded).draft,
                                 head |-> Rendered(d, reloaded).head]
    BY <1>2 DEF Rendered
  <2> HIDE DEF q
  <2> QED BY <1>2, <2>4, <2>5, <2>6 DEF Drawer, q
<1> QED BY <1>1, <1>2
-----------------------------------------------------------------------------
(***************************************************************************)
(* The steps.                                                              *)
(***************************************************************************)
LEMMA DrawerEffectsInv ==
    ASSUME EditorsInv, NEW reloaded, DrawerEffects(reloaded), document' \in Document,
           placement' \in Placement \cup {None}, resolved' \in Pins,
           list' \in [Asset -> Nat], section' = "charts" => placement' = None
    PROVE  /\ drawer' \in Drawer
           /\ save' \in PendingSave \cup {None}
           /\ DrawerOpen' /\ SaveOfChart'
<1>1. drawer \in Drawer /\ drawer' = Rendered(drawer, reloaded)
  BY DEF EditorsInv, EditorsTypeOK, DrawerEffects
<1>2. drawer' \in Drawer /\ (drawer'.draft # NoPin => Selected(placement', document') # None)
  BY <1>1, RenderedDrawer
<1>3. section' = "charts" => drawer'.draft = NoPin
  BY <1>2 DEF Selected
<1>4. DrawerOpen'
  BY <1>2, <1>3 DEF DrawerOpen
<1>5. save' = save \/ (save # None /\ save' = [save EXCEPT !.drawer = FALSE])
  BY DEF DrawerEffects
<1>6. save \in PendingSave \cup {None} /\ SaveOfChart
  BY DEF EditorsInv, EditorsTypeOK
<1>7. save' \in PendingSave \cup {None}
  BY <1>5, <1>6 DEF PendingSave
<1>8. SaveOfChart'
  <2>1. CASE save' = save
    BY <1>6, <2>1 DEF SaveOfChart
  <2>2. CASE save # None /\ save' = [save EXCEPT !.drawer = FALSE]
    <3>1. save'.save = save.save
      BY <1>6, <2>2 DEF PendingSave
    <3> QED BY <1>6, <2>2, <3>1 DEF SaveOfChart
  <2> QED BY <1>5, <2>1, <2>2
<1> QED BY <1>2, <1>4, <1>7, <1>8

LEMMA SetDocument ==
    ASSUME NEW doc \in Document, setDocument(doc)
    PROVE  document' \in Document /\ loads' \subseteq Load
BY RestartedLoads DEF setDocument, Document

LEMMA LoadListInv ==
    ASSUME EditorsInv, NEW a \in Asset, LoadList(a)
    PROVE  EditorsInv'
<1>1. PICK n \in list[a] + 1 .. Latest(a) : list' = [list EXCEPT ![a] = n]
  BY DEF LoadList
<1>2. /\ saves \in Seq(Save) /\ list \in [Asset -> Nat] /\ ListBehind
      /\ document \in Document /\ loads \subseteq Load /\ resolved \in Pins
      /\ placement \in Placement \cup {None} /\ RevisionsFound
  BY DEF EditorsInv, EditorsTypeOK
<1>3. UNCHANGED <<saves, sent, section, selected, draft, resolved>>
  BY DEF LoadList, serverVars, editorVars
<1>4. n \in Nat /\ n <= Latest(a) /\ list' \in [Asset -> Nat]
  BY <1>1, <1>2, LatestNat
<1>5. \A b \in Asset : list'[b] <= Latest(b)
  BY <1>1, <1>2, <1>4 DEF ListBehind
<1>6. /\ document' \in Document /\ loads' \subseteq Load
      /\ placement' \in {placement, None}
  <2>1. CASE UNCHANGED <<document, loads, placement>>
    BY <1>2, <2>1
  <2>2. CASE setDocument(AsCommitted(list'[Board])) /\ placement' = None
    <3>1. list'[Board] \in 0 .. Latest(Board)
      BY <1>2, <1>4, <1>5, LatestNat DEF Asset
    <3>2. AsCommitted(list'[Board]) \in Document
      BY <1>2, <3>1, CommittedDocument
    <3> QED BY <2>2, <3>2, SetDocument
  <2> QED BY <2>1, <2>2 DEF LoadList, dashboardEffect
<1>7. section' = "charts" => placement' = None
  BY <1>3, <1>6 DEF EditorsInv, DrawerOpen
<1>8. DrawerEffects({})
  BY DEF LoadList
<1>9. /\ drawer' \in Drawer /\ save' \in PendingSave \cup {None}
      /\ DrawerOpen' /\ SaveOfChart'
  BY <1>2, <1>3, <1>4, <1>6, <1>7, <1>8, DrawerEffectsInv
<1>10. RevisionsFound' /\ ListBehind'
  BY <1>3, <1>5, RevisionsSame DEF ListBehind
<1>11. EditorsTypeOK'
  BY <1>2, <1>3, <1>4, <1>6, <1>9 DEF EditorsInv, EditorsTypeOK
<1> QED BY <1>9, <1>10, <1>11 DEF EditorsInv

LEMMA ToChartsInv ==
    ASSUME EditorsInv, ToCharts
    PROVE  EditorsInv'
<1>1. UNCHANGED <<saves, sent, list, selected>> /\ section' = "charts" /\ draft' = selected
  BY DEF ToCharts, serverVars
<1>2. AsCommitted(0) \in Document
  BY NoPinsPins DEF AsCommitted, Document
<1>3. /\ document' \in Document /\ placement' = None /\ loads' = {} /\ drawer' = Closed
      /\ resolved' = NoPins
  BY <1>2 DEF ToCharts, NoPins
<1>4. save' \in PendingSave \cup {None} /\ SaveOfChart'
  <2>1. save \in PendingSave \cup {None} /\ SaveOfChart
    BY DEF EditorsInv, EditorsTypeOK
  <2>2. CASE save = None
    BY <2>2 DEF ToCharts, SaveOfChart
  <2>3. CASE save # None
    <3>1. save' = [save EXCEPT !.drawer = FALSE, !.page = FALSE] /\ save \in PendingSave
      BY <2>1, <2>3 DEF ToCharts
    <3>2. save' \in PendingSave /\ save'.save = save.save
      BY <3>1 DEF PendingSave
    <3> QED BY <2>1, <2>3, <3>2 DEF SaveOfChart
  <2> QED BY <2>2, <2>3
<1>5. drawer' \in Drawer /\ DrawerOpen'
  BY <1>1, <1>3 DEF Closed, Drawer, DrawerOpen
<1>6. RevisionsFound' /\ ListBehind'
  BY <1>1, RevisionsSame, ListSame
<1>7. EditorsTypeOK'
  BY <1>1, <1>3, <1>4, <1>5, NoPinsPins DEF EditorsInv, EditorsTypeOK
<1> QED BY <1>4, <1>5, <1>6, <1>7 DEF EditorsInv

LEMMA ToDashboardInv ==
    ASSUME EditorsInv, ToDashboard
    PROVE  EditorsInv'
<1>1. /\ UNCHANGED <<saves, sent, list, selected, placement, resolved, drawer, save>>
      /\ section = "charts" /\ section' = "dashboard" /\ draft' = NoPin
      /\ setDocument(AsCommitted(list[Board]))
  BY DEF ToDashboard, serverVars
<1>2. saves \in Seq(Save) /\ RevisionsFound /\ list[Board] \in 0 .. Latest(Board)
  BY LatestNat DEF EditorsInv, EditorsTypeOK, ListBehind, Asset
<1>3. document' \in Document /\ loads' \subseteq Load
  BY <1>1, <1>2, CommittedDocument, SetDocument
<1>4. DrawerOpen'
  BY <1>1 DEF EditorsInv, DrawerOpen
<1>5. SaveOfChart'
  BY <1>1 DEF EditorsInv, SaveOfChart
<1>6. RevisionsFound' /\ ListBehind'
  BY <1>1, RevisionsSame, ListSame
<1>7. EditorsTypeOK'
  BY <1>1, <1>3 DEF EditorsInv, EditorsTypeOK
<1> QED BY <1>4, <1>5, <1>6, <1>7 DEF EditorsInv

LEMMA ChartLoadedInv ==
    ASSUME EditorsInv, NEW l \in loads, ChartLoaded(l)
    PROVE  EditorsInv'
<1>1. /\ UNCHANGED <<saves, sent, list, section, selected, draft, document, placement>>
      /\ loads' = loads \ {l} /\ resolved' = [resolved EXCEPT ![l.placement] = l.pin]
      /\ section = "dashboard" /\ DrawerEffects({l.placement})
  BY DEF ChartLoaded, dashboardStep, editorVars
<1>2. resolved' \in Pins /\ loads' \subseteq Load
  BY <1>1 DEF EditorsInv, EditorsTypeOK, Load, Pins
<1>3. /\ document' \in Document /\ placement' \in Placement \cup {None}
      /\ list' \in [Asset -> Nat] /\ section' # "charts"
  BY <1>1 DEF EditorsInv, EditorsTypeOK
<1>4. /\ drawer' \in Drawer /\ save' \in PendingSave \cup {None}
      /\ DrawerOpen' /\ SaveOfChart'
  BY <1>1, <1>2, <1>3, DrawerEffectsInv
<1>5. RevisionsFound' /\ ListBehind'
  BY <1>1, RevisionsSame, ListSame
<1>6. EditorsTypeOK'
  BY <1>1, <1>2, <1>4 DEF EditorsInv, EditorsTypeOK
<1> QED BY <1>4, <1>5, <1>6 DEF EditorsInv

LEMMA updateDocumentInv ==
    ASSUME EditorsInv, NEW pins \in Pins, NEW selection \in Placement \cup {None},
           updateDocument(pins, selection)
    PROVE  EditorsInv'
<1>1. /\ UNCHANGED <<saves, sent, list, section, selected, draft, resolved>>
      /\ placement' = selection /\ setDocument([document EXCEPT !.pins = pins])
      /\ section = "dashboard" /\ DrawerEffects({})
  BY DEF updateDocument, dashboardStep, editorVars
<1>2. [document EXCEPT !.pins = pins] \in Document
  BY DEF EditorsInv, EditorsTypeOK, Document
<1>3. document' \in Document /\ loads' \subseteq Load
  BY <1>1, <1>2, SetDocument
<1>4. /\ placement' \in Placement \cup {None} /\ resolved' \in Pins
      /\ list' \in [Asset -> Nat] /\ section' # "charts"
  BY <1>1 DEF EditorsInv, EditorsTypeOK
<1>5. /\ drawer' \in Drawer /\ save' \in PendingSave \cup {None}
      /\ DrawerOpen' /\ SaveOfChart'
  BY <1>1, <1>3, <1>4, DrawerEffectsInv
<1>6. RevisionsFound' /\ ListBehind'
  BY <1>1, RevisionsSame, ListSame
<1>7. EditorsTypeOK'
  BY <1>1, <1>3, <1>4, <1>5 DEF EditorsInv, EditorsTypeOK
<1> QED BY <1>5, <1>6, <1>7 DEF EditorsInv

LEMMA PinnedPins ==
    ASSUME NEW pins \in Pins, NEW p \in Placement, NEW n \in Nat
    PROVE  pinPlacementRevision(pins, p, n) \in Pins
BY DEF pinPlacementRevision, Pins, Pin

LEMMA NewSaves ==
    ASSUME NEW seen, NEW base \in Nat
    PROVE  /\ \A c \in Chart : \A w \in {None, "editor", "drawer"} :
                ChartSave(c, base, seen, w) \in Save
           /\ \A pins \in Pins : \A w \in {None, "board", "revived"} :
                BoardSave(base, pins, seen, w) \in Save
BY NoPinsPins DEF ChartSave, BoardSave, Save, Asset

LEMMA PinsOfPins ==
    ASSUME NEW revisions \in SUBSET Nat
    PROVE  PinsOf(revisions) \subseteq Pins
BY DEF PinsOf, Pins, Pin

LEMMA DocumentStepInv ==
    ASSUME EditorsInv, DocumentStep
    PROVE  EditorsInv'
<1>1. /\ document \in Document /\ document.pins \in Pins
      /\ placement \in Placement \cup {None} /\ list \in [Asset -> Nat]
  BY DEF EditorsInv, EditorsTypeOK, Document
<1>2. CASE Edit
  BY <1>1, <1>2, updateDocumentInv DEF Edit
<1>3. CASE removeSelected
  <2>1. placement \in Placement
    BY <1>1, <1>3, SelectedPanel DEF removeSelected
  <2>2. [document.pins EXCEPT ![placement] = NoPin] \in Pins
    BY <1>1, <2>1 DEF Pins
  <2> QED BY <1>3, <2>2, updateDocumentInv DEF removeSelected
<1>4. CASE saveDashboard
  <2>1. BoardSave(list[Board], document.pins, document.from,
                  IF document.revived THEN "revived" ELSE "board") \in Save
    BY <1>1, NewSaves DEF Asset
  <2>2. /\ sent' \subseteq Save
        /\ UNCHANGED <<saves, list, section, selected, draft>>
        /\ UNCHANGED <<document, placement, resolved, loads, drawer, save>>
    BY <1>4, <2>1 DEF saveDashboard, dashboardStep, dashboardVars, panelVars, editorVars,
                      EditorsInv, EditorsTypeOK
  <2>3. RevisionsFound' /\ ListBehind'
    BY <2>2, RevisionsSame, ListSame
  <2>4. EditorsTypeOK'
    BY <2>2 DEF EditorsInv, EditorsTypeOK
  <2>5. DrawerOpen' /\ SaveOfChart'
    BY <2>2 DEF EditorsInv, DrawerOpen, SaveOfChart
  <2> QED BY <2>3, <2>4, <2>5 DEF EditorsInv
<1>5. ASSUME NEW pin \in [chart : Chart, revision : 1 .. MaxSaves], add(pin)
      PROVE  EditorsInv'
  <2>1. PICK p \in Placement :
          updateDocument([document.pins EXCEPT ![p] = pin], placement)
    BY <1>5 DEF add
  <2>2. [document.pins EXCEPT ![p] = pin] \in Pins
    BY <1>1, <1>5 DEF Pins, Pin
  <2> QED BY <1>1, <2>1, <2>2, updateDocumentInv
<1>6. ASSUME NEW p \in Placement, UpdateBadge(p)
      PROVE  EditorsInv'
  <2>1. list[document.pins[p].chart] \in Nat
    BY <1>1, <1>6 DEF UpdateBadge, Pins, Pin, Asset
  <2>2. pinPlacementRevision(document.pins, p, list[document.pins[p].chart]) \in Pins
    BY <1>1, <2>1, PinnedPins
  <2> QED BY <1>1, <1>6, <2>2, updateDocumentInv DEF UpdateBadge
<1>7. ASSUME NEW pins \in PinsOf(JsonRevision), EditJson(pins)
      PROVE  EditorsInv'
  <2>1. pins \in Pins
    BY JsonAssumption, PinsOfPins
  <2> QED BY <1>1, <1>7, <2>1, updateDocumentInv DEF EditJson
<1> QED BY <1>2, <1>3, <1>4, <1>5, <1>6, <1>7 DEF DocumentStep

LEMMA SelectPanelInv ==
    ASSUME EditorsInv, NEW p \in Placement \cup {None}, setSelectedPlacementID(p)
    PROVE  EditorsInv'
<1>1. /\ UNCHANGED <<saves, sent, list, section, selected, draft, document, resolved, loads>>
      /\ section = "dashboard" /\ placement' = p /\ DrawerEffects({})
  BY DEF setSelectedPlacementID, dashboardStep, editorVars
<1>2. /\ document' \in Document /\ placement' \in Placement \cup {None}
      /\ resolved' \in Pins /\ list' \in [Asset -> Nat] /\ section' # "charts"
  BY <1>1 DEF EditorsInv, EditorsTypeOK
<1>3. /\ drawer' \in Drawer /\ save' \in PendingSave \cup {None}
      /\ DrawerOpen' /\ SaveOfChart'
  BY <1>1, <1>2, DrawerEffectsInv
<1>4. RevisionsFound' /\ ListBehind'
  BY <1>1, RevisionsSame, ListSame
<1>5. EditorsTypeOK'
  BY <1>1, <1>2, <1>3 DEF EditorsInv, EditorsTypeOK
<1> QED BY <1>3, <1>4, <1>5 DEF EditorsInv

(***************************************************************************)
(* A step of the server, or one that only sends, leaves the dashboard      *)
(* section alone.                                                          *)
(***************************************************************************)
LEMMA DashboardSame ==
    ASSUME EditorsInv, saves' \in Seq(Save), sent' \subseteq Save, RevisionsFound',
           ListBehind', selected' \in Pin \cup {NoPin}, draft' \in Pin \cup {NoPin},
           UNCHANGED <<list, section, document, placement, resolved, loads, drawer, save>>
    PROVE  EditorsInv'
<1>1. EditorsTypeOK'
  BY DEF EditorsInv, EditorsTypeOK
<1>2. DrawerOpen' /\ SaveOfChart'
  BY DEF EditorsInv, DrawerOpen, SaveOfChart
<1> QED BY <1>1, <1>2 DEF EditorsInv

LEMMA CommittedInv ==
    ASSUME EditorsInv, NEW s \in Save, saves' = Append(saves, s) \/ UNCHANGED saves,
           UNCHANGED list
    PROVE  saves' \in Seq(Save) /\ RevisionsFound' /\ ListBehind'
BY RevisionsAppended, RevisionsSame, ListSame

LEMMA HandleInv ==
    ASSUME EditorsInv, NEW s \in sent, Handle(s), UNCHANGED dashboardVars
    PROVE  EditorsInv'
<1>1. /\ UNCHANGED <<list, section, selected, draft, document, placement, resolved,
                     loads, drawer, save>>
      /\ s \in Save /\ sent' \subseteq Save
      /\ saves' = Append(saves, s) \/ UNCHANGED saves
  BY DEF Handle, Committed, editorVars, dashboardVars, panelVars, EditorsInv, EditorsTypeOK
<1>2. saves' \in Seq(Save) /\ RevisionsFound' /\ ListBehind'
  BY <1>1, CommittedInv
<1>3. selected' \in Pin \cup {NoPin} /\ draft' \in Pin \cup {NoPin}
  BY <1>1 DEF EditorsInv, EditorsTypeOK
<1> QED BY <1>1, <1>2, <1>3, DashboardSame

LEMMA OthersSaveInv ==
    ASSUME EditorsInv, OthersSave
    PROVE  EditorsInv'
<1>1. PICK s \in Save : OtherSaves(s)
  <2>1. \A a : Latest(a) \in Nat
    BY LatestNat DEF EditorsInv, EditorsTypeOK
  <2>2. \A c \in Chart : ChartSave(c, Latest(c), Latest(c), None) \in Save
    BY <2>1, NewSaves
  <2>3. \A pins \in PinsOf(1 .. MaxSaves) :
          BoardSave(Latest(Board), pins, Latest(Board), None) \in Save
    <3>1. PinsOf(1 .. MaxSaves) \subseteq Pins
      BY PinsOfPins, EditorAssumption
    <3> QED BY <2>1, <3>1, NewSaves
  <2> QED BY <2>2, <2>3 DEF OthersSave
<1>2. /\ UNCHANGED <<sent, list, section, selected, draft, document, placement, resolved,
                     loads, drawer, save>>
      /\ saves' = Append(saves, s)
  BY <1>1 DEF OthersSave, OtherSaves, editorVars, dashboardVars, panelVars
<1>3. saves' \in Seq(Save) /\ RevisionsFound' /\ ListBehind'
  BY <1>2, CommittedInv
<1>4. /\ selected' \in Pin \cup {NoPin} /\ draft' \in Pin \cup {NoPin}
      /\ sent' \subseteq Save
  BY <1>2 DEF EditorsInv, EditorsTypeOK
<1> QED BY <1>2, <1>3, <1>4, DashboardSame

LEMMA ChartSectionInv ==
    ASSUME EditorsInv, ChartSection, UNCHANGED dashboardVars
    PROVE  EditorsInv'
<1>1. UNCHANGED <<saves, list, section, document, placement, resolved, loads, drawer, save>>
  BY DEF ChartSection, Select, NewChart, SaveChart, dashboardVars, panelVars, serverVars
<1>2. saves' \in Seq(Save) /\ RevisionsFound' /\ ListBehind'
  BY <1>1, RevisionsSame, ListSame
<1>3. /\ selected \in Pin \cup {NoPin} /\ draft \in Pin \cup {NoPin}
      /\ list \in [Asset -> Nat] /\ sent \subseteq Save
  BY DEF EditorsInv, EditorsTypeOK
<1>4. ASSUME NEW c \in Chart, Select(c)
      PROVE  /\ selected' \in Pin \cup {NoPin} /\ draft' \in Pin \cup {NoPin}
             /\ sent' \subseteq Save
  BY <1>3, <1>4 DEF Select, Pin, Asset, serverVars
<1>5. ASSUME NewChart
      PROVE  /\ selected' \in Pin \cup {NoPin} /\ draft' \in Pin \cup {NoPin}
             /\ sent' \subseteq Save
  BY <1>3, <1>5 DEF NewChart, serverVars
<1>6. ASSUME SaveChart
      PROVE  /\ selected' \in Pin \cup {NoPin} /\ draft' \in Pin \cup {NoPin}
             /\ sent' \subseteq Save
  <2>1. \A c \in Chart : ChartSave(c, 0, 0, "editor") \in Save
    BY NewSaves
  <2>2. selected # NoPin => selected.chart \in Chart /\ selected.revision \in Nat
    BY <1>3 DEF Pin
  <2>3. selected # NoPin =>
          ChartSave(selected.chart, selected.revision, draft.revision, "editor") \in Save
    BY <2>2, NewSaves
  <2>4. sent' \subseteq Save
    BY <1>3, <1>6, <2>1, <2>3 DEF SaveChart
  <2> QED BY <1>3, <1>6, <2>4 DEF SaveChart, editorVars
<1>7. /\ selected' \in Pin \cup {NoPin} /\ draft' \in Pin \cup {NoPin}
      /\ sent' \subseteq Save
  BY <1>4, <1>5, <1>6 DEF ChartSection
<1> QED BY <1>1, <1>2, <1>7, DashboardSame

LEMMA SaveDrawerInv ==
    ASSUME EditorsInv, SaveDrawer
    PROVE  EditorsInv'
<1>1. /\ UNCHANGED <<saves, sent, list, section, selected, draft, document, placement,
                     resolved, loads, drawer>>
      /\ drawer.draft # NoPin /\ drawer.head # NoPin
  BY DEF SaveDrawer, dashboardStep, panelVars, editorVars
<1>2. /\ drawer \in Drawer /\ document \in Document
      /\ placement \in Placement \cup {None}
  BY DEF EditorsInv, EditorsTypeOK
<1>3. placement \in Placement
  BY <1>1, <1>2, SelectedPanel DEF EditorsInv, DrawerOpen
<1>4. drawer.head.chart \in Chart /\ drawer.head.revision \in Nat
  BY <1>1, <1>2 DEF Drawer, Pin
<1>. DEFINE s == ChartSave(drawer.head.chart, drawer.head.revision,
                    IF drawer.draft.chart = drawer.head.chart
                    THEN drawer.draft.revision ELSE 0, "drawer")
<1>5. s \in Save /\ s.asset \in Chart
  BY <1>4, NewSaves DEF ChartSave
<1>6. save' = [save |-> s, placement |-> placement, document |-> document,
               drawer |-> TRUE, page |-> TRUE, outcome |-> 0]
  BY DEF SaveDrawer
<1> HIDE DEF s
<1>7. save' \in PendingSave
  BY <1>2, <1>3, <1>5, <1>6 DEF PendingSave
<1>8. SaveOfChart'
  BY <1>5, <1>6 DEF SaveOfChart
<1>9. RevisionsFound' /\ ListBehind'
  BY <1>1, RevisionsSame, ListSame
<1>10. EditorsTypeOK'
  BY <1>1, <1>7 DEF EditorsInv, EditorsTypeOK
<1>11. DrawerOpen'
  BY <1>1 DEF EditorsInv, DrawerOpen
<1> QED BY <1>8, <1>9, <1>10, <1>11 DEF EditorsInv

LEMMA HandleSaveInv ==
    ASSUME EditorsInv, HandleSave
    PROVE  EditorsInv'
<1>1. /\ UNCHANGED <<sent, list, section, selected, draft, document, placement,
                     resolved, loads, drawer>>
      /\ save # None
      /\ saves' = Append(saves, save.save) \/ UNCHANGED saves
      /\ \E outcome \in {Refused, save.save.base + 1} :
           save' = [save EXCEPT !.outcome = outcome]
  BY DEF HandleSave, panelVars, editorVars
<1>2. save \in PendingSave /\ save.save \in Save /\ save.save.asset \in Chart
  BY <1>1 DEF EditorsInv, EditorsTypeOK, SaveOfChart, PendingSave
<1>3. save.save.base + 1 \in Nat
  BY <1>2, SaveFields
<1>4. save' \in PendingSave /\ save'.save = save.save
  BY <1>1, <1>2, <1>3 DEF PendingSave
<1>5. saves' \in Seq(Save) /\ RevisionsFound' /\ ListBehind'
  BY <1>1, <1>2, CommittedInv
<1>6. EditorsTypeOK'
  BY <1>1, <1>4, <1>5 DEF EditorsInv, EditorsTypeOK
<1>7. DrawerOpen'
  BY <1>1 DEF EditorsInv, DrawerOpen
<1>8. SaveOfChart'
  BY <1>2, <1>4 DEF SaveOfChart
<1> QED BY <1>5, <1>6, <1>7, <1>8 DEF EditorsInv

LEMMA pinSavedChartTypes ==
    ASSUME EditorsInv, save # None, save.outcome # Refused, pinSavedChart
    PROVE  /\ document' \in Document /\ loads' \subseteq Load
           /\ resolved' \in Pins /\ resolved'[save.placement] \in Pin
<1>1. save \in PendingSave /\ save.save.asset \in Chart
  BY DEF EditorsInv, EditorsTypeOK, SaveOfChart
<1>2. /\ save.placement \in Placement /\ save.document \in Document
      /\ save.outcome \in Nat
  BY <1>1 DEF PendingSave
<1>3. save.document.pins \in Pins
  BY <1>2 DEF Document
<1>. DEFINE pins == pinPlacementRevision(save.document.pins, save.placement, save.outcome)
            doc == [save.document EXCEPT !.pins = pins,
                      !.revived = @ \/ save.document.from # list[Board]]
<1>4. pins \in Pins
  BY <1>2, <1>3, PinnedPins
<1>5. doc \in Document
  <2> HIDE DEF pins
  <2>1. (save.document.revived \/ save.document.from # list[Board]) \in BOOLEAN
    BY <1>2 DEF Document
  <2> QED BY <1>2, <1>4, <2>1 DEF Document
<1>6. setDocument(doc)
  BY DEF pinSavedChart
<1>7. document' \in Document /\ loads' \subseteq Load
  BY <1>5, <1>6, SetDocument
<1>8. resolved' = [resolved EXCEPT ![save.placement] =
                     [chart |-> save.save.asset, revision |-> save.outcome]]
  BY DEF pinSavedChart
<1>9. resolved' \in Pins /\ resolved'[save.placement] \in Pin
  BY <1>1, <1>2, <1>8 DEF EditorsInv, EditorsTypeOK, Pins, Pin
<1> QED BY <1>7, <1>9

LEMMA SaveAnsweredInv ==
    ASSUME EditorsInv, SaveAnswered
    PROVE  EditorsInv'
<1>1. /\ UNCHANGED <<saves, sent, list, section, selected, draft, placement>>
      /\ save # None /\ save' = None
  BY DEF SaveAnswered, editorVars, serverVars
<1>2. /\ document' \in Document /\ loads' \subseteq Load /\ resolved' \in Pins
      /\ drawer' \in Drawer
      /\ drawer'.draft # NoPin => Selected(placement', document') # None
  <2>1. CASE save.outcome = Refused \/ ~save.page
    <3>1. UNCHANGED <<document, loads, resolved, drawer>>
      BY <2>1 DEF SaveAnswered
    <3> QED BY <1>1, <3>1 DEF EditorsInv, EditorsTypeOK, DrawerOpen
  <2>2. CASE ~(save.outcome = Refused \/ ~save.page)
    <3>1. pinSavedChart
      BY <2>2 DEF SaveAnswered
    <3>2. /\ document' \in Document /\ loads' \subseteq Load
          /\ resolved' \in Pins /\ resolved'[save.placement] \in Pin
      BY <1>1, <2>2, <3>1, pinSavedChartTypes
    <3>3. PICK d : /\ drawer' = Rendered(d, {save.placement})
                   /\ d = drawer \/ d = [drawer EXCEPT !.head = resolved'[save.placement]]
      BY <2>2 DEF SaveAnswered
    <3>4. drawer \in Drawer /\ placement' \in Placement \cup {None}
          /\ list' \in [Asset -> Nat]
      BY <1>1 DEF EditorsInv, EditorsTypeOK
    <3>5. d \in Drawer
      BY <3>2, <3>3, <3>4 DEF Drawer
    <3> QED BY <3>2, <3>3, <3>4, <3>5, RenderedDrawer
  <2> QED BY <2>1, <2>2
<1>3. section' = "charts" => placement' = None /\ drawer'.draft = NoPin
  <2>1. section' = "charts" => placement' = None
    BY <1>1 DEF EditorsInv, DrawerOpen
  <2> QED BY <1>2, <2>1 DEF Selected
<1>4. DrawerOpen' /\ SaveOfChart'
  BY <1>1, <1>2, <1>3 DEF DrawerOpen, SaveOfChart
<1>5. RevisionsFound' /\ ListBehind'
  BY <1>1, RevisionsSame, ListSame
<1>6. EditorsTypeOK'
  BY <1>1, <1>2 DEF EditorsInv, EditorsTypeOK
<1> QED BY <1>4, <1>5, <1>6 DEF EditorsInv

LEMMA EditorsInitInv == EditorsInit => EditorsInv
<1> SUFFICES ASSUME EditorsInit PROVE EditorsInv
  OBVIOUS
<1>1. /\ saves = <<>> /\ sent = {} /\ list = [a \in Asset |-> 0]
      /\ section = "dashboard" /\ selected = NoPin /\ draft = NoPin
  BY DEF EditorsInit, EditorInit
<1>2. /\ document \in Document /\ placement = None /\ loads = {} /\ resolved \in Pins
      /\ drawer = Closed /\ save = None
  BY NoPinsPins DEF EditorsInit, AsCommitted, Document, Pins
<1>3. EditorsTypeOK
  BY <1>1, <1>2 DEF EditorsTypeOK, Closed, Drawer
<1>4. \A a : Latest(a) = 0
  <2>1. \A a : {i \in DOMAIN saves : saves[i].asset = a} = {}
    BY <1>1
  <2> QED BY <2>1, FS_EmptySet DEF Latest
<1>5. RevisionsFound /\ ListBehind
  BY <1>1, <1>4 DEF RevisionsFound, ListBehind
<1>6. DrawerOpen /\ SaveOfChart
  BY <1>1, <1>2 DEF DrawerOpen, SaveOfChart, Closed
<1> QED BY <1>3, <1>5, <1>6 DEF EditorsInv

LEMMA EditorsStepInv == EditorsInv /\ [EditorsNext]_editorsVars => EditorsInv'
<1> SUFFICES ASSUME EditorsInv, [EditorsNext]_editorsVars PROVE EditorsInv'
  OBVIOUS
<1>1. CASE OthersSave
  BY <1>1, OthersSaveInv
<1>2. CASE \E s \in sent : Handle(s) /\ UNCHANGED dashboardVars
  BY <1>2, HandleInv
<1>3. CASE \E a \in Asset : LoadList(a)
  BY <1>3, LoadListInv
<1>4. CASE ToCharts \/ ToDashboard
  BY <1>4, ToChartsInv, ToDashboardInv
<1>5. CASE ChartSection /\ UNCHANGED dashboardVars
  BY <1>5, ChartSectionInv
<1>6. CASE \E l \in loads : ChartLoaded(l)
  BY <1>6, ChartLoadedInv
<1>7. CASE DocumentStep
  BY <1>7, DocumentStepInv
<1>8. CASE \E p \in Placement \cup {None} : setSelectedPlacementID(p)
  BY <1>8, SelectPanelInv
<1>9. CASE SaveDrawer \/ HandleSave \/ SaveAnswered
  BY <1>9, SaveDrawerInv, HandleSaveInv, SaveAnsweredInv
<1>10. CASE UNCHANGED editorsVars
  <2>1. /\ UNCHANGED <<saves, list, section, document, placement, resolved, loads, drawer,
                       save, sent, selected, draft>>
    BY <1>10 DEF editorsVars, serverVars, pageVars, editorVars, dashboardVars, panelVars
  <2>2. saves' \in Seq(Save) /\ RevisionsFound' /\ ListBehind'
    BY <2>1, RevisionsSame, ListSame
  <2>3. /\ selected' \in Pin \cup {NoPin} /\ draft' \in Pin \cup {NoPin}
        /\ sent' \subseteq Save
    BY <2>1 DEF EditorsInv, EditorsTypeOK
  <2> QED BY <2>1, <2>2, <2>3, DashboardSame
<1> QED BY <1>1, <1>2, <1>3, <1>4, <1>5, <1>6, <1>7, <1>8, <1>9, <1>10 DEF EditorsNext

THEOREM EditorsInvariant == EditorsSpec => []EditorsInv
BY EditorsInitInv, EditorsStepInv, PTL DEF EditorsSpec

(***************************************************************************)
(* The page's and the server's state keeps its types.                      *)
(***************************************************************************)
THEOREM EditorsTypes == EditorsSpec => []EditorsTypeOK
<1>1. EditorsInv => EditorsTypeOK
  BY DEF EditorsInv
<1> QED BY <1>1, EditorsInvariant, PTL

-----------------------------------------------------------------------------
(***************************************************************************)
(* No save of the chart editor is blind: what the editor has on screen and *)
(* what it names in If-Match come from one snapshot.                       *)
(***************************************************************************)
OneSnapshot == section = "charts" /\ selected # NoPin => draft.revision = selected.revision

(***************************************************************************)
(* Nor is a dashboard save, unless a chart save has put an older document  *)
(* back.                                                                   *)
(***************************************************************************)
BoardCurrent == section = "dashboard" /\ ~document.revived => document.from = list[Board]

Seen(s) == s.blind \notin {"editor", "board"}

SavesInv ==
    /\ EditorSavesSeen /\ DashboardSavesSeen
    /\ OneSnapshot /\ BoardCurrent
    /\ \A s \in sent : Seen(s)
    /\ save # None => Seen(save.save)

LEMMA SavesStep ==
    ASSUME EditorsInv, [EditorsNext]_editorsVars
    PROVE  \/ UNCHANGED saves
           \/ \E s \in Save :
                /\ saves' = Append(saves, s) /\ Accepted(s) /\ Len(saves) < MaxSaves
                /\ s \in sent \/ s.blind = None \/ (save # None /\ s = save.save)
<1>1. CASE OthersSave
  <2>1. \A c \in Chart : ChartSave(c, Latest(c), Latest(c), None) \in Save
                      /\ ChartSave(c, Latest(c), Latest(c), None).blind = None
    BY LatestNat, NewSaves DEF EditorsInv, EditorsTypeOK, ChartSave
  <2>2. \A pins \in Pins : BoardSave(Latest(Board), pins, Latest(Board), None) \in Save
                       /\ BoardSave(Latest(Board), pins, Latest(Board), None).blind = None
    BY LatestNat, NewSaves DEF EditorsInv, EditorsTypeOK, BoardSave
  <2>3. PinsOf(1 .. MaxSaves) \subseteq Pins
    BY PinsOfPins, EditorAssumption
  <2> QED BY <1>1, <2>1, <2>2, <2>3 DEF OthersSave, OtherSaves
<1>2. CASE \E s \in sent : Handle(s) /\ UNCHANGED dashboardVars
  BY <1>2 DEF Handle, Committed, EditorsInv, EditorsTypeOK
<1>3. CASE HandleSave
  BY <1>3 DEF HandleSave, EditorsInv, EditorsTypeOK, PendingSave
<1>4. CASE \/ \E a \in Asset : LoadList(a)
           \/ ToCharts \/ ToDashboard
           \/ ChartSection /\ UNCHANGED dashboardVars
           \/ \E l \in loads : ChartLoaded(l)
  BY <1>4 DEF LoadList, ToCharts, ToDashboard, ChartSection, Select, NewChart, SaveChart,
              ChartLoaded, dashboardStep, serverVars
<1>5. CASE \/ DocumentStep
           \/ \E p \in Placement \cup {None} : setSelectedPlacementID(p)
           \/ SaveDrawer \/ SaveAnswered
  BY <1>5 DEF DocumentStep, Edit, EditJson, removeSelected, saveDashboard, add, UpdateBadge,
              updateDocument, dashboardStep, setSelectedPlacementID, SaveDrawer,
              SaveAnswered, serverVars
<1>6. CASE UNCHANGED editorsVars
  BY <1>6 DEF editorsVars, serverVars
<1> QED BY <1>1, <1>2, <1>3, <1>4, <1>5, <1>6 DEF EditorsNext

LEMMA SentStep ==
    ASSUME EditorsInv, OneSnapshot, BoardCurrent, [EditorsNext]_editorsVars
    PROVE  \A s \in sent' : s \in sent \/ Seen(s)
<1>1. CASE ChartSection /\ UNCHANGED dashboardVars
  <2>1. CASE SaveChart
    <3>1. PICK s \in IF selected = NoPin
                    THEN {ChartSave(c, 0, 0, "editor") : c \in Chart}
                    ELSE {ChartSave(selected.chart, selected.revision, draft.revision,
                                    "editor")} : sent' = sent \cup {s}
      BY <2>1 DEF SaveChart
    <3>2. selected # NoPin => selected.revision \in Nat /\ draft.revision = selected.revision
      BY <2>1 DEF SaveChart, EditorsInv, EditorsTypeOK, Pin, OneSnapshot
    <3>3. s.blind = None
      BY <3>1, <3>2 DEF ChartSave
    <3> QED BY <3>1, <3>3, EditorAssumption DEF Seen
  <2> QED BY <1>1, <2>1 DEF ChartSection, Select, NewChart, serverVars
<1>2. CASE saveDashboard
  <2>1. list[Board] \in Nat /\ (document.revived \/ document.from = list[Board])
    BY <1>2 DEF saveDashboard, dashboardStep, EditorsInv, EditorsTypeOK, Asset, BoardCurrent
  <2>2. BoardSave(list[Board], document.pins, document.from,
                  IF document.revived THEN "revived" ELSE "board").blind \in {None, "revived"}
    BY <2>1 DEF BoardSave
  <2> QED BY <1>2, <2>2, EditorAssumption DEF saveDashboard, Seen
<1>3. CASE \/ OthersSave
           \/ \E s \in sent : Handle(s) /\ UNCHANGED dashboardVars
           \/ \E a \in Asset : LoadList(a)
           \/ ToCharts \/ ToDashboard
           \/ \E l \in loads : ChartLoaded(l)
           \/ \E p \in Placement \cup {None} : setSelectedPlacementID(p)
           \/ SaveDrawer \/ HandleSave \/ SaveAnswered
           \/ UNCHANGED editorsVars
  BY <1>3 DEF OthersSave, OtherSaves, Handle, LoadList, ToCharts, ToDashboard, ChartLoaded,
              setSelectedPlacementID, SaveDrawer, HandleSave, SaveAnswered, serverVars,
              editorsVars
<1>4. CASE DocumentStep /\ ~saveDashboard
  BY <1>4 DEF DocumentStep, Edit, EditJson, removeSelected, add, UpdateBadge, updateDocument
<1> QED BY <1>1, <1>2, <1>3, <1>4 DEF EditorsNext

LEMMA SaveStep ==
    ASSUME EditorsInv, [EditorsNext]_editorsVars
    PROVE  \/ save' = None
           \/ save # None /\ save'.save = save.save
           \/ Seen(save'.save)
<1>1. save \in PendingSave \cup {None}
  BY DEF EditorsInv, EditorsTypeOK
<1>2. ASSUME NEW reloaded, DrawerEffects(reloaded)
      PROVE  save' = save \/ (save # None /\ save' = [save EXCEPT !.drawer = FALSE])
  BY <1>2 DEF DrawerEffects
<1>3. CASE SaveDrawer
  <2>1. \A c, base, seen : ChartSave(c, base, seen, "drawer").blind \in {None, "drawer"}
    BY DEF ChartSave
  <2>2. \E c, base, seen : save'.save = ChartSave(c, base, seen, "drawer")
    BY <1>3 DEF SaveDrawer
  <2>3. save'.save.blind \in {None, "drawer"}
    BY <2>1, <2>2
  <2>4. None \notin {"editor", "board"}
    BY EditorAssumption
  <2>5. Seen(save'.save)
    BY <2>3, <2>4 DEF Seen
  <2> QED BY <2>5
<1>4. CASE HandleSave
  <2>1. save # None /\ \E outcome : save' = [save EXCEPT !.outcome = outcome]
    BY <1>4 DEF HandleSave
  <2> QED BY <1>1, <2>1 DEF PendingSave
<1>5. CASE ToCharts
  <2>1. save' = None \/ (save # None /\
           save' = [save EXCEPT !.drawer = FALSE, !.page = FALSE])
    BY <1>5 DEF ToCharts
  <2> QED BY <1>1, <2>1 DEF PendingSave
<1>6. CASE \/ OthersSave
           \/ \E s \in sent : Handle(s) /\ UNCHANGED dashboardVars
           \/ ToDashboard \/ saveDashboard
           \/ ChartSection /\ UNCHANGED dashboardVars
           \/ UNCHANGED editorsVars
  BY <1>6 DEF OthersSave, ToDashboard, saveDashboard, dashboardVars, editorsVars, pageVars
<1>7. CASE SaveAnswered
  BY <1>7 DEF SaveAnswered
<1>8. CASE \/ \E a \in Asset : LoadList(a)
           \/ \E l \in loads : ChartLoaded(l)
           \/ DocumentStep /\ ~saveDashboard
           \/ \E p \in Placement \cup {None} : setSelectedPlacementID(p)
  <2>1. \E reloaded : DrawerEffects(reloaded)
    BY <1>8 DEF LoadList, ChartLoaded, DocumentStep, Edit, EditJson, removeSelected, add,
                UpdateBadge, updateDocument, setSelectedPlacementID
  <2>2. save' = save \/ (save # None /\ save' = [save EXCEPT !.drawer = FALSE])
    BY <1>2, <2>1
  <2> QED BY <1>1, <2>2 DEF PendingSave
<1> QED BY <1>3, <1>4, <1>5, <1>6, <1>7, <1>8 DEF EditorsNext

LEMMA OneSnapshotStep ==
    ASSUME EditorsInv, OneSnapshot, [EditorsNext]_editorsVars
    PROVE  OneSnapshot'
<1>1. CASE UNCHANGED <<section, selected, draft>>
  BY <1>1 DEF OneSnapshot
<1>2. CASE ToCharts \/ ToDashboard
  BY <1>2 DEF ToCharts, ToDashboard, OneSnapshot
<1>3. CASE ChartSection
  BY <1>3 DEF ChartSection, Select, NewChart, SaveChart, editorVars, OneSnapshot
<1>4. CASE \/ OthersSave
           \/ \E s \in sent : Handle(s) /\ UNCHANGED dashboardVars
           \/ \E a \in Asset : LoadList(a)
           \/ \E l \in loads : ChartLoaded(l)
           \/ DocumentStep
           \/ \E p \in Placement \cup {None} : setSelectedPlacementID(p)
           \/ SaveDrawer \/ HandleSave \/ SaveAnswered
           \/ UNCHANGED editorsVars
  <2>1. UNCHANGED <<section, selected, draft>>
    BY <1>4 DEF OthersSave, OtherSaves, Handle, LoadList, ChartLoaded, DocumentStep, Edit, EditJson,
                removeSelected, saveDashboard, add, UpdateBadge, updateDocument,
                dashboardStep, setSelectedPlacementID, SaveDrawer, HandleSave, SaveAnswered,
                editorVars, editorsVars, pageVars
  <2> QED BY <1>1, <2>1
<1> QED BY <1>2, <1>3, <1>4 DEF EditorsNext

LEMMA BoardCurrentStep ==
    ASSUME EditorsInv, BoardCurrent, [EditorsNext]_editorsVars
    PROVE  BoardCurrent'
<1>1. /\ document \in Document /\ saves \in Seq(Save) /\ RevisionsFound
      /\ ListBehind /\ list \in [Asset -> Nat] /\ save \in PendingSave \cup {None}
  BY DEF EditorsInv, EditorsTypeOK
<1>2. \A a \in Asset : list[a] \in 0 .. Latest(a)
  BY <1>1, LatestNat DEF ListBehind
<1>3. CASE UNCHANGED <<section, document, list>>
  BY <1>3 DEF BoardCurrent
<1>4. ASSUME NEW a \in Asset, LoadList(a)
      PROVE  BoardCurrent'
  <2>1. CASE UNCHANGED <<document>> /\ UNCHANGED section /\ list'[Board] = list[Board]
    BY <2>1 DEF BoardCurrent
  <2>2. CASE section' # "dashboard"
    BY <2>2 DEF BoardCurrent
  <2>3. CASE document' = AsCommitted(list'[Board])
    <3>1. PICK n \in list[a] + 1 .. Latest(a) : list' = [list EXCEPT ![a] = n]
      BY <1>4 DEF LoadList
    <3>2. list'[Board] \in 0 .. Latest(Board)
      BY <1>1, <1>2, <3>1 DEF Asset
    <3> QED BY <1>1, <2>3, <3>2, CommittedDocument DEF BoardCurrent
  <2> QED BY <1>4, <2>1, <2>2, <2>3 DEF LoadList, dashboardEffect, setDocument
<1>5. CASE ToCharts
  BY <1>5 DEF ToCharts, BoardCurrent
<1>6. CASE ToDashboard
  <2>1. document' = AsCommitted(list[Board]) /\ list' = list
    BY <1>6 DEF ToDashboard, setDocument
  <2>2. AsCommitted(list[Board]).from = list[Board]
    BY <1>1, <1>2, CommittedDocument DEF Asset
  <2> QED BY <2>1, <2>2 DEF BoardCurrent
<1>7. CASE DocumentStep
  <2>1. UNCHANGED <<section, list>> /\ (UNCHANGED document \/
          \E pins : document' = [document EXCEPT !.pins = pins])
    BY <1>7 DEF DocumentStep, Edit, EditJson, removeSelected, saveDashboard, add, UpdateBadge,
                updateDocument, setDocument, dashboardStep, dashboardVars
  <2>2. document'.from = document.from /\ document'.revived = document.revived
    BY <1>1, <2>1 DEF Document
  <2> QED BY <2>1, <2>2 DEF BoardCurrent
<1>8. CASE SaveAnswered
  <2>1. UNCHANGED <<section, list>>
    BY <1>8 DEF SaveAnswered
  <2>2. CASE UNCHANGED document
    BY <2>1, <2>2 DEF BoardCurrent
  <2>3. CASE pinSavedChart
    <3>1. save.document \in Document
      BY <1>1, <1>8 DEF SaveAnswered, PendingSave
    <3>2. document'.from = save.document.from
          /\ document'.revived = (save.document.revived \/ save.document.from # list[Board])
      BY <2>3, <3>1 DEF pinSavedChart, setDocument, Document
    <3> QED BY <2>1, <3>2 DEF BoardCurrent
  <2> QED BY <1>8, <2>2, <2>3 DEF SaveAnswered
<1>9. CASE \/ OthersSave
           \/ \E s \in sent : Handle(s) /\ UNCHANGED dashboardVars
           \/ ChartSection /\ UNCHANGED dashboardVars
           \/ \E l \in loads : ChartLoaded(l)
           \/ \E p \in Placement \cup {None} : setSelectedPlacementID(p)
           \/ SaveDrawer \/ HandleSave
           \/ UNCHANGED editorsVars
  <2>1. UNCHANGED <<section, document, list>>
    BY <1>9 DEF OthersSave, OtherSaves, Handle, ChartSection, Select, NewChart, SaveChart,
                ChartLoaded, dashboardStep, setSelectedPlacementID, SaveDrawer, HandleSave,
                dashboardVars, editorsVars, pageVars
  <2> QED BY <1>3, <2>1
<1> QED BY <1>4, <1>5, <1>6, <1>7, <1>8, <1>9 DEF EditorsNext

LEMMA SavesInvStep ==
    ASSUME EditorsInv, SavesInv, [EditorsNext]_editorsVars
    PROVE  SavesInv'
<1>1. OneSnapshot' /\ BoardCurrent'
  BY OneSnapshotStep, BoardCurrentStep DEF SavesInv
<1>2. \A s \in sent' : Seen(s)
  BY SentStep DEF SavesInv
<1>3. save' # None => Seen(save'.save)
  BY SaveStep DEF SavesInv, Seen
<1>4. EditorSavesSeen' /\ DashboardSavesSeen'
  <2>1. saves \in Seq(Save) /\ \A i \in DOMAIN saves : Seen(saves[i])
    BY DEF EditorsInv, EditorsTypeOK, SavesInv, EditorSavesSeen, DashboardSavesSeen, Seen
  <2>2. ASSUME NEW s \in Save, saves' = Append(saves, s),
               s \in sent \/ s.blind = None \/ (save # None /\ s = save.save)
        PROVE  \A i \in DOMAIN saves' : Seen(saves'[i])
    <3>1. Seen(s)
      BY <2>2, EditorAssumption DEF SavesInv, Seen
    <3> QED BY <2>1, <2>2, <3>1, Appending
  <2>3. \A i \in DOMAIN saves' : Seen(saves'[i])
    BY <2>1, <2>2, SavesStep
  <2> QED BY <2>3 DEF EditorSavesSeen, DashboardSavesSeen, Seen
<1> QED BY <1>1, <1>2, <1>3, <1>4 DEF SavesInv

LEMMA SavesInvInit == EditorsInit => SavesInv
<1> SUFFICES ASSUME EditorsInit PROVE SavesInv
  OBVIOUS
<1>1. /\ saves = <<>> /\ sent = {} /\ selected = NoPin /\ save = None
      /\ document.from = 0 /\ list[Board] = 0
  BY DEF EditorsInit, EditorInit, AsCommitted, Asset
<1> QED BY <1>1 DEF SavesInv, EditorSavesSeen, DashboardSavesSeen, OneSnapshot, BoardCurrent

LEMMA SavesInvariant == EditorsSpec => []SavesInv
<1>1. EditorsInv /\ SavesInv /\ [EditorsNext]_editorsVars => SavesInv'
  BY SavesInvStep
<1> QED BY <1>1, SavesInvInit, EditorsInvariant, PTL DEF EditorsSpec

(***************************************************************************)
(* The chart editor never replaces a revision its user has not opened.     *)
(***************************************************************************)
THEOREM EditorSaves == EditorsSpec => []EditorSavesSeen
<1>1. SavesInv => EditorSavesSeen
  BY DEF SavesInv
<1> QED BY <1>1, SavesInvariant, PTL

(***************************************************************************)
(* A dashboard save never replaces a revision its document does not come   *)
(* from, unless a chart save had put an older document back.               *)
(***************************************************************************)
THEOREM DashboardSaves == EditorsSpec => []DashboardSavesSeen
<1>1. SavesInv => DashboardSavesSeen
  BY DEF SavesInv
<1> QED BY <1>1, SavesInvariant, PTL

-----------------------------------------------------------------------------
(***************************************************************************)
(* What a save names in If-Match came from a list, from the snapshot of a  *)
(* list or from the answer to a save; and what the server has, it keeps.   *)
(***************************************************************************)
HeadCommitted(pin) == pin # NoPin => pin.revision \in 1 .. Latest(pin.chart)

SentCommitted == \A s \in sent : s.base <= Latest(s.asset)

SaveCommitted ==
    save # None => \A a \in Asset : a = save.save.asset =>
        save.save.base \in 1 .. Latest(a) /\ save.outcome <= Latest(a)

HeadsCommitted == \A pin \in Pin : pin \in {selected, drawer.head} => HeadCommitted(pin)

BasesInv == SentCommitted /\ SaveCommitted /\ HeadsCommitted

LEMMA LatestGrows ==
    ASSUME EditorsInv, [EditorsNext]_editorsVars, NEW a
    PROVE  Latest(a) \in Nat /\ Latest(a)' \in Nat /\ Latest(a) <= Latest(a)'
<1>1. saves \in Seq(Save)
  BY DEF EditorsInv, EditorsTypeOK
<1>2. Latest(a) \in Nat
  BY <1>1, LatestNat
<1>3. CASE UNCHANGED saves
  BY <1>2, <1>3 DEF Latest
<1>4. ASSUME NEW s \in Save, saves' = Append(saves, s)
      PROVE  Latest(a)' \in {Latest(a), Latest(a) + 1}
  BY <1>1, <1>4, UpToAppended
<1> QED BY <1>2, <1>3, <1>4, SavesStep

LEMMA HeadRendered ==
    ASSUME EditorsInv', \A a \in Asset : Latest(a)' \in Nat, NEW d \in Drawer,
           HeadCommitted(d.head)', NEW reloaded, NEW head, head = Rendered(d, reloaded).head
    PROVE  HeadCommitted(head)'
<1>. DEFINE q == Selected(placement', document')
<1>1. CASE q = None
  BY <1>1 DEF Rendered, Closed, HeadCommitted
<1>2. CASE q # None
  <2>1. PICK chart : chart = document'.pins[q].chart
    OBVIOUS
  <2>2. q \in Placement /\ document'.pins[q] \in Pin
    BY <1>2, SelectedPanel DEF EditorsInv, EditorsTypeOK
  <2>3. chart \in Asset
    BY <2>1, <2>2 DEF Pin, Asset
  <2>4. list'[chart] \in Nat /\ list'[chart] <= Latest(chart)' /\ Latest(chart)' \in Nat
    BY <2>3 DEF EditorsInv, EditorsTypeOK, ListBehind
  <2>5. \/ head = d.head \/ head = NoPin
        \/ list'[chart] # 0 /\ head = [chart |-> chart, revision |-> list'[chart]]
    BY <1>2, <2>1 DEF Rendered
  <2> QED BY <2>4, <2>5 DEF HeadCommitted
<1> QED BY <1>1, <1>2

LEMMA HeadKept ==
    ASSUME EditorsInv, [EditorsNext]_editorsVars, NEW pin \in Pin \cup {NoPin},
           HeadCommitted(pin)
    PROVE  HeadCommitted(pin)'
<1>1. pin.revision \in Nat /\ Latest(pin.chart) <= Latest(pin.chart)'
      /\ Latest(pin.chart) \in Nat /\ Latest(pin.chart)' \in Nat
  BY LatestGrows DEF Pin, NoPin
<1> QED BY <1>1 DEF HeadCommitted

LEMMA SaveCommittedStep ==
    ASSUME EditorsInv, BasesInv, [EditorsNext]_editorsVars
    PROVE  SaveCommitted'
<1>1. save \in PendingSave \cup {None}
  BY DEF EditorsInv, EditorsTypeOK
<1>2. ASSUME save # None, save'.save = save.save, save'.outcome = save.outcome
      PROVE  SaveCommitted'
  <2> SUFFICES ASSUME NEW a \in Asset, a = save.save.asset
               PROVE  save.save.base \in 1 .. Latest(a)' /\ save.outcome <= Latest(a)'
    BY <1>2 DEF SaveCommitted
  <2>1. Latest(a) \in Nat /\ Latest(a)' \in Nat /\ Latest(a) <= Latest(a)'
    BY LatestGrows
  <2>2. save.outcome \in Int /\ save.save.base \in Nat
    BY <1>1, <1>2, SaveFields DEF PendingSave, Refused
  <2>3. save.save.base \in 1 .. Latest(a) /\ save.outcome <= Latest(a)
    BY <1>2 DEF BasesInv, SaveCommitted
  <2> QED BY <2>1, <2>2, <2>3
<1>3. CASE SaveDrawer
  <2>1. drawer.head \in Pin /\ HeadCommitted(drawer.head)
    BY <1>3 DEF SaveDrawer, EditorsInv, EditorsTypeOK, Drawer, BasesInv, HeadsCommitted
  <2>2. /\ save'.save.asset = drawer.head.chart /\ save'.save.base = drawer.head.revision
        /\ save'.outcome = 0 /\ UNCHANGED saves
    BY <1>3 DEF SaveDrawer, ChartSave, dashboardStep
  <2>3. drawer.head.revision \in 1 .. Latest(drawer.head.chart)
    BY <1>3, <2>1 DEF SaveDrawer, HeadCommitted
  <2>4. \A a : Latest(a)' = Latest(a) /\ Latest(a) \in Nat
    BY <2>2, LatestGrows DEF Latest
  <2> QED BY <2>2, <2>3, <2>4 DEF SaveCommitted
<1>4. CASE HandleSave
  <2>1. save # None /\ save \in PendingSave /\ save.save \in Save
    BY <1>1, <1>4 DEF HandleSave, PendingSave
  <2> SUFFICES ASSUME NEW a \in Asset, a = save'.save.asset
               PROVE  save'.save.base \in 1 .. Latest(a)' /\ save'.outcome <= Latest(a)'
    BY DEF SaveCommitted
  <2>2. Latest(a) \in Nat /\ Latest(a)' \in Nat /\ Latest(a) <= Latest(a)'
    BY LatestGrows
  <2>3. save'.save = save.save /\ a = save.save.asset /\ save.save.base \in 1 .. Latest(a)
    BY <1>4, <2>1 DEF HandleSave, PendingSave, BasesInv, SaveCommitted
  <2>4. CASE save' = [save EXCEPT !.outcome = Refused]
    BY <2>1, <2>2, <2>3, <2>4 DEF PendingSave, Refused
  <2>5. CASE /\ saves' = Append(saves, save.save) /\ Accepted(save.save)
             /\ save' = [save EXCEPT !.outcome = save.save.base + 1]
    <3>1. Latest(a)' = Latest(a) + 1
      BY <2>1, <2>3, <2>5, UpToAppended DEF EditorsInv, EditorsTypeOK
    <3>2. save'.outcome = Latest(a) + 1
      BY <2>1, <2>3, <2>5 DEF PendingSave, Accepted
    <3> QED BY <2>2, <2>3, <3>1, <3>2
  <2> QED BY <1>4, <2>4, <2>5 DEF HandleSave
<1>5. CASE SaveAnswered
  BY <1>5 DEF SaveAnswered, SaveCommitted
<1>6. CASE ToCharts
  <2>1. save' = None \/ (save # None /\
           save' = [save EXCEPT !.drawer = FALSE, !.page = FALSE])
    BY <1>6 DEF ToCharts
  <2> QED BY <1>1, <1>2, <2>1 DEF PendingSave, SaveCommitted
<1>7. CASE UNCHANGED save
  BY <1>2, <1>7 DEF SaveCommitted
<1>8. ASSUME NEW reloaded, DrawerEffects(reloaded)
      PROVE  SaveCommitted'
  <2>1. save' = save \/ (save # None /\ save' = [save EXCEPT !.drawer = FALSE])
    BY <1>8 DEF DrawerEffects
  <2> QED BY <1>1, <1>2, <1>7, <2>1 DEF PendingSave
<1>9. \/ UNCHANGED save \/ \E reloaded : DrawerEffects(reloaded)
      \/ SaveDrawer \/ HandleSave \/ SaveAnswered \/ ToCharts
  BY DEF EditorsNext, OthersSave, LoadList, ToDashboard, ChartLoaded, DocumentStep, Edit, EditJson,
     removeSelected, saveDashboard, add, UpdateBadge, updateDocument,
     setSelectedPlacementID, dashboardVars, editorsVars, pageVars
<1> QED BY <1>3, <1>4, <1>5, <1>6, <1>7, <1>8, <1>9

LEMMA HeadsCommittedStep ==
    ASSUME EditorsInv, EditorsInv', BasesInv, [EditorsNext]_editorsVars
    PROVE  HeadsCommitted'
<1>1. /\ selected \in Pin \cup {NoPin} /\ drawer \in Drawer /\ list \in [Asset -> Nat]
      /\ ListBehind /\ save \in PendingSave \cup {None} /\ resolved' \in Pins
  BY DEF EditorsInv, EditorsTypeOK
<1>2. \A a \in Asset : /\ Latest(a) \in Nat /\ Latest(a)' \in Nat
                        /\ Latest(a) <= Latest(a)'
  BY LatestGrows
<1>3. \A pin \in Pin : pin \in {selected, drawer.head} => HeadCommitted(pin)'
  BY HeadKept DEF BasesInv, HeadsCommitted
<1>4. ASSUME NEW pin \in Pin, pin = selected'
      PROVE  HeadCommitted(pin)'
  <2>1. CASE selected' = selected
    BY <1>3, <1>4, <2>1
  <2>2. ASSUME NEW c \in Chart, Select(c)
        PROVE  HeadCommitted(pin)'
    <3>1. pin = [chart |-> c, revision |-> list[c]] /\ list[c] > 0 /\ c \in Asset
      BY <1>4, <2>2 DEF Select, Asset
    <3>2. list[c] \in Nat /\ list[c] <= Latest(c)
      BY <1>1, <3>1 DEF ListBehind
    <3> QED BY <1>2, <3>1, <3>2 DEF HeadCommitted
  <2>3. CASE NewChart
    BY <1>4, <2>3 DEF NewChart, HeadCommitted
  <2>4. ASSUME ~ChartSection
        PROVE  selected' = selected
    BY <2>4 DEF EditorsNext, OthersSave, OtherSaves, Handle, LoadList, ToCharts, ToDashboard,
       ChartLoaded, DocumentStep, Edit, EditJson, removeSelected, saveDashboard, add, UpdateBadge,
       updateDocument, dashboardStep, setSelectedPlacementID, SaveDrawer, HandleSave,
       SaveAnswered, editorVars, editorsVars, pageVars
  <2>5. SaveChart => selected' = selected
    BY DEF SaveChart, editorVars
  <2> QED BY <2>1, <2>2, <2>3, <2>4, <2>5 DEF ChartSection
<1>5. ASSUME NEW pin \in Pin, pin = drawer'.head
      PROVE  HeadCommitted(pin)'
  <2>1. CASE drawer'.head = drawer.head
    BY <1>3, <1>5, <2>1
  <2>2. CASE ToCharts
    BY <1>5, <2>2 DEF ToCharts, Closed, HeadCommitted
  <2>3. PICK e : e = drawer
    OBVIOUS
  <2>4. ASSUME NEW reloaded, drawer' = Rendered(e, reloaded)
        PROVE  HeadCommitted(pin)'
    <3>1. e \in Drawer /\ HeadCommitted(e.head)'
      BY <1>1, <1>3, <2>3 DEF Drawer, HeadCommitted
    <3> QED BY <1>2, <1>5, <2>4, <3>1, HeadRendered
  <2>5. ASSUME NEW reloaded, save # None, save.outcome # Refused, pinSavedChart, SaveAnswered,
               drawer' = Rendered([drawer EXCEPT !.head = resolved'[save.placement]], reloaded)
        PROVE  HeadCommitted(pin)'
    <3>1. /\ save \in PendingSave /\ save.placement \in Placement
          /\ save.save.asset \in Chart /\ save.outcome \in Nat /\ save.outcome # 0
      BY <1>1, <2>5 DEF PendingSave, EditorsInv, SaveOfChart, SaveAnswered
    <3>2. resolved'[save.placement] = [chart |-> save.save.asset, revision |-> save.outcome]
      BY <2>5, <3>1 DEF pinSavedChart, EditorsInv, EditorsTypeOK, Pins
    <3>3. PICK d : d = [drawer EXCEPT !.head = resolved'[save.placement]]
      OBVIOUS
    <3>4. d \in Drawer /\ d.head = [chart |-> save.save.asset, revision |-> save.outcome]
      BY <1>1, <3>1, <3>2, <3>3 DEF Drawer, Pins
    <3>5. save.save.asset \in Asset /\ save.outcome <= Latest(save.save.asset)
      BY <2>5, <3>1 DEF BasesInv, SaveCommitted, Asset
    <3>6. HeadCommitted(d.head)'
      BY <1>2, <3>1, <3>4, <3>5 DEF HeadCommitted
    <3> QED BY <1>2, <1>5, <2>5, <3>3, <3>4, <3>6, HeadRendered
  <2>6. \/ drawer' = drawer \/ ToCharts
        \/ \E reloaded : drawer' = Rendered(drawer, reloaded)
        \/ /\ save # None /\ save.outcome # Refused /\ pinSavedChart /\ SaveAnswered
           /\ \E reloaded : drawer' =
                Rendered([drawer EXCEPT !.head = resolved'[save.placement]], reloaded)
    BY DEF EditorsNext, OthersSave, LoadList, ToDashboard, ChartLoaded, DocumentStep, Edit,
       EditJson, removeSelected, saveDashboard, add, UpdateBadge, updateDocument, DrawerEffects,
       setSelectedPlacementID, SaveDrawer, HandleSave, SaveAnswered, dashboardVars,
       editorsVars, pageVars
  <2> QED BY <2>1, <2>2, <2>3, <2>4, <2>5, <2>6
<1> QED BY <1>4, <1>5 DEF HeadsCommitted

LEMMA SentCommittedStep ==
    ASSUME EditorsInv, BasesInv, [EditorsNext]_editorsVars
    PROVE  SentCommitted'
<1>1. /\ selected \in Pin \cup {NoPin} /\ list \in [Asset -> Nat] /\ ListBehind
      /\ sent \subseteq Save
  BY DEF EditorsInv, EditorsTypeOK
<1>2. \A a \in Asset : /\ Latest(a) \in Nat /\ Latest(a)' \in Nat
                        /\ Latest(a) <= Latest(a)'
  BY LatestGrows
<1>3. \A s \in sent : s.base <= Latest(s.asset)'
  BY <1>1, <1>2, SaveFields DEF BasesInv, SentCommitted
<1>4. CASE SaveChart
  <2>1. PICK s : /\ sent' = sent \cup {s}
                 /\ \/ selected = NoPin /\ \E c \in Chart : s = ChartSave(c, 0, 0, "editor")
                    \/ selected # NoPin /\ s = ChartSave(selected.chart, selected.revision,
                                                         draft.revision, "editor")
    BY <1>4 DEF SaveChart
  <2>2. s.base <= Latest(s.asset)'
    <3>1. CASE selected = NoPin
      BY <1>2, <2>1, <3>1 DEF ChartSave, Asset
    <3>2. CASE selected # NoPin
      <4>1. selected \in Pin /\ selected.chart \in Asset
            /\ selected.revision \in 1 .. Latest(selected.chart)
        BY <1>1, <3>2 DEF Pin, Asset, BasesInv, HeadsCommitted, HeadCommitted
      <4>2. s.asset = selected.chart /\ s.base = selected.revision
        BY <2>1, <3>2 DEF ChartSave
      <4> QED BY <1>2, <4>1, <4>2
    <3> QED BY <3>1, <3>2
  <2> QED BY <1>3, <2>1, <2>2 DEF SentCommitted
<1>5. CASE saveDashboard
  <2>1. PICK s : /\ sent' = sent \cup {s}
                 /\ \E w : s = BoardSave(list[Board], document.pins, document.from, w)
    BY <1>5 DEF saveDashboard
  <2>2. s.base <= Latest(s.asset)'
    <3>1. s.base = list[Board] /\ s.asset = Board
      BY <2>1 DEF BoardSave
    <3> QED BY <1>1, <1>2, <3>1 DEF ListBehind, Asset
  <2> QED BY <1>3, <2>1, <2>2 DEF SentCommitted
<1>6. CASE sent' \subseteq sent
  BY <1>3, <1>6 DEF SentCommitted
<1>7. SaveChart \/ saveDashboard \/ sent' \subseteq sent
  BY DEF EditorsNext, OthersSave, OtherSaves, Handle, LoadList, ToCharts, ToDashboard,
     ChartSection, Select, NewChart, ChartLoaded, DocumentStep, Edit, EditJson, removeSelected,
     add, UpdateBadge, updateDocument, setSelectedPlacementID, SaveDrawer, HandleSave,
     SaveAnswered, serverVars, editorsVars
<1> QED BY <1>4, <1>5, <1>6, <1>7

(***************************************************************************)
(* Whatever the page sends names a revision the server has: the requests   *)
(* AssetStore takes from its clients are those this client makes.          *)
(***************************************************************************)
THEOREM EditorBasesCommitted == EditorsSpec => []BasesCommitted
<1>1. EditorsInit => BasesInv
  <2> SUFFICES ASSUME EditorsInit PROVE BasesInv
    OBVIOUS
  <2>1. sent = {} /\ save = None /\ selected = NoPin /\ drawer.head = NoPin
    BY DEF EditorsInit, EditorInit, Closed
  <2> QED BY <2>1 DEF BasesInv, SentCommitted, SaveCommitted, HeadsCommitted, HeadCommitted
<1>2. EditorsInv /\ EditorsInv' /\ BasesInv /\ [EditorsNext]_editorsVars => BasesInv'
  BY SentCommittedStep, SaveCommittedStep, HeadsCommittedStep DEF BasesInv
<1>3. EditorsInv /\ BasesInv => BasesCommitted
  BY DEF BasesInv, SentCommitted, SaveCommitted, BasesCommitted, EditorsInv, SaveOfChart, Asset
<1> QED BY <1>1, <1>2, <1>3, EditorsInvariant, PTL DEF EditorsSpec

-----------------------------------------------------------------------------
(***************************************************************************)
(* A load that is not cancelled asks for what its panel pins.              *)
(***************************************************************************)
LoadsCurrent == \A l \in loads : l.pin = document.pins[l.placement]

PanelsInv == LoadsCurrent /\ PanelsCurrent

LEMMA PanelsSame ==
    ASSUME PanelsInv, UNCHANGED <<section, document, loads, resolved>>
    PROVE  PanelsInv'
BY DEF PanelsInv, LoadsCurrent, PanelsCurrent

LEMMA PanelsRestarted ==
    ASSUME NEW doc \in Document, setDocument(doc)
    PROVE  PanelsInv'
<1>1. document' = doc /\ loads' = Restarted(doc.pins) /\ doc.pins \in Pins
  BY DEF setDocument, Document
<1>2. /\ \A l \in loads' : l.pin = document'.pins[l.placement]
      /\ \A p \in Placement : document'.pins[p] # NoPin => \E l \in loads' : l.placement = p
  BY <1>1, RestartedLoads
<1> QED BY <1>2 DEF PanelsInv, LoadsCurrent, PanelsCurrent

LEMMA PanelsInvStep ==
    ASSUME EditorsInv, PanelsInv, [EditorsNext]_editorsVars
    PROVE  PanelsInv'
<1>1. /\ document \in Document /\ resolved \in Pins /\ loads \subseteq Load
      /\ saves \in Seq(Save) /\ RevisionsFound /\ list[Board] \in 0 .. Latest(Board)
  BY LatestNat DEF EditorsInv, EditorsTypeOK, ListBehind, Asset
<1>2. CASE \E a \in Asset : LoadList(a)
  <2>1. PICK a \in Asset : LoadList(a)
    BY <1>2
  <2>2. UNCHANGED <<section, resolved, saves>>
    BY <2>1 DEF LoadList, serverVars
  <2>3. CASE UNCHANGED <<document, loads>>
    BY <2>2, <2>3, PanelsSame
  <2>4. CASE setDocument(AsCommitted(list'[Board]))
    <3>1. EditorsInv'
      BY <2>1, LoadListInv
    <3>2. document' = AsCommitted(list'[Board]) /\ document' \in Document
      BY <2>4, <3>1 DEF setDocument, EditorsInv, EditorsTypeOK
    <3> QED BY <2>4, <3>2, PanelsRestarted
  <2> QED BY <2>1, <2>3, <2>4 DEF LoadList, dashboardEffect
<1>3. CASE ToCharts
  BY <1>3 DEF ToCharts, PanelsInv, LoadsCurrent, PanelsCurrent
<1>4. CASE ToDashboard
  <2>1. setDocument(AsCommitted(list[Board])) /\ AsCommitted(list[Board]) \in Document
    BY <1>1, <1>4, CommittedDocument DEF ToDashboard
  <2> QED BY <2>1, PanelsRestarted
<1>5. CASE \E l \in loads : ChartLoaded(l)
  <2>1. PICK l \in loads : ChartLoaded(l)
    BY <1>5
  <2>2. /\ UNCHANGED <<document, section>> /\ loads' = loads \ {l}
        /\ resolved' = [resolved EXCEPT ![l.placement] = l.pin]
    BY <2>1 DEF ChartLoaded, dashboardStep
  <2>3. l.placement \in Placement /\ l.pin = document.pins[l.placement]
    BY <1>1 DEF Load, PanelsInv, LoadsCurrent
  <2>4. resolved'[l.placement] = document'.pins[l.placement]
    BY <1>1, <2>2, <2>3 DEF Pins
  <2>5. ASSUME NEW p \in Placement, p # l.placement
        PROVE  /\ resolved'[p] = resolved[p]
               /\ \A k \in loads : k.placement = p => k \in loads'
    BY <1>1, <2>2, <2>5 DEF Pins
  <2>6. PanelsCurrent'
    BY <2>2, <2>4, <2>5 DEF PanelsInv, PanelsCurrent
  <2>7. LoadsCurrent'
    BY <2>2 DEF PanelsInv, LoadsCurrent
  <2> QED BY <2>6, <2>7 DEF PanelsInv
<1>6. CASE DocumentStep /\ ~saveDashboard
  <2>1. \E pins : setDocument([document EXCEPT !.pins = pins])
    BY <1>6 DEF DocumentStep, Edit, EditJson, removeSelected, add, UpdateBadge, updateDocument
  <2>2. document' \in Document
    BY <1>6, DocumentStepInv DEF EditorsInv, EditorsTypeOK
  <2>3. setDocument(document')
    BY <2>1 DEF setDocument
  <2> QED BY <2>2, <2>3, PanelsRestarted
<1>7. CASE SaveAnswered
  <2>1. CASE UNCHANGED <<document, loads, resolved>>
    BY <1>7, <2>1, PanelsSame DEF SaveAnswered
  <2>2. CASE pinSavedChart
    <3>1. document' \in Document
      BY <1>7, SaveAnsweredInv DEF EditorsInv, EditorsTypeOK
    <3>2. setDocument(document')
      BY <2>2 DEF pinSavedChart, setDocument
    <3> QED BY <3>1, <3>2, PanelsRestarted
  <2> QED BY <1>7, <2>1, <2>2 DEF SaveAnswered
<1>8. CASE \/ OthersSave \/ saveDashboard
           \/ \E s \in sent : Handle(s) /\ UNCHANGED dashboardVars
           \/ ChartSection /\ UNCHANGED dashboardVars
           \/ \E p \in Placement \cup {None} : setSelectedPlacementID(p)
           \/ SaveDrawer \/ HandleSave
           \/ UNCHANGED editorsVars
  <2>1. UNCHANGED <<section, document, loads, resolved>>
    BY <1>8 DEF OthersSave, OtherSaves, saveDashboard, Handle, ChartSection, Select, NewChart,
                SaveChart, dashboardStep, setSelectedPlacementID, SaveDrawer, HandleSave,
                dashboardVars, panelVars, editorsVars, pageVars
  <2> QED BY <2>1, PanelsSame
<1> QED BY <1>2, <1>3, <1>4, <1>5, <1>6, <1>7, <1>8 DEF EditorsNext, DocumentStep

(***************************************************************************)
(* A panel without a load has the revision it pins.                        *)
(***************************************************************************)
THEOREM EditorPanelsCurrent == EditorsSpec => []PanelsCurrent
<1>1. EditorsInit => PanelsInv
  BY DEF EditorsInit, EditorInit, AsCommitted, NoPins, PanelsInv, LoadsCurrent, PanelsCurrent
<1>2. EditorsInv /\ PanelsInv /\ [EditorsNext]_editorsVars => PanelsInv'
  BY PanelsInvStep
<1>3. PanelsInv => PanelsCurrent
  BY DEF PanelsInv
<1> QED BY <1>1, <1>2, <1>3, EditorsInvariant, PTL DEF EditorsSpec

-----------------------------------------------------------------------------
(***************************************************************************)
(* The server implements the revision log: what a commit does to the log's *)
(* three tables.                                                           *)
(***************************************************************************)
LEMMA RowsKept ==
    ASSUME saves \in Seq(Save), NEW s \in Save, saves' = Append(saves, s),
           NEW i \in DOMAIN saves
    PROVE  RevisionOf(i)' = RevisionOf(i) /\ EventOf(i)' = EventOf(i)
<1>1. i \in 1 .. Len(saves) /\ saves'[i] = saves[i]
  BY Appending
<1>2. {j \in 1 .. i : saves'[j].asset = saves'[i].asset}
        = {j \in 1 .. i : saves[j].asset = saves[i].asset}
  BY <1>1, Appending
<1>3. Number(i)' = Number(i)
  BY <1>2 DEF Number
<1> QED BY <1>1, <1>3 DEF RevisionOf, EventOf

LEMMA RowAdded ==
    ASSUME saves \in Seq(Save), NEW s \in Save, saves' = Append(saves, s), Accepted(s),
           NEW n, n = Len(saves) + 1
    PROVE  /\ RevisionOf(n)' =
                [asset |-> s.asset, revision |-> Latest(s.asset) + 1,
                 document |-> [kind |-> IF s.asset = Board THEN "Dashboard" ELSE "Chart",
                               body |-> n],
                 source |-> -1, base |-> Latest(s.asset), title |-> "title"]
           /\ EventOf(n)' = [id |-> n, asset |-> s.asset, revision |-> Latest(s.asset) + 1]
<1>1. saves'[n] = s /\ s.base = Latest(s.asset) /\ n = Len(saves')
  BY Appending DEF Accepted
<1>2. Number(n)' = Latest(s.asset) + 1
  <2>1. {j \in 1 .. n : saves'[j].asset = saves'[n].asset} = {i \in DOMAIN saves' : saves'[i].asset = s.asset}
    BY <1>1, Appending
  <2>2. Number(n)' = Latest(s.asset)'
    BY <2>1 DEF Number, Latest
  <2>3. \A a : a = s.asset => Latest(a)' = Latest(a) + 1
    BY UpToAppended
  <2>4. Latest(s.asset)' = Latest(s.asset) + 1
    BY <2>3
  <2> QED BY <2>2, <2>4
<1> QED BY <1>1, <1>2 DEF RevisionOf, EventOf

LEMMA AssetsAppended ==
    ASSUME saves \in Seq(Save), NEW s \in Save, saves' = Append(saves, s)
    PROVE  /\ \A a \in Asset \ {s.asset} : AssetOf(a)' = AssetOf(a)
           /\ AssetOf(s.asset)' = [kind |-> KindOf(s.asset), slug |-> s.asset, title |-> "title",
                                  latest_revision |-> Latest(s.asset) + 1, archived |-> FALSE]
<1>1. \A a : Latest(a)' = IF a = s.asset THEN Latest(a) + 1 ELSE Latest(a)
  BY UpToAppended
<1>2. Latest(s.asset) \in Nat
  BY LatestNat
<1>3. Latest(s.asset)' = Latest(s.asset) + 1 /\ Exists(s.asset)'
  <2>1. \A a : a = s.asset => Latest(a)' = Latest(a) + 1
    BY <1>1
  <2>2. Latest(s.asset)' = Latest(s.asset) + 1
    BY <2>1
  <2> QED BY <1>2, <2>2 DEF Exists
<1>4. ASSUME NEW a \in Asset \ {s.asset}
      PROVE  AssetOf(a)' = AssetOf(a)
  BY <1>1, <1>4 DEF AssetOf, Exists, KindOf
<1> QED BY <1>3, <1>4 DEF AssetOf, KindOf

LEMMA CommitAppends ==
    ASSUME saves \in Seq(Save), NEW s \in Save, saves' = Append(saves, s), Accepted(s),
           Len(saves) < MaxSaves
    PROVE  Log!LogNext
<1>. DEFINE a == s.asset
            n == Len(saves) + 1
            d == [kind |-> IF a = Board THEN "Dashboard" ELSE "Chart", body |-> n]
            row == [kind |-> KindOf(a), slug |-> a, title |-> "title",
                    latest_revision |-> Latest(a) + 1, archived |-> FALSE]
<1>1. a \in Asset /\ n \in 1 .. MaxSaves /\ Latest(a) \in Nat
  BY SaveFields, LatestNat, EditorAssumption
<1>2. [b \in Asset |-> AssetOf(b)]' = [[b \in Asset |-> AssetOf(b)] EXCEPT ![a] = row]
  BY <1>1, AssetsAppended
<1>3. {RevisionOf(i) : i \in DOMAIN saves}' =
        {RevisionOf(i) : i \in DOMAIN saves} \cup
          {[asset |-> a, revision |-> Latest(a) + 1, document |-> d,
            source |-> -1, base |-> Latest(a), title |-> "title"]}
  BY Appending, RowsKept, RowAdded
<1>4. {EventOf(i) : i \in DOMAIN saves}' =
        {EventOf(i) : i \in DOMAIN saves} \cup
          {[id |-> n, asset |-> a, revision |-> Latest(a) + 1]}
  BY Appending, RowsKept, RowAdded
<1>5. Log!Latest(a) = Latest(a)
  BY <1>1, LatestNat DEF Log!Latest, AssetOf, Exists
<1>6. Log!NewEventId(a, n)
  BY DEF Log!NewEventId, EventOf
<1>7. Log!AppendRevision(a, row, d, Log!Original, n)
  BY <1>2, <1>3, <1>4, <1>5, <1>6 DEF Log!AppendRevision, Log!Original
<1>8. n \in Log!EventId /\ d \in Log!Document /\ d.kind = Log!expected(KindOf(a))
      /\ KindOf(a) \in {"chart", "dashboard"}
  BY <1>1 DEF Log!EventId, Log!Document, Log!expected, KindOf
<1>9. CASE Exists(a)
  <2>1. AssetOf(a) = [kind |-> KindOf(a), slug |-> a, title |-> "title",
                      latest_revision |-> Latest(a), archived |-> FALSE]
    BY <1>9 DEF AssetOf
  <2>2. Log!Exists(a)
    BY <1>1, <1>9, <2>1 DEF Log!Exists, Log!NoRow, Exists
  <2>3. [b \in Asset |-> AssetOf(b)][a] = AssetOf(a)
    BY <1>1
  <2>4. AssetOf(a).latest_revision = Latest(a)
    BY <2>1
  <2>5. row = [AssetOf(a) EXCEPT !.title = "title", !.latest_revision = Latest(a) + 1]
    <3>. DEFINE R == [kind : {KindOf(a)}, slug : {a}, title : {"title"},
                      latest_revision : Nat, archived : BOOLEAN]
                moved == [AssetOf(a) EXCEPT !.title = "title",
                                            !.latest_revision = Latest(a) + 1]
    <3>1. AssetOf(a) \in R /\ row \in R
      BY <1>1, <2>1
    <3>2. moved \in R
      BY <1>1, <3>1
    <3>3. /\ moved.kind = KindOf(a) /\ moved.slug = a /\ moved.title = "title"
          /\ moved.latest_revision = Latest(a) + 1 /\ moved.archived = FALSE
      BY <2>1, <3>1
    <3>4. /\ row.kind = KindOf(a) /\ row.slug = a /\ row.title = "title"
          /\ row.latest_revision = Latest(a) + 1 /\ row.archived = FALSE
      OBVIOUS
    <3> HIDE DEF moved, row
    <3>5. moved = row
      BY <3>1, <3>2, <3>3, <3>4
    <3> QED BY <3>5 DEF moved
  <2>6. Log!Update(a, "title", d, n)
    <3> HIDE DEF row, d, n
    <3> QED BY <1>1, <1>7, <2>2, <2>3, <2>4, <2>5 DEF Log!Update
  <2> QED BY <1>1, <1>8, <2>6 DEF Log!LogNext
<1>10. CASE ~Exists(a)
  <2>1. Latest(a) = 0
    BY <1>1, <1>10 DEF Exists
  <2>2. ~Log!Exists(a)
    BY <1>1, <1>10 DEF Log!Exists, Log!NoRow, AssetOf
  <2>3. Log!SlugFree(KindOf(a), a)
    BY <1>1, <1>10, EditorAssumption DEF Log!SlugFree, AssetOf, Asset
  <2>4. Log!Create(a, KindOf(a), a, "title", d, n)
    BY <1>7, <1>8, <2>1, <2>2, <2>3 DEF Log!Create
  <2> QED BY <1>1, <1>8, <2>4 DEF Log!LogNext
<1> QED BY <1>9, <1>10

LEMMA LogStarts == EditorsInit => Log!LogInit
<1> SUFFICES ASSUME EditorsInit PROVE Log!LogInit
  OBVIOUS
<1>1. saves = <<>>
  BY DEF EditorsInit, EditorInit
<1>2. \A a : ~Exists(a)
  <2>1. \A a : {i \in DOMAIN saves : saves[i].asset = a} = {}
    BY <1>1
  <2> QED BY <2>1, FS_EmptySet DEF Exists, Latest
<1>3. [a \in Asset |-> AssetOf(a)] = [a \in Asset |-> Log!NoRow]
  BY <1>2 DEF AssetOf, Log!NoRow
<1> QED BY <1>1, <1>3 DEF Log!LogInit

(***************************************************************************)
(* Whatever the pages send and in whatever order it arrives, the server's  *)
(* revisions are a revision log.                                           *)
(***************************************************************************)
THEOREM EditorsKeepLog == EditorsSpec => PagesKeepLog
<1>1. EditorsInv /\ [EditorsNext]_editorsVars => [saves' # saves /\ Log!LogNext]_saves
  <2> SUFFICES ASSUME EditorsInv, [EditorsNext]_editorsVars, saves' # saves
               PROVE  Log!LogNext
    OBVIOUS
  <2>1. PICK s \in Save : saves' = Append(saves, s) /\ Accepted(s) /\ Len(saves) < MaxSaves
    BY SavesStep
  <2>2. saves \in Seq(Save)
    BY DEF EditorsInv, EditorsTypeOK
  <2> QED BY <2>1, <2>2, CommitAppends
<1> QED BY <1>1, LogStarts, EditorsInvariant, PTL DEF EditorsSpec, PagesKeepLog

(***************************************************************************)
(* PagesKeepLog is the log's own specification under the mapping.          *)
(***************************************************************************)
THEOREM EditorsImplementLog == EditorsSpec => Log!LogSpec
<1>1. [saves' # saves /\ Log!LogNext]_saves => [Log!LogNext]_Log!logVars
  <2> SUFFICES ASSUME UNCHANGED saves PROVE UNCHANGED Log!logVars
    OBVIOUS
  <2>1. \A a : AssetOf(a)' = AssetOf(a)
    BY DEF AssetOf, Exists, Latest, KindOf
  <2>2. \A i : RevisionOf(i)' = RevisionOf(i) /\ EventOf(i)' = EventOf(i)
    BY DEF RevisionOf, EventOf, Number
  <2> QED BY <2>1, <2>2 DEF Log!logVars
<1>2. PagesKeepLog => Log!LogSpec
  BY <1>1, PTL DEF PagesKeepLog, Log!LogSpec
<1> QED BY <1>2, EditorsKeepLog
=============================================================================
