------------------------- MODULE EventFanoutProofs -------------------------
(***************************************************************************)
(* A page at rest shows what it was told of and never goes back, for any   *)
(* number of pages, assets, retries and resends.  PageOK is the inductive  *)
(* invariant of one page, over the heads of the assets: nothing it holds   *)
(* is ahead of a head, and what a fetch has already read is not older than *)
(* what the page shows or was told of.                                     *)
(***************************************************************************)
EXTENDS EventFanout, RevisionLogProofs

heads == [a \in Asset |-> Latest(a)]

Heads == [Asset -> Nat]

View == [loaded : BOOLEAN, shown : [Asset -> Nat]]

PageTypes(f, v, d, q, err) ==
    /\ f \in FetchRecord /\ v \in View /\ d \in [Asset -> Nat]
    /\ q \in Seq(EventRow) /\ err \in BOOLEAN

NotAhead(f, v, d, q, latest) ==
    /\ \A a \in Asset : d[a] <= latest[a] /\ v.shown[a] <= latest[a] /\ f.got[a] <= latest[a]
    /\ \A i \in 1 .. Len(q) : q[i].revision <= latest[q[i].asset]

ReadsFresh(f, v, d) ==
    IF f.phase = "reading"
    THEN \A a \in Asset : a \notin f.todo => d[a] <= f.got[a] /\ v.shown[a] <= f.got[a]
    ELSE f.todo = {}

Quiet(f, v, d, err) ==
    f.phase = "idle" /\ ~err => \A a \in Asset : d[a] <= v.shown[a]

PageOK(f, v, d, q, err, latest) ==
    /\ PageTypes(f, v, d, q, err)
    /\ NotAhead(f, v, d, q, latest)
    /\ ReadsFresh(f, v, d)
    /\ Quiet(f, v, d, err)

PagesOK == \A b \in Browser :
             PageOK(fetch[b], view[b], due[b], inbox[b], errored[b], heads)

FanoutInv ==
    /\ LogInv
    /\ onRedis \subseteq EventId
    /\ resends \in 0 .. MaxResends
    /\ stream \in [Browser -> {"closed", "connected", "subscribed"}]
    /\ inbox \in [Browser -> Seq(EventRow)]
    /\ fetch \in [Browser -> FetchRecord]
    /\ view \in [Browser -> View]
    /\ errored \in [Browser -> BOOLEAN]
    /\ due \in [Browser -> [Asset -> Nat]]
    /\ PagesOK

-----------------------------------------------------------------------------
(***************************************************************************)
(* The log: heads grow, and no event is ahead of its asset's head.         *)
(***************************************************************************)
LEMMA HeadsType == LogInv => heads \in Heads /\ \A a \in Asset : heads[a] = Latest(a)
BY LatestType DEF LogInv, heads, Heads

LEMMA HeadsGrow ==
    ASSUME LogInv, [LogNext]_logVars, NEW b \in Asset
    PROVE  Latest(b) <= Latest(b)'
<1>1. CASE LogNext
  <2>1. PICK a \in Asset :
          \/ Archive(a)
          \/ \E id \in EventId :
               \/ \E kind \in Kind, slug \in Slug, title \in Title, d \in Document :
                    Create(a, kind, slug, title, d, id)
               \/ \E title \in Title, d \in Document : Update(a, title, d, id)
               \/ \E source \in 0 .. Latest(a) : Restore(a, source, id)
    BY <1>1 DEF LogNext
  <2>2. assets \in [Asset -> AssetRow \cup {NoRow}] /\ Latest(b) \in Nat /\ Latest(a) \in Nat
    BY LatestType DEF LogInv, LogTypeOK
  <2>3. CASE Archive(a)
    BY <2>2, <2>3, LatestType DEF Archive, AssetRow, Latest, LogInv
  <2>4. ASSUME NEW kind, NEW slug, NEW title, NEW d, NEW id,
               Create(a, kind, slug, title, d, id)
        PROVE  Latest(b) <= Latest(b)'
    BY <2>2, <2>4, LatestType DEF Create, AppendRevision, Latest, Exists, NoRow
  <2>5. ASSUME NEW title, NEW d, NEW id, Update(a, title, d, id)
        PROVE  Latest(b) <= Latest(b)'
    BY <2>2, <2>5, LatestType DEF Update, AppendRevision, AssetRow, Latest, LogInv
  <2>6. ASSUME NEW source, NEW id, Restore(a, source, id)
        PROVE  Latest(b) <= Latest(b)'
    BY <2>2, <2>6, LatestType DEF Restore, AppendRevision, AssetRow, Latest, LogInv
  <2> QED BY <2>1, <2>3, <2>4, <2>5, <2>6
<1>2. CASE UNCHANGED logVars
  BY <1>2, LatestType DEF logVars, Latest, LogInv
<1> QED BY <1>1, <1>2

LEMMA EventsKnown ==
    ASSUME LogInv, NEW e \in outbox_events
    PROVE  e \in EventRow /\ e.asset \in Asset /\ e.revision <= heads[e.asset]
<1>1. e \in EventRow
  BY DEF LogInv, LogTypeOK
<1>2. PICK r \in asset_revisions : e.asset = r.asset /\ e.revision = r.revision
  BY DEF LogInv, OutboxMirrorsRevisions
<1>3. r.revision <= Latest(r.asset)
  BY DEF LogInv, RowsBelowHead
<1> QED BY <1>1, <1>2, <1>3, HeadsType DEF EventRow

-----------------------------------------------------------------------------
(***************************************************************************)
(* What each step does to one page.                                        *)
(***************************************************************************)
LEMMA PageGrows ==
    ASSUME NEW f, NEW v, NEW d, NEW q, NEW err, NEW l \in Heads, NEW m \in Heads,
           PageOK(f, v, d, q, err, l), \A a \in Asset : l[a] <= m[a]
    PROVE  PageOK(f, v, d, q, err, m)
<1>1. \A a \in Asset : d[a] <= m[a] /\ v.shown[a] <= m[a] /\ f.got[a] <= m[a]
  <2>1. f \in FetchRecord /\ v \in View /\ d \in [Asset -> Nat]
    BY DEF PageOK, PageTypes
  <2>2. f.got \in [Asset -> Nat] /\ v.shown \in [Asset -> Nat]
    BY <2>1 DEF FetchRecord, View
  <2>3. \A a \in Asset : d[a] <= l[a] /\ v.shown[a] <= l[a] /\ f.got[a] <= l[a]
    BY DEF PageOK, NotAhead
  <2> TAKE a \in Asset
  <2>4. d[a] \in Nat /\ f.got[a] \in Nat /\ v.shown[a] \in Nat
    BY <2>1, <2>2
  <2>5. l[a] \in Nat /\ m[a] \in Nat /\ l[a] <= m[a]
    BY DEF Heads
  <2> QED BY <2>3, <2>4, <2>5
<1>2. ASSUME NEW i \in 1 .. Len(q) PROVE q[i].revision <= m[q[i].asset]
  <2>1. q[i] \in EventRow
    BY DEF PageOK, PageTypes
  <2> QED BY <2>1 DEF PageOK, NotAhead, Heads, EventRow
<1> QED BY <1>1, <1>2 DEF PageOK, NotAhead

LEMMA PageHears ==
    ASSUME NEW f, NEW v, NEW d, NEW q, NEW err, NEW l \in Heads, NEW e \in EventRow,
           PageOK(f, v, d, q, err, l), e.revision <= l[e.asset]
    PROVE  PageOK(f, v, d, Append(q, e), err, l)
<1>1. q \in Seq(EventRow)
  BY DEF PageOK, PageTypes
<1>2. Append(q, e) \in Seq(EventRow) /\ Len(Append(q, e)) = Len(q) + 1 /\ Len(q) \in Nat
      /\ \A i \in 1 .. Len(q) : Append(q, e)[i] = q[i]
      /\ Append(q, e)[Len(q) + 1] = e
  BY <1>1
<1>3. ASSUME NEW i \in 1 .. Len(Append(q, e))
      PROVE  Append(q, e)[i].revision <= l[Append(q, e)[i].asset]
  <2>1. CASE i \in 1 .. Len(q)
    BY <1>2, <2>1 DEF PageOK, NotAhead
  <2>2. CASE i = Len(q) + 1
    BY <1>2, <2>2
  <2> QED BY <1>2, <2>1, <2>2
<1> QED BY <1>2, <1>3 DEF PageOK, PageTypes, NotAhead

LEMMA PageHeard ==
    ASSUME NEW f, NEW v, NEW d, NEW q, NEW err, NEW l \in Heads,
           PageOK(f, v, d, q, err, l), q # <<>>
    PROVE  /\ PageOK(f, v, d, Tail(q), err, l)
           /\ Head(q) \in EventRow /\ Head(q).revision <= l[Head(q).asset]
<1>1. q \in Seq(EventRow) /\ Len(q) > 0
  BY DEF PageOK, PageTypes
<1>2. Tail(q) \in Seq(EventRow) /\ Len(Tail(q)) = Len(q) - 1 /\ Head(q) = q[1]
      /\ \A i \in 1 .. Len(Tail(q)) : Tail(q)[i] = q[i + 1]
  BY <1>1
<1>3. \A i \in 1 .. Len(q) : q[i].revision <= l[q[i].asset]
  BY DEF PageOK, NotAhead
<1>4. ASSUME NEW i \in 1 .. Len(Tail(q)) PROVE Tail(q)[i].revision <= l[Tail(q)[i].asset]
  <2>1. i + 1 \in 1 .. Len(q)
    BY <1>1, <1>2
  <2> QED BY <1>2, <1>3, <2>1
<1>5. 1 \in 1 .. Len(q) /\ q[1] \in EventRow
  BY <1>1
<1> QED BY <1>2, <1>3, <1>4, <1>5 DEF PageOK, PageTypes, NotAhead

LEMMA PageLosesInbox ==
    ASSUME NEW f, NEW v, NEW d, NEW q, NEW err, NEW l,
           PageOK(f, v, d, q, err, l)
    PROVE  PageOK(f, v, d, <<>>, err, l)
BY DEF PageOK, PageTypes, NotAhead

(***************************************************************************)
(* A fetch that starts over asks nothing of what it has read.              *)
(***************************************************************************)
LEMMA ListingType ==
    ASSUME NEW n \in 0 .. Retries
    PROVE  /\ Listing(n) \in FetchRecord /\ Listing(n).phase = "listing"
           /\ \A a \in Asset : Listing(n).got[a] = 0
           /\ Listing(n).todo = {} /\ NoFetch.todo = {}
           /\ NoFetch \in FetchRecord /\ NoFetch.phase = "idle"
           /\ \A a \in Asset : NoFetch.got[a] = 0
<1>1. Nothing \in [Asset -> Nat] /\ \A a \in Asset : Nothing[a] = 0
  BY DEF Nothing
<1>2. 0 \in 0 .. Retries
  BY FanoutAssumption
<1>3. /\ NoFetch \in FetchRecord /\ NoFetch.phase = "idle" /\ NoFetch.got = Nothing
      /\ NoFetch.todo = {}
  BY <1>1, <1>2 DEF NoFetch, FetchRecord
<1>4. /\ Listing(n) \in FetchRecord /\ Listing(n).phase = "listing"
      /\ Listing(n).got = Nothing /\ Listing(n).todo = {}
  BY <1>3 DEF Listing, FetchRecord
<1> QED BY <1>1, <1>3, <1>4

LEMMA PageStartsOver ==
    ASSUME NEW f, NEW v, NEW d, NEW q, NEW err, NEW l \in Heads, NEW n \in 0 .. Retries,
           PageOK(f, v, d, q, err, l)
    PROVE  PageOK(Listing(n), v, d, q, err, l)
BY ListingType DEF PageOK, PageTypes, NotAhead, ReadsFresh, Quiet, Heads

LEMMA PageGivesUp ==
    ASSUME NEW f, NEW v, NEW d, NEW q, NEW err, NEW l \in Heads,
           PageOK(f, v, d, q, err, l)
    PROVE  PageOK(NoFetch, v, d, q, TRUE, l)
<1>1. 0 \in 0 .. Retries
  BY FanoutAssumption
<1> QED BY <1>1, ListingType DEF PageOK, PageTypes, NotAhead, ReadsFresh, Quiet, Heads

(***************************************************************************)
(* While a fetch starts over the page may be told of anything known.       *)
(***************************************************************************)
LEMMA PageTold ==
    ASSUME NEW v, NEW d, NEW q, NEW err, NEW l \in Heads, NEW e \in EventRow,
           PageOK(Listing(0), v, d, q, err, l), e.revision <= l[e.asset]
    PROVE  PageOK(Listing(0), v, [d EXCEPT ![e.asset] = e.revision], q, err, l)
<1>1. 0 \in 0 .. Retries /\ d \in [Asset -> Nat] /\ e.asset \in Asset /\ e.revision \in Nat
  BY FanoutAssumption DEF PageOK, PageTypes, EventRow
<1> QED BY <1>1, ListingType DEF PageOK, PageTypes, NotAhead, ReadsFresh, Quiet

LEMMA PageLists ==
    ASSUME NEW f, NEW v, NEW d, NEW q, NEW err, NEW l \in Heads, NEW todo \in SUBSET Asset,
           PageOK(f, v, d, q, err, l), \A a \in Asset : a \notin todo => l[a] = 0
    PROVE  PageOK([f EXCEPT !.phase = "reading", !.todo = todo], v, d, q, err, l)
<1> DEFINE g == [f EXCEPT !.phase = "reading", !.todo = todo]
<1>1. f \in FetchRecord /\ v \in View /\ d \in [Asset -> Nat]
  BY DEF PageOK, PageTypes
<1>2. g \in FetchRecord /\ g.phase = "reading" /\ g.todo = todo /\ g.got = f.got
      /\ f.got \in [Asset -> Nat] /\ v.shown \in [Asset -> Nat]
  BY <1>1 DEF FetchRecord, View
<1> HIDE DEF g
<1>3. \A a \in Asset : a \notin todo => d[a] <= g.got[a] /\ v.shown[a] <= g.got[a]
  BY <1>1, <1>2 DEF PageOK, NotAhead
<1>4. PageOK(g, v, d, q, err, l)
  BY <1>2, <1>3 DEF PageOK, PageTypes, NotAhead, ReadsFresh, Quiet
<1> QED BY <1>4 DEF g

LEMMA PageReads ==
    ASSUME NEW f, NEW v, NEW d, NEW q, NEW err, NEW l \in Heads, NEW a \in Asset,
           PageOK(f, v, d, q, err, l), f.phase = "reading"
    PROVE  PageOK([f EXCEPT !.todo = @ \ {a}, !.got[a] = l[a]], v, d, q, err, l)
<1> DEFINE g == [f EXCEPT !.todo = @ \ {a}, !.got[a] = l[a]]
<1>1. f \in FetchRecord /\ l[a] \in Nat
  BY DEF PageOK, PageTypes, Heads
<1>2. /\ g \in FetchRecord /\ g.phase = "reading" /\ g.todo = f.todo \ {a}
      /\ g.got = [f.got EXCEPT ![a] = l[a]] /\ f.got \in [Asset -> Nat]
  BY <1>1 DEF FetchRecord
<1> HIDE DEF g
<1>3. \A c \in Asset : g.got[c] = IF c = a THEN l[a] ELSE f.got[c]
  BY <1>2
<1>4. PageOK(g, v, d, q, err, l)
  BY <1>1, <1>2, <1>3 DEF PageOK, PageTypes, NotAhead, ReadsFresh, Quiet
<1> QED BY <1>4 DEF g

LEMMA PageShows ==
    ASSUME NEW f, NEW v, NEW d, NEW q, NEW err, NEW l \in Heads,
           PageOK(f, v, d, q, err, l), f.phase = "reading", f.todo = {}
    PROVE  /\ PageOK(NoFetch, [loaded |-> TRUE, shown |-> f.got], d, q, FALSE, l)
           /\ \A a \in Asset : v.shown[a] <= f.got[a]
<1> DEFINE w == [loaded |-> TRUE, shown |-> f.got]
<1>1. 0 \in 0 .. Retries /\ f \in FetchRecord
  BY FanoutAssumption DEF PageOK, PageTypes
<1>2. w \in View /\ w.shown = f.got
  BY <1>1 DEF View, FetchRecord
<1> HIDE DEF w
<1>3. \A a \in Asset : d[a] <= f.got[a] /\ v.shown[a] <= f.got[a]
  BY DEF PageOK, ReadsFresh
<1>4. \A a \in Asset : l[a] \in Nat
  BY DEF Heads
<1>5. PageOK(NoFetch, w, d, q, FALSE, l)
  BY <1>1, <1>2, <1>3, <1>4, ListingType DEF PageOK, PageTypes, NotAhead, ReadsFresh, Quiet
<1> QED BY <1>3, <1>5 DEF w

-----------------------------------------------------------------------------
(***************************************************************************)
(* The steps.  A step of one page leaves the log and the other pages alone.*)
(***************************************************************************)
LEMMA OnePage ==
    ASSUME FanoutInv, NEW b \in Browser,
           UNCHANGED <<relayVars, resends>>,
           stream' \in [Browser -> {"closed", "connected", "subscribed"}],
           NEW f, fetch' = [fetch EXCEPT ![b] = f],
           NEW v, view' = [view EXCEPT ![b] = v],
           NEW d, due' = [due EXCEPT ![b] = d],
           NEW q, inbox' = [inbox EXCEPT ![b] = q],
           NEW err, errored' = [errored EXCEPT ![b] = err],
           PageOK(f, v, d, q, err, heads)
    PROVE  FanoutInv'
<1>1. UNCHANGED logVars /\ UNCHANGED <<onRedis, resends>>
  BY DEF relayVars
<1>2. LogInv'
  BY <1>1, LogNextInv DEF FanoutInv
<1>3. heads' = heads
  BY <1>1 DEF logVars, heads, Latest
<1>4. /\ f \in FetchRecord /\ v \in View /\ d \in [Asset -> Nat]
      /\ q \in Seq(EventRow) /\ err \in BOOLEAN
  BY DEF PageOK, PageTypes
<1>5. /\ inbox' \in [Browser -> Seq(EventRow)]
      /\ fetch' \in [Browser -> FetchRecord]
      /\ view' \in [Browser -> View]
      /\ errored' \in [Browser -> BOOLEAN]
      /\ due' \in [Browser -> [Asset -> Nat]]
  BY <1>4 DEF FanoutInv
<1>6. ASSUME NEW c \in Browser
      PROVE  PageOK(fetch'[c], view'[c], due'[c], inbox'[c], errored'[c], heads')
  <2>1. CASE c = b
    <3>1. /\ fetch'[c] = f /\ view'[c] = v /\ due'[c] = d /\ inbox'[c] = q
          /\ errored'[c] = err
      BY <2>1 DEF FanoutInv
    <3> QED BY <3>1, <1>3
  <2>2. CASE c # b
    <3>1. /\ fetch'[c] = fetch[c] /\ view'[c] = view[c] /\ due'[c] = due[c]
          /\ inbox'[c] = inbox[c] /\ errored'[c] = errored[c]
      BY <2>2 DEF FanoutInv
    <3>2. PageOK(fetch[c], view[c], due[c], inbox[c], errored[c], heads)
      BY DEF FanoutInv, PagesOK
    <3> QED BY <3>1, <3>2, <1>3
  <2> QED BY <2>1, <2>2
<1> QED BY <1>1, <1>2, <1>5, <1>6 DEF FanoutInv, PagesOK

(***************************************************************************)
(* A step of the log, or one that only Redis and the resends notice.       *)
(***************************************************************************)
LEMMA LogStep ==
    ASSUME FanoutInv, [LogNext]_logVars, onRedis' \subseteq EventId,
           resends' \in 0 .. MaxResends, UNCHANGED browserVars
    PROVE  FanoutInv'
<1>1. LogInv /\ LogInv'
  BY LogNextInv DEF FanoutInv
<1>2. heads \in Heads /\ heads' \in Heads
      /\ \A a \in Asset : heads[a] = Latest(a) /\ heads'[a] = Latest(a)'
  <2>1. heads \in Heads /\ \A a \in Asset : heads[a] = Latest(a)
    BY <1>1, HeadsType
  <2>2. assets' \in [Asset -> AssetRow \cup {NoRow}]
    BY <1>1 DEF LogInv, LogTypeOK
  <2>3. \A a \in Asset : Latest(a)' \in Nat
    BY <2>2 DEF Latest, AssetRow, NoRow
  <2> QED BY <2>1, <2>3 DEF heads, Heads
<1>3. \A a \in Asset : heads[a] <= heads'[a]
  BY <1>1, <1>2, HeadsGrow
<1>4. ASSUME NEW c \in Browser
      PROVE  PageOK(fetch'[c], view'[c], due'[c], inbox'[c], errored'[c], heads')
  <2>1. PageOK(fetch[c], view[c], due[c], inbox[c], errored[c], heads)
    BY DEF FanoutInv, PagesOK
  <2>2. PageOK(fetch[c], view[c], due[c], inbox[c], errored[c], heads')
    BY <1>2, <1>3, <2>1, PageGrows
  <2> QED BY <2>2 DEF browserVars
<1> QED BY <1>1, <1>4 DEF FanoutInv, PagesOK, browserVars

LEMMA DeliverInv ==
    ASSUME FanoutInv, NEW e \in outbox_events, Send(e), Deliver(e),
           resends' \in 0 .. MaxResends
    PROVE  FanoutInv'
<1>1. e \in EventRow /\ e.revision <= heads[e.asset] /\ heads \in Heads
  BY EventsKnown, HeadsType DEF FanoutInv
<1>2. LogInv' /\ heads' = heads
  BY LogNextInv DEF FanoutInv, Send, logVars, heads, Latest
<1>3. onRedis' \subseteq EventId
  BY <1>1 DEF FanoutInv, Send, EventRow
<1>4. inbox' \in [Browser -> Seq(EventRow)]
  BY <1>1 DEF FanoutInv, Deliver
<1>5. ASSUME NEW c \in Browser
      PROVE  PageOK(fetch[c], view[c], due[c], inbox'[c], errored[c], heads)
  <2>1. PageOK(fetch[c], view[c], due[c], inbox[c], errored[c], heads)
    BY DEF FanoutInv, PagesOK
  <2>2. PageOK(fetch[c], view[c], due[c], Append(inbox[c], e), errored[c], heads)
    BY <1>1, <2>1, PageHears
  <2>3. inbox'[c] \in {inbox[c], Append(inbox[c], e)}
    BY DEF Deliver
  <2> QED BY <2>1, <2>2, <2>3
<1> QED BY <1>2, <1>3, <1>4, <1>5 DEF FanoutInv, PagesOK, Deliver

(***************************************************************************)
(* A message restarts the fetch, or joins the page's first one.            *)
(***************************************************************************)
LEMMA InvalidateInv ==
    ASSUME FanoutInv, NEW b \in Browser, invalidate(b)
    PROVE  FanoutInv'
<1> DEFINE e == Head(inbox[b])
<1>1. heads \in Heads /\ 0 \in 0 .. Retries
  BY HeadsType, FanoutAssumption DEF FanoutInv
<1>2. PageOK(fetch[b], view[b], due[b], inbox[b], errored[b], heads) /\ inbox[b] # <<>>
  BY DEF FanoutInv, PagesOK, invalidate
<1>3. /\ PageOK(fetch[b], view[b], due[b], Tail(inbox[b]), errored[b], heads)
      /\ e \in EventRow /\ e.revision <= heads[e.asset]
  BY <1>1, <1>2, PageHeard
<1> HIDE DEF e
<1>4. PageOK(Listing(0), view[b], due[b], Tail(inbox[b]), errored[b], heads)
  BY <1>1, <1>3, PageStartsOver
<1>5. PageOK(Listing(0), view[b], [due[b] EXCEPT ![e.asset] = e.revision],
             Tail(inbox[b]), errored[b], heads)
  BY <1>1, <1>3, <1>4, PageTold
<1>6. PICK f, d : /\ PageOK(f, view[b], d, Tail(inbox[b]), errored[b], heads)
                  /\ fetch' = [fetch EXCEPT ![b] = f]
                  /\ due' = [due EXCEPT ![b] = d]
  <2>1. CASE view[b].loaded /\ e.revision > due[b][e.asset]
    <3>1. fetch' = [fetch EXCEPT ![b] = Listing(0)]
      BY <2>1 DEF invalidate, Refetched
    <3>2. due' = [due EXCEPT ![b] = [due[b] EXCEPT ![e.asset] = e.revision]]
      BY <2>1 DEF invalidate, e, FanoutInv
    <3> QED BY <1>5, <3>1, <3>2
  <2>2. CASE ~(view[b].loaded /\ e.revision > due[b][e.asset])
    <3>1. due' = [due EXCEPT ![b] = due[b]]
      BY <2>2 DEF invalidate, e, FanoutInv
    <3>2. fetch' = [fetch EXCEPT ![b] = Listing(0)] \/ fetch' = [fetch EXCEPT ![b] = fetch[b]]
      BY DEF invalidate, Refetched
    <3> QED BY <1>3, <1>4, <3>1, <3>2
  <2> QED BY <2>1, <2>2
<1>7. /\ view' = [view EXCEPT ![b] = view[b]] /\ errored' = [errored EXCEPT ![b] = errored[b]]
      /\ inbox' = [inbox EXCEPT ![b] = Tail(inbox[b])]
      /\ UNCHANGED <<relayVars, resends>>
      /\ stream' \in [Browser -> {"closed", "connected", "subscribed"}]
  BY DEF invalidate, FanoutInv
<1> QED BY <1>6, <1>7, OnePage

(***************************************************************************)
(* The stream's own steps, the focus, and the requests of a fetch.         *)
(***************************************************************************)
LEMMA StreamInv ==
    ASSUME FanoutInv, NEW b \in Browser,
           events(b) \/ Subscribed(b) \/ SubscriptionLost(b) \/ StreamLost(b)
    PROVE  FanoutInv'
<1>1. PageOK(fetch[b], view[b], due[b], inbox[b], errored[b], heads)
  BY DEF FanoutInv, PagesOK
<1>2. PageOK(fetch[b], view[b], due[b], <<>>, errored[b], heads)
  BY <1>1, PageLosesInbox
<1>3. /\ fetch' = [fetch EXCEPT ![b] = fetch[b]] /\ view' = [view EXCEPT ![b] = view[b]]
      /\ due' = [due EXCEPT ![b] = due[b]] /\ errored' = [errored EXCEPT ![b] = errored[b]]
      /\ UNCHANGED <<relayVars, resends>>
      /\ stream' \in [Browser -> {"closed", "connected", "subscribed"}]
  BY DEF FanoutInv, events, Subscribed, SubscriptionLost, StreamLost
<1>4. \/ inbox' = [inbox EXCEPT ![b] = inbox[b]]
      \/ inbox' = [inbox EXCEPT ![b] = <<>>]
  BY DEF FanoutInv, events, Subscribed, SubscriptionLost, StreamLost
<1>5. CASE inbox' = [inbox EXCEPT ![b] = inbox[b]]
  BY <1>1, <1>3, <1>5, OnePage
<1>6. CASE inbox' = [inbox EXCEPT ![b] = <<>>]
  BY <1>2, <1>3, <1>6, OnePage
<1> QED BY <1>4, <1>5, <1>6

LEMMA FetchInv ==
    ASSUME FanoutInv, NEW b \in Browser, Focus(b) \/ Fetching(b) \/ FetchFails(b)
    PROVE  /\ FanoutInv'
           /\ \A a \in Asset : view[b].shown[a] <= view'[b].shown[a]
<1>1. /\ PageOK(fetch[b], view[b], due[b], inbox[b], errored[b], heads)
      /\ heads \in Heads /\ \A a \in Asset : heads[a] = Latest(a)
      /\ 0 \in 0 .. Retries
  BY HeadsType, FanoutAssumption DEF FanoutInv, PagesOK
<1>2. /\ view = [view EXCEPT ![b] = view[b]] /\ due = [due EXCEPT ![b] = due[b]]
      /\ errored = [errored EXCEPT ![b] = errored[b]]
      /\ inbox = [inbox EXCEPT ![b] = inbox[b]]
      /\ stream \in [Browser -> {"closed", "connected", "subscribed"}]
      /\ \A a \in Asset : view[b].shown[a] <= view[b].shown[a]
  BY DEF FanoutInv, View
<1>3. CASE Focus(b)
  <2>1. PageOK(Listing(0), view[b], due[b], inbox[b], errored[b], heads)
    BY <1>1, PageStartsOver
  <2> QED BY <1>2, <1>3, <2>1, OnePage DEF Focus
<1>4. CASE List(b)
  <2>1. DEFINE todo == {a \in Asset : Exists(a)}
  <2>2. \A a \in Asset : a \notin todo => heads[a] = 0
    BY <1>1, LatestType DEF FanoutInv, LogInv
  <2>3. PageOK([fetch[b] EXCEPT !.phase = "reading", !.todo = todo],
               view[b], due[b], inbox[b], errored[b], heads)
    BY <1>1, <2>2, PageLists
  <2>4. fetch' = [fetch EXCEPT ![b] = [fetch[b] EXCEPT !.phase = "reading", !.todo = todo]]
    BY <1>4 DEF List, FanoutInv, FetchRecord
  <2> HIDE DEF todo
  <2> QED BY <1>2, <1>4, <2>3, <2>4, OnePage DEF List
<1>5. ASSUME NEW a \in Asset, Get(b, a)
      PROVE  /\ FanoutInv'
             /\ \A c \in Asset : view[b].shown[c] <= view'[b].shown[c]
  <2>1. fetch[b].phase = "reading"
    BY <1>1, <1>5 DEF Get, PageOK, ReadsFresh
  <2>2. PageOK([fetch[b] EXCEPT !.todo = @ \ {a}, !.got[a] = heads[a]],
               view[b], due[b], inbox[b], errored[b], heads)
    BY <1>1, <2>1, PageReads
  <2>3. fetch' = [fetch EXCEPT ![b] = [fetch[b] EXCEPT !.todo = @ \ {a}, !.got[a] = heads[a]]]
    BY <1>1, <1>5 DEF Get, FanoutInv, FetchRecord
  <2> QED BY <1>2, <1>5, <2>2, <2>3, OnePage DEF Get
<1>6. CASE Show(b)
  <2>1. /\ PageOK(NoFetch, [loaded |-> TRUE, shown |-> fetch[b].got], due[b], inbox[b],
                  FALSE, heads)
        /\ \A a \in Asset : view[b].shown[a] <= fetch[b].got[a]
    BY <1>1, <1>6, PageShows DEF Show
  <2>2. FanoutInv'
    BY <1>2, <1>6, <2>1, OnePage DEF Show
  <2>3. view'[b].shown = fetch[b].got
    BY <1>6 DEF Show, FanoutInv
  <2> QED BY <2>1, <2>2, <2>3
<1>7. CASE FetchFails(b)
  <2>1. CASE fetch[b].tries < Retries
    <3>1. fetch[b].tries + 1 \in 0 .. Retries
      BY <2>1, FanoutAssumption DEF FanoutInv, FetchRecord
    <3>2. PageOK(Listing(fetch[b].tries + 1), view[b], due[b], inbox[b], errored[b], heads)
      BY <1>1, <3>1, PageStartsOver
    <3> QED BY <1>2, <1>7, <2>1, <3>2, OnePage DEF FetchFails
  <2>2. CASE ~(fetch[b].tries < Retries)
    <3>1. PageOK(NoFetch, view[b], due[b], inbox[b], TRUE, heads)
      BY <1>1, PageGivesUp
    <3> QED BY <1>2, <1>7, <2>2, <3>1, OnePage DEF FetchFails
  <2> QED BY <2>1, <2>2
<1> QED BY <1>3, <1>4, <1>5, <1>6, <1>7 DEF Fetching

LEMMA FanoutInitInv == FanoutInit => FanoutInv
<1> SUFFICES ASSUME FanoutInit PROVE FanoutInv
  OBVIOUS
<1>1. LogInv /\ heads \in Heads /\ onRedis = {}
  BY LogInitInv, HeadsType DEF FanoutInit, RelayInit
<1>2. Nothing \in [Asset -> Nat] /\ \A a \in Asset : Nothing[a] = 0
  BY DEF Nothing
<1>3. NoData \in View /\ NoData.shown = Nothing
  BY <1>2 DEF NoData, View
<1>4. 0 \in 0 .. Retries /\ 0 \in 0 .. MaxResends
  BY FanoutAssumption
<1>5. PageOK(Listing(0), NoData, Nothing, <<>>, FALSE, heads)
  BY <1>1, <1>2, <1>3, <1>4, ListingType
     DEF PageOK, PageTypes, NotAhead, ReadsFresh, Quiet, Heads
<1>6. /\ onRedis \subseteq EventId /\ resends \in 0 .. MaxResends
      /\ stream \in [Browser -> {"closed", "connected", "subscribed"}]
      /\ errored \in [Browser -> BOOLEAN]
      /\ inbox \in [Browser -> Seq(EventRow)]
  BY <1>1, <1>4 DEF FanoutInit
<1>7. /\ fetch \in [Browser -> FetchRecord] /\ view \in [Browser -> View]
      /\ due \in [Browser -> [Asset -> Nat]]
  BY <1>2, <1>3, <1>4, ListingType DEF FanoutInit
<1>8. PagesOK
  <2> SUFFICES ASSUME NEW b \in Browser
               PROVE  PageOK(fetch[b], view[b], due[b], inbox[b], errored[b], heads)
    BY DEF PagesOK
  <2>1. /\ fetch[b] = Listing(0) /\ view[b] = NoData /\ due[b] = Nothing
        /\ inbox[b] = <<>> /\ errored[b] = FALSE
    BY DEF FanoutInit
  <2> QED BY <1>5, <2>1
<1> QED BY <1>1, <1>6, <1>7, <1>8 DEF FanoutInv

LEMMA FanoutStepInv == FanoutInv /\ [FanoutNext]_fanoutVars => FanoutInv'
<1> SUFFICES ASSUME FanoutInv, [FanoutNext]_fanoutVars PROVE FanoutInv'
  OBVIOUS
<1>1. CASE LogNext /\ UNCHANGED <<onRedis, resends, browserVars>>
  BY <1>1, LogStep DEF FanoutInv
<1>2. ASSUME NEW e \in outbox_events, PublishFirst(e) \/ PublishAgain(e) PROVE FanoutInv'
  <2>1. resends' \in 0 .. MaxResends
    BY <1>2, FanoutAssumption DEF FanoutInv, PublishFirst, PublishAgain
  <2> QED BY <1>2, <2>1, DeliverInv DEF PublishFirst, PublishAgain
<1>3. ASSUME NEW b \in Browser, PageStep(b)
      PROVE  FanoutInv'
  BY <1>3, StreamInv, InvalidateInv, FetchInv DEF PageStep
<1>4. CASE UNCHANGED fanoutVars
  BY <1>4, LogStep DEF fanoutVars, relayVars, FanoutInv
<1> QED BY <1>1, <1>2, <1>3, <1>4 DEF FanoutNext

LEMMA FanoutInvAlways == FanoutSpec => []FanoutInv
BY FanoutInitInv, FanoutStepInv, PTL DEF FanoutSpec

-----------------------------------------------------------------------------
(***************************************************************************)
(* The streams' and the pages' state keeps its types (server.go:276-301,   *)
(* App.tsx:14-28).                                                         *)
(***************************************************************************)
THEOREM FanoutTypes == FanoutSpec => []FanoutTypeOK
<1>1. FanoutInv => FanoutTypeOK
  BY DEF FanoutInv, LogInv, FanoutTypeOK, View
<1> QED BY <1>1, FanoutInvAlways, PTL

(***************************************************************************)
(* A page at rest shows every revision it was told of, or one after it,    *)
(* whatever is lost, sent twice or retried (App.tsx:14-28).                *)
(***************************************************************************)
THEOREM FanoutQuietShowsDue == FanoutSpec => []QuietShowsDue
<1>1. FanoutInv => QuietShowsDue
  BY DEF FanoutInv, PagesOK, PageOK, Quiet, QuietShowsDue
<1> QED BY <1>1, FanoutInvAlways, PTL

(***************************************************************************)
(* A page never goes back to an older revision (App.tsx:14-28).            *)
(***************************************************************************)
THEOREM FanoutViewForward == FanoutSpec => ViewForward
<1> DEFINE Forward == \A b \in Browser, a \in Asset : view[b].shown[a] <= view'[b].shown[a]
<1>1. FanoutInv /\ [FanoutNext]_fanoutVars => [Forward]_fanoutVars
  <2> SUFFICES ASSUME FanoutInv, FanoutNext, NEW b \in Browser, NEW a \in Asset
               PROVE  view[b].shown[a] <= view'[b].shown[a]
    OBVIOUS
  <2>1. view \in [Browser -> View] /\ view[b].shown[a] \in Nat
    BY DEF FanoutInv, View
  <2>2. CASE UNCHANGED view
    BY <2>1, <2>2
  <2>3. ASSUME NEW c \in Browser, Focus(c) \/ Fetching(c) \/ FetchFails(c)
        PROVE  view[b].shown[a] <= view'[b].shown[a]
    <3>1. CASE c = b
      BY <2>3, <3>1, FetchInv
    <3>2. CASE c # b
      <4>1. view'[b] = view[b]
        BY <2>1, <2>3, <3>2 DEF Focus, Fetching, List, Get, Show, FetchFails
      <4> QED BY <2>1, <4>1
    <3> QED BY <3>1, <3>2
  <2>4. \/ UNCHANGED view
        \/ \E c \in Browser : Focus(c) \/ Fetching(c) \/ FetchFails(c)
    BY DEF FanoutNext, PageStep, browserVars, PublishFirst, PublishAgain, Deliver, events,
       Subscribed, SubscriptionLost, StreamLost, invalidate
  <2> QED BY <2>2, <2>3, <2>4
<1> QED BY <1>1, FanoutInvAlways, PTL DEF FanoutSpec, ViewForward
=============================================================================
