---------------------------- MODULE EventFanout ----------------------------
(***************************************************************************)
(* From Redis to the screens: the event streams of server.go:276-301 and   *)
(* the asset query of App.tsx:14-28 that every message invalidates.  A     *)
(* stream is a Pub/Sub subscriber: it hears what is published while it is  *)
(* subscribed and nothing else.  The two queries (charts and dashboards)   *)
(* are alike and are invalidated together, so one stands for both.         *)
(***************************************************************************)
EXTENDS OutboxRelay, Sequences

CONSTANTS
    Browser,
    Retries,     \* times react-query retries a failed fetch (3 by default)
    MaxResends,  \* bound: messages published more than once
    Faults       \* which of "stream", "redis" and "fetch" may fail

ASSUME FanoutAssumption ==
    Retries \in Nat /\ MaxResends \in Nat /\ Faults \subseteq {"stream", "redis", "fetch"}

VARIABLES
    resends,  \* messages published more than once
    stream,   \* state of each browser's event stream
    inbox,    \* messages on their way to the browser
    fetch,    \* the asset query's fetch in flight
    view,     \* the query's data: the revision shown of each asset, 0 for none
    errored,  \* the query's last fetch failed, retries included
    due       \* history: highest revisions the browser has been told of

browserVars == <<stream, inbox, fetch, view, errored, due>>

fanoutVars == <<relayVars, resends, browserVars>>

Nothing == [a \in Asset |-> 0]

NoData == [loaded |-> FALSE, shown |-> Nothing]

NoFetch == [phase |-> "idle", todo |-> {}, got |-> Nothing, tries |-> 0]

Listing(tries) == [NoFetch EXCEPT !.phase = "listing", !.tries = tries]

(***************************************************************************)
(* A mounted page has started its first fetch and opens its stream.        *)
(***************************************************************************)
FanoutInit ==
    /\ RelayInit
    /\ resends = 0
    /\ stream = [b \in Browser |-> "closed"]
    /\ inbox = [b \in Browser |-> <<>>]
    /\ fetch = [b \in Browser |-> Listing(0)]
    /\ view = [b \in Browser |-> NoData]
    /\ errored = [b \in Browser |-> FALSE]
    /\ due = [b \in Browser |-> Nothing]

-----------------------------------------------------------------------------
(***************************************************************************)
(* The stream.                                                             *)
(***************************************************************************)

Deliver(e) ==
    /\ inbox' = [b \in Browser |->
                   IF stream[b] = "subscribed" THEN Append(inbox[b], e) ELSE inbox[b]]
    /\ UNCHANGED <<stream, fetch, view, errored, due>>

PublishFirst(e) ==
    /\ e.id \notin onRedis
    /\ Send(e)
    /\ Deliver(e)
    /\ UNCHANGED resends

(***************************************************************************)
(* A dispatcher that died, or lost a reply, sends a row a second time.     *)
(***************************************************************************)
PublishAgain(e) ==
    /\ e.id \in onRedis
    /\ resends < MaxResends
    /\ resends' = resends + 1
    /\ Send(e)
    /\ Deliver(e)

(***************************************************************************)
(* The handler writes SUBSCRIBE to Redis and ": connected" to the browser, *)
(* without waiting for Redis to have taken the subscription.               *)
(***************************************************************************)
events(b) ==
    /\ stream[b] = "closed"
    /\ stream' = [stream EXCEPT ![b] = "connected"]
    /\ UNCHANGED <<relayVars, resends, inbox, fetch, view, errored, due>>

Subscribed(b) ==
    /\ stream[b] = "connected"
    /\ stream' = [stream EXCEPT ![b] = "subscribed"]
    /\ UNCHANGED <<relayVars, resends, inbox, fetch, view, errored, due>>

(***************************************************************************)
(* The subscription's connection to Redis is lost; go-redis dials again and*)
(* the stream stays open.                                                  *)
(***************************************************************************)
SubscriptionLost(b) ==
    /\ "redis" \in Faults
    /\ stream[b] = "subscribed"
    /\ stream' = [stream EXCEPT ![b] = "connected"]
    /\ UNCHANGED <<relayVars, resends, inbox, fetch, view, errored, due>>

(***************************************************************************)
(* The API restarts, or the proxy or the network cuts the stream: what was *)
(* on its way is lost, and EventSource connects again.                     *)
(***************************************************************************)
StreamLost(b) ==
    /\ "stream" \in Faults
    /\ stream[b] # "closed"
    /\ stream' = [stream EXCEPT ![b] = "closed"]
    /\ inbox' = [inbox EXCEPT ![b] = <<>>]
    /\ UNCHANGED <<relayVars, resends, fetch, view, errored, due>>

-----------------------------------------------------------------------------
(***************************************************************************)
(* The query.                                                              *)
(***************************************************************************)

(* Mutant: a fetch in flight is joined also when there is data. *)
Refetched_Joined(b) == IF fetch[b].phase = "idle" THEN Listing(0) ELSE fetch[b]

(***************************************************************************)
(* invalidateQueries fetches anew.  A fetch in flight is abandoned for a   *)
(* new one, except the page's first: while there is no data yet react-query*)
(* joins the fetch in flight.                                              *)
(***************************************************************************)
Refetched(b) ==
    IF view[b].loaded \/ fetch[b].phase = "idle" THEN Listing(0) ELSE fetch[b]

(***************************************************************************)
(* The handler of an `asset` message; it does not look at the payload.     *)
(***************************************************************************)
invalidate(b) ==
    /\ inbox[b] # <<>>
    /\ inbox' = [inbox EXCEPT ![b] = Tail(@)]
    /\ fetch' = [fetch EXCEPT ![b] = Refetched(b)]
    /\ LET e == Head(inbox[b]) IN
         due' = IF view[b].loaded /\ e.revision > due[b][e.asset]
                THEN [due EXCEPT ![b][e.asset] = e.revision]
                ELSE due
    /\ UNCHANGED <<relayVars, resends, stream, view, errored>>

(***************************************************************************)
(* The window gets the focus: react-query fetches unless it is fetching.   *)
(***************************************************************************)
Focus(b) ==
    /\ fetch[b].phase = "idle"
    /\ fetch' = [fetch EXCEPT ![b] = Listing(0)]
    /\ UNCHANGED <<relayVars, resends, stream, inbox, view, errored, due>>

List(b) ==
    /\ fetch[b].phase = "listing"
    /\ fetch' = [fetch EXCEPT ![b].phase = "reading",
                              ![b].todo = {a \in Asset : Exists(a)}]
    /\ UNCHANGED <<relayVars, resends, stream, inbox, view, errored, due>>

(* Mutant: reads a revision of the asset that need not be its head. *)
Get_AnyRevision(b, a) ==
    /\ a \in fetch[b].todo
    /\ \E revision \in 1 .. Latest(a) :
         fetch' = [fetch EXCEPT ![b].todo = @ \ {a}, ![b].got[a] = revision]
    /\ UNCHANGED <<relayVars, resends, stream, inbox, view, errored, due>>

(***************************************************************************)
(* The assets of the list are read one by one, in any order.               *)
(***************************************************************************)
Get(b, a) ==
    /\ a \in fetch[b].todo
    /\ fetch' = [fetch EXCEPT ![b].todo = @ \ {a}, ![b].got[a] = Latest(a)]
    /\ UNCHANGED <<relayVars, resends, stream, inbox, view, errored, due>>

Show(b) ==
    /\ fetch[b].phase = "reading" /\ fetch[b].todo = {}
    /\ view' = [view EXCEPT ![b] = [loaded |-> TRUE, shown |-> fetch[b].got]]
    /\ fetch' = [fetch EXCEPT ![b] = NoFetch]
    /\ errored' = [errored EXCEPT ![b] = FALSE]
    /\ UNCHANGED <<relayVars, resends, stream, inbox, due>>

(* Mutant: counts the retries one short. *)
FetchFails_OneMore(b) ==
    /\ "fetch" \in Faults
    /\ fetch[b].phase # "idle"
    /\ IF fetch[b].tries <= Retries
       THEN /\ fetch' = [fetch EXCEPT ![b] = Listing(fetch[b].tries + 1)]
            /\ UNCHANGED errored
       ELSE /\ fetch' = [fetch EXCEPT ![b] = NoFetch]
            /\ errored' = [errored EXCEPT ![b] = TRUE]
    /\ UNCHANGED <<relayVars, resends, stream, inbox, view, due>>

(***************************************************************************)
(* One request of the fetch fails: all of it is retried; in the end the    *)
(* old data stays and the query is in error.                               *)
(***************************************************************************)
FetchFails(b) ==
    /\ "fetch" \in Faults
    /\ fetch[b].phase # "idle"
    /\ IF fetch[b].tries < Retries
       THEN /\ fetch' = [fetch EXCEPT ![b] = Listing(fetch[b].tries + 1)]
            /\ UNCHANGED errored
       ELSE /\ fetch' = [fetch EXCEPT ![b] = NoFetch]
            /\ errored' = [errored EXCEPT ![b] = TRUE]
    /\ UNCHANGED <<relayVars, resends, stream, inbox, view, due>>

-----------------------------------------------------------------------------
Fetching(b) == List(b) \/ (\E a \in Asset : Get(b, a)) \/ Show(b)

PageStep(b) ==
    \/ events(b) \/ Subscribed(b) \/ SubscriptionLost(b) \/ StreamLost(b)
    \/ invalidate(b) \/ Focus(b) \/ Fetching(b) \/ FetchFails(b)

FanoutNext ==
    \/ LogNext /\ UNCHANGED <<onRedis, resends, browserVars>>
    \/ \E e \in outbox_events : PublishFirst(e) \/ PublishAgain(e)
    \/ \E b \in Browser : PageStep(b)

FanoutSpec == FanoutInit /\ [][FanoutNext]_fanoutVars

(***************************************************************************)
(* Requests end, messages that are not lost arrive, EventSource and        *)
(* go-redis keep connecting, and the dispatchers publish every row.        *)
(***************************************************************************)
FanoutFairness ==
    /\ WF_fanoutVars(\E e \in outbox_events : PublishFirst(e))
    /\ \A b \in Browser :
         /\ WF_fanoutVars(events(b)) /\ SF_fanoutVars(Subscribed(b))
         /\ WF_fanoutVars(invalidate(b))
         /\ WF_fanoutVars(Fetching(b))

FairFanoutSpec == FanoutSpec /\ FanoutFairness

-----------------------------------------------------------------------------
FetchRecord == [phase : {"idle", "listing", "reading"}, todo : SUBSET Asset,
                got : [Asset -> Nat], tries : 0 .. Retries]

(***************************************************************************)
(* The types of the streams and of the queries' state.                     *)
(***************************************************************************)
FanoutTypeOK ==
    /\ LogTypeOK
    /\ onRedis \subseteq EventId
    /\ resends \in 0 .. MaxResends
    /\ stream \in [Browser -> {"closed", "connected", "subscribed"}]
    /\ inbox \in [Browser -> Seq(EventRow)]
    /\ fetch \in [Browser -> FetchRecord]
    /\ view \in [Browser -> [loaded : BOOLEAN, shown : [Asset -> Nat]]]
    /\ errored \in [Browser -> BOOLEAN]
    /\ due \in [Browser -> [Asset -> Nat]]

(***************************************************************************)
(* A page at rest shows every revision it was told of, or one after it: no *)
(* interleaving of messages, reads and retries leaves old data behind a    *)
(* message (App.tsx:14-28).                                                *)
(***************************************************************************)
QuietShowsDue ==
    \A b \in Browser : fetch[b].phase = "idle" /\ ~errored[b] =>
        \A a \in Asset : due[b][a] <= view[b].shown[a]

(***************************************************************************)
(* A page never goes back to an older revision, though messages may come   *)
(* twice and fetches overlap with commits.                                 *)
(***************************************************************************)
ViewForward ==
    [][\A b \in Browser, a \in Asset : view[b].shown[a] <= view'[b].shown[a]]_fanoutVars

(***************************************************************************)
(* However often a page falls behind what it was told of, it catches up,   *)
(* with all assets at once, or its fetches failed (App.tsx:24-27).         *)
(***************************************************************************)
DueShown ==
    \A b \in Browser :
        (\E a \in Asset : due[b][a] > view[b].shown[a])
            ~> (errored[b] \/ \A a \in Asset : due[b][a] <= view[b].shown[a])

(***************************************************************************)
(* Two browsers are refreshed over the event stream: every committed       *)
(* revision reaches every open page (docs/architecture/mvp-plan.md:23).    *)
(* The code does not keep this.                                            *)
(***************************************************************************)
BrowsersRefreshed ==
    \A b \in Browser, a \in Asset : \A n \in EventId :
        (\E r \in asset_revisions : r.asset = a /\ r.revision = n)
            ~> (view[b].shown[a] >= n \/ errored[b])
=============================================================================
