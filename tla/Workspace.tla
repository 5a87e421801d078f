----------------------------- MODULE Workspace -----------------------------
(***************************************************************************)
(* The write path of flooks from a save to the screens: the handlers of    *)
(* AssetStore fill the outbox, the dispatchers of Dispatcher drain it, and *)
(* the pages of EventFanout hear of it and read the tables again.  The     *)
(* three components share the tables and Redis and nothing else; the store *)
(* stands where the other two assumed a RevisionLog, the dispatchers where *)
(* EventFanout assumed a relay.                                            *)
(*                                                                         *)
(* An API process holds handlers, a dispatcher and the streams of its      *)
(* pages.  When it dies they stop together; the model stops them one by    *)
(* one (Fail, Stop, StreamLost), in every order and with anything between. *)
(***************************************************************************)
EXTENDS AssetStore, Dispatcher, EventFanout

storeVars == <<outbox_events_id_seq, req, tx>>

workspaceVars == <<relayVars, storeVars, dispatchVars, resends, browserVars>>

WorkspaceInit == StoreInit /\ DispatchInit /\ FanoutInit

StoreStep == StoreNext /\ UNCHANGED <<onRedis, dispatchVars, resends, browserVars>>

(***************************************************************************)
(* The steps of a flush that only the database and the process notice.     *)
(***************************************************************************)
FlushStep(p) == Private(p) /\ UNCHANGED <<storeVars, resends, browserVars>>

(***************************************************************************)
(* A dispatcher publishes a row and every subscribed stream gets it.       *)
(* MaxResends bounds how often a row goes out again.                       *)
(***************************************************************************)
Announce(p, e) ==
    /\ Publish(p, e) \/ ReplyLost(p, e)
    /\ Deliver(e)
    /\ IF e.id \in onRedis
       THEN resends < MaxResends /\ resends' = resends + 1
       ELSE UNCHANGED resends
    /\ UNCHANGED storeVars

WorkspaceNext ==
    \/ StoreStep
    \/ \E p \in Process : FlushStep(p) \/ \E e \in pending[p] : Announce(p, e)
    \/ \E b \in Browser : PageStep(b) /\ UNCHANGED <<storeVars, dispatchVars>>

WorkspaceSpec == WorkspaceInit /\ [][WorkspaceNext]_workspaceVars

-----------------------------------------------------------------------------
(***************************************************************************)
(* No page shows, has read or is told of a revision that is not committed: *)
(* an id drawn, a row inserted or an event written by a transaction that   *)
(* rolls back never gets to a screen (store.go:82, 163, dispatcher.go:36,  *)
(* App.tsx:14).                                                            *)
(***************************************************************************)
PagesShowCommitted ==
    \A b \in Browser, a \in Asset :
        /\ view[b].shown[a] <= Latest(a)
        /\ fetch[b].got[a] <= Latest(a)
        /\ due[b][a] <= Latest(a)

(***************************************************************************)
(* The store and the dispatchers together are the source of messages that  *)
(* EventFanout assumes: whatever they race or lose, the pages cannot tell  *)
(* them from a revision log whose rows go out in each asset's order.       *)
(***************************************************************************)
ImplementsFanout == FanoutSpec
=============================================================================
