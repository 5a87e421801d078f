-------------------------- MODULE WorkspaceProofs --------------------------
(***************************************************************************)
(* The workspace is made of its parts: projected on the variables of one   *)
(* component, every step of the whole is a step of that component or none. *)
(* The store's invariant makes its commits steps of the log the other two  *)
(* stand on; the dispatchers' invariant makes what they publish a step of  *)
(* the relay the pages listen to.  So what was proved of each part alone   *)
(* holds from the save to the screens.                                     *)
(***************************************************************************)
EXTENDS Workspace, AssetStoreProofs, DispatcherProofs, EventFanoutProofs

WorkspaceInv == IInv /\ DispatchInv /\ FanoutInv

-----------------------------------------------------------------------------
(***************************************************************************)
(* The five kinds of step, and what each leaves alone.                     *)
(***************************************************************************)
LEMMA WorkspaceSteps ==
    ASSUME [WorkspaceNext]_workspaceVars
    PROVE  \/ StoreStep
           \/ \E p \in Process : FlushStep(p)
           \/ \E p \in Process : \E e \in pending[p] : Announce(p, e)
           \/ \E b \in Browser : PageStep(b) /\ UNCHANGED <<storeVars, dispatchVars>>
           \/ UNCHANGED <<relayVars, storeVars, dispatchVars, resends, browserVars>>
BY DEF WorkspaceNext, workspaceVars

LEMMA PageStepKeepsRelay ==
    ASSUME NEW b \in Browser, PageStep(b)
    PROVE  UNCHANGED <<relayVars, resends>>
BY DEF PageStep, events, Subscribed, SubscriptionLost, StreamLost, invalidate, Focus,
   Fetching, List, Get, Show, FetchFails

LEMMA AnnounceFacts ==
    ASSUME NEW p \in Process, NEW e \in pending[p], Announce(p, e)
    PROVE  /\ Publish(p, e) \/ ReplyLost(p, e)
           /\ UNCHANGED <<logVars, storeVars>>
BY DEF Announce, Publish, ReplyLost

(***************************************************************************)
(* The projections.                                                        *)
(***************************************************************************)
LEMMA StoreProjection ==
    ASSUME [WorkspaceNext]_workspaceVars
    PROVE  [StoreNext]_vars
<1>1. CASE StoreStep
  BY <1>1 DEF StoreStep
<1>2. CASE \E p \in Process : FlushStep(p)
  BY <1>2, PrivateKeepsRelay DEF FlushStep, relayVars, storeVars, vars
<1>3. CASE \E p \in Process : \E e \in pending[p] : Announce(p, e)
  BY <1>3, AnnounceFacts DEF storeVars, vars
<1>4. CASE \E b \in Browser : PageStep(b) /\ UNCHANGED <<storeVars, dispatchVars>>
  BY <1>4, PageStepKeepsRelay DEF relayVars, storeVars, vars
<1>5. CASE UNCHANGED <<relayVars, storeVars, dispatchVars, resends, browserVars>>
  BY <1>5 DEF relayVars, storeVars, vars
<1> QED BY <1>1, <1>2, <1>3, <1>4, <1>5, WorkspaceSteps

LEMMA DispatchProjection ==
    ASSUME IInv, [WorkspaceNext]_workspaceVars
    PROVE  [DispatchNext]_fullVars
<1>1. CASE StoreStep
  <2>1. [LogNext]_logVars
    BY <1>1, StoreStepLog DEF StoreStep
  <2> QED BY <1>1, <2>1 DEF StoreStep, DispatchNext, fullVars, relayVars
<1>2. CASE \E p \in Process : FlushStep(p)
  BY <1>2 DEF FlushStep, DispatchNext
<1>3. CASE \E p \in Process : \E e \in pending[p] : Announce(p, e)
  BY <1>3, AnnounceFacts DEF DispatchNext
<1>4. CASE \E b \in Browser : PageStep(b) /\ UNCHANGED <<storeVars, dispatchVars>>
  BY <1>4, PageStepKeepsRelay DEF fullVars
<1>5. CASE UNCHANGED <<relayVars, storeVars, dispatchVars, resends, browserVars>>
  BY <1>5 DEF fullVars
<1> QED BY <1>1, <1>2, <1>3, <1>4, <1>5, WorkspaceSteps

LEMMA FanoutProjection ==
    ASSUME IInv, DispatchInv, [WorkspaceNext]_workspaceVars
    PROVE  [FanoutNext]_fanoutVars
<1>1. CASE StoreStep
  <2>1. [LogNext]_logVars
    BY <1>1, StoreStepLog DEF StoreStep
  <2> QED BY <1>1, <2>1 DEF StoreStep, FanoutNext, fanoutVars, relayVars
<1>2. CASE \E p \in Process : FlushStep(p)
  BY <1>2, PrivateKeepsRelay DEF FlushStep, fanoutVars
<1>3. ASSUME NEW p \in Process, NEW e \in pending[p], Announce(p, e)
      PROVE  FanoutNext
  <2>1. e \in outbox_events /\ Send(e)
    BY <1>3, AnnounceFacts, PublishSends
  <2>2. PublishFirst(e) \/ PublishAgain(e)
    BY <1>3, <2>1 DEF Announce, PublishFirst, PublishAgain
  <2> QED BY <2>1, <2>2 DEF FanoutNext
<1>4. CASE \E b \in Browser : PageStep(b) /\ UNCHANGED <<storeVars, dispatchVars>>
  BY <1>4 DEF FanoutNext
<1>5. CASE UNCHANGED <<relayVars, storeVars, dispatchVars, resends, browserVars>>
  BY <1>5 DEF fanoutVars
<1> QED BY <1>1, <1>2, <1>3, <1>4, <1>5, WorkspaceSteps

LEMMA WorkspaceInitInv == WorkspaceInit => WorkspaceInv
BY StoreInitInv, DispatchInitInv, FanoutInitInv DEF WorkspaceInit, WorkspaceInv

LEMMA WorkspaceNextInv ==
    WorkspaceInv /\ [WorkspaceNext]_workspaceVars => WorkspaceInv'
BY StoreProjection, DispatchProjection, FanoutProjection,
   StoreNextInv, DispatchNextInv, FanoutStepInv DEF WorkspaceInv

LEMMA WorkspaceInvAlways == WorkspaceSpec => []WorkspaceInv
BY WorkspaceInitInv, WorkspaceNextInv, PTL DEF WorkspaceSpec

-----------------------------------------------------------------------------
(***************************************************************************)
(* Nothing the dispatchers or the pages do gets in the store's way         *)
(* (store.go:70-165).                                                      *)
(***************************************************************************)
THEOREM WorkspaceKeepsStore == WorkspaceSpec => StoreSpec
<1>1. WorkspaceInit => StoreInit
  BY DEF WorkspaceInit
<1> QED BY <1>1, StoreProjection, PTL DEF WorkspaceSpec, StoreSpec

(***************************************************************************)
(* The store is the revision log that the dispatchers drain                *)
(* (store.go:161-165, dispatcher.go:36).                                   *)
(***************************************************************************)
THEOREM WorkspaceKeepsDispatch == WorkspaceSpec => DispatchSpec
<1>1. WorkspaceInit => DispatchInit
  BY DEF WorkspaceInit
<1>2. WorkspaceInv /\ [WorkspaceNext]_workspaceVars => [DispatchNext]_fullVars
  BY DispatchProjection DEF WorkspaceInv
<1> QED BY <1>1, <1>2, WorkspaceInvAlways, PTL DEF WorkspaceSpec, DispatchSpec

(***************************************************************************)
(* The store and the dispatchers are the source the pages' model assumes   *)
(* (dispatcher.go:54-57, server.go:290-300).                               *)
(***************************************************************************)
THEOREM WorkspaceImplementsFanout == WorkspaceSpec => ImplementsFanout
<1>1. WorkspaceInit => FanoutInit
  BY DEF WorkspaceInit
<1>2. WorkspaceInv /\ [WorkspaceNext]_workspaceVars => [FanoutNext]_fanoutVars
  BY FanoutProjection DEF WorkspaceInv
<1> QED BY <1>1, <1>2, WorkspaceInvAlways, PTL
        DEF WorkspaceSpec, FanoutSpec, ImplementsFanout

(***************************************************************************)
(* No screen shows what was not committed, however transactions race, roll *)
(* back or fail (store.go:82, dispatcher.go:36, App.tsx:14).               *)
(***************************************************************************)
THEOREM WorkspaceShowsCommitted == WorkspaceSpec => []PagesShowCommitted
<1>1. WorkspaceInv => PagesShowCommitted
  <2> SUFFICES ASSUME WorkspaceInv, NEW b \in Browser, NEW a \in Asset
               PROVE  /\ view[b].shown[a] <= Latest(a)
                      /\ fetch[b].got[a] <= Latest(a)
                      /\ due[b][a] <= Latest(a)
    BY DEF PagesShowCommitted
  <2>1. NotAhead(fetch[b], view[b], due[b], inbox[b], heads)
    BY DEF WorkspaceInv, FanoutInv, PagesOK, PageOK
  <2>2. heads[a] = Latest(a)
    BY HeadsType DEF WorkspaceInv, IInv
  <2> QED BY <2>1, <2>2 DEF NotAhead
<1> QED BY <1>1, WorkspaceInvAlways, PTL

(***************************************************************************)
(* From a save to the screens: no save is lost, each has its one event, it *)
(* goes out after its predecessors and is marked only then, and a page at  *)
(* rest shows all it was told of and never goes back (store.go:103, 115,   *)
(* dispatcher.go:36-59, App.tsx:14-28).                                    *)
(***************************************************************************)
THEOREM WorkspaceSafe ==
    WorkspaceSpec =>
        /\ [](NoLostUpdate /\ OutboxMirrorsRevisions)
        /\ [](SentInOrder /\ MarkedWasSent)
        /\ []QuietShowsDue
        /\ ViewForward
BY WorkspaceKeepsStore, StoreNoLostUpdate, StoreOutboxMirrors, WorkspaceKeepsDispatch,
   DispatcherSentInOrder, DispatcherMarkedWasSent, WorkspaceImplementsFanout,
   FanoutQuietShowsDue, FanoutViewForward, PTL DEF ImplementsFanout
=============================================================================
