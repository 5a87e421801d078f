-------------------------- MODULE DispatcherProofs --------------------------
(***************************************************************************)
(* The dispatchers' safety properties, for every number of processes and   *)
(* any batch limit.  What makes SentInOrder inductive is BatchComplete: a  *)
(* row in a batch comes with every earlier row of its asset, unless Redis  *)
(* has that one already.                                                   *)
(***************************************************************************)
EXTENDS Dispatcher, RevisionLogProofs

EarlierSameAsset(f, e) == f.asset = e.asset /\ f.id < e.id

BatchComplete ==
    \A p \in Process : \A e \in pending[p] : \A f \in outbox_events :
        EarlierSameAsset(f, e) => f \in pending[p] \/ f.id \in onRedis

SentFirst ==
    \A p \in Process : sent[p] =>
        \E e \in pending[p] : IsFirst(e, pending[p]) /\ e.id \in onRedis

DispatchInv ==
    /\ LogInv
    /\ DispatchTypeOK
    /\ MarkedWasSent
    /\ SentInOrder
    /\ BatchComplete
    /\ SentFirst

-----------------------------------------------------------------------------
LEMMA EventFields ==
    ASSUME LogTypeOK, NEW e \in outbox_events
    PROVE  e.id \in Nat /\ e.asset \in Asset /\ e.revision \in Nat
BY MaxEventIdAssumption DEF LogTypeOK, EventRow, EventId

(***************************************************************************)
(* The rows of one asset are in the order of their ids.                    *)
(***************************************************************************)
LEMMA EarlierRevision ==
    ASSUME LogInv, NEW e \in outbox_events, NEW f \in outbox_events,
           f.asset = e.asset
    PROVE  EarlierSameAsset(f, e) <=> f.revision < e.revision
BY DEF LogInv, OutboxOrdered, EarlierSameAsset

LEMMA FirstUnique ==
    ASSUME LogInv, NEW S \in SUBSET outbox_events, NEW e, NEW f,
           IsFirst(e, S), IsFirst(f, S)
    PROVE  e = f
<1>1. e \in outbox_events /\ f \in outbox_events /\ e.id <= f.id /\ f.id <= e.id
  BY DEF IsFirst
<1>2. e.id \in Nat /\ f.id \in Nat /\ LogTypeOK
  BY <1>1, EventFields DEF LogInv
<1>3. e.id = f.id
  BY <1>1, <1>2
<1> QED BY <1>1, <1>3 DEF LogInv, OutboxOrdered

(***************************************************************************)
(* What the store adds to the outbox is later than the asset's other rows. *)
(***************************************************************************)
LEMMA LogAddsLater ==
    ASSUME LogNext
    PROVE  /\ outbox_events \subseteq outbox_events'
           /\ \A e \in outbox_events', f \in outbox_events :
                e \notin outbox_events /\ e.asset = f.asset => f.id < e.id
<1>1. PICK a \in Asset :
        \/ Archive(a)
        \/ \E id \in EventId :
             \/ \E kind \in Kind, slug \in Slug, title \in Title, d \in Document :
                  Create(a, kind, slug, title, d, id)
             \/ \E title \in Title, d \in Document : Update(a, title, d, id)
             \/ \E source \in 0 .. Latest(a) : Restore(a, source, id)
  BY DEF LogNext
<1>2. CASE Archive(a)
  BY <1>2 DEF Archive
<1>3. ASSUME NEW row, NEW d, NEW source, NEW id, AppendRevision(a, row, d, source, id)
      PROVE  /\ outbox_events \subseteq outbox_events'
             /\ \A e \in outbox_events', f \in outbox_events :
                  e \notin outbox_events /\ e.asset = f.asset => f.id < e.id
  BY <1>3 DEF AppendRevision, NewEventId
<1>4. ASSUME NEW id, NEW kind, NEW slug, NEW title, NEW d,
             Create(a, kind, slug, title, d, id)
      PROVE  \E row : AppendRevision(a, row, d, Original, id)
  BY <1>4 DEF Create
<1>5. ASSUME NEW id, NEW title, NEW d, Update(a, title, d, id)
      PROVE  \E row : AppendRevision(a, row, d, Original, id)
  BY <1>5 DEF Update
<1>6. ASSUME NEW id, NEW source, Restore(a, source, id)
      PROVE  \E row, d : AppendRevision(a, row, d, source, id)
  BY <1>6 DEF Restore
<1> QED BY <1>1, <1>2, <1>3, <1>4, <1>5, <1>6

LEMMA DispatchInitInv == DispatchInit => DispatchInv
BY LogInitInv
   DEF DispatchInit, DispatchInv, DispatchTypeOK, MarkedWasSent, SentInOrder,
       BatchComplete, SentFirst, RelayInit, LogInit, LogInv

-----------------------------------------------------------------------------
LEMMA LogStepKeeps ==
    ASSUME DispatchInv, LogNext, UNCHANGED <<onRedis, dispatchVars>>
    PROVE  DispatchInv'
<1>1. LogInv /\ LogInv' /\ LogTypeOK /\ LogTypeOK'
  BY LogNextInv DEF DispatchInv, LogInv
<1>2. /\ outbox_events \subseteq outbox_events'
      /\ \A e \in outbox_events', f \in outbox_events :
           e \notin outbox_events /\ e.asset = f.asset => f.id < e.id
  BY LogAddsLater
<1>3. /\ published' = published /\ pending' = pending
      /\ sent' = sent /\ onRedis' = onRedis
  BY DEF dispatchVars
<1>4. DispatchTypeOK'
  BY <1>1, <1>2, <1>3 DEF DispatchInv, DispatchTypeOK
<1>5. MarkedWasSent'
  BY <1>2, <1>3 DEF DispatchInv, MarkedWasSent
<1>6. SentInOrder'
  <2> SUFFICES ASSUME NEW e \in outbox_events', NEW f \in outbox_events',
                      e.id \in onRedis, f.asset = e.asset, f.revision < e.revision
               PROVE  f.id \in onRedis
    BY <1>3 DEF SentInOrder, Earlier
  <2>1. PICK g \in outbox_events : g.id = e.id
    BY DEF DispatchInv, MarkedWasSent
  <2>2. e \in outbox_events
    BY <1>1, <1>2, <2>1 DEF LogInv, OutboxOrdered
  <2>3. f.id < e.id
    BY <1>1 DEF LogInv, OutboxOrdered
  <2>4. e.id \in Nat /\ f.id \in Nat
    BY <1>1, MaxEventIdAssumption DEF LogTypeOK, EventRow, EventId
  <2>5. f \in outbox_events
    BY <1>2, <2>2, <2>3, <2>4
  <2> QED BY <2>2, <2>5 DEF DispatchInv, SentInOrder, Earlier
<1>7. BatchComplete'
  <2> SUFFICES ASSUME NEW p \in Process, NEW e \in pending[p], NEW f \in outbox_events',
                      EarlierSameAsset(f, e)
               PROVE  f \in pending[p] \/ f.id \in onRedis
    BY <1>3 DEF BatchComplete, EarlierSameAsset
  <2>1. e \in outbox_events
    BY DEF DispatchInv, DispatchTypeOK
  <2>2. e.id \in Nat /\ f.id \in Nat
    BY <1>1, <2>1, MaxEventIdAssumption DEF LogTypeOK, EventRow, EventId
  <2>3. f \in outbox_events
    BY <1>2, <2>1, <2>2 DEF EarlierSameAsset
  <2> QED BY <2>3 DEF DispatchInv, BatchComplete
<1>8. SentFirst'
  BY <1>3 DEF DispatchInv, SentFirst, IsFirst
<1> QED BY <1>1, <1>4, <1>5, <1>6, <1>7, <1>8 DEF DispatchInv

LEMMA FlushKeeps ==
    ASSUME DispatchInv, NEW p \in Process, NEW rows \in SUBSET Unpublished, Flush(p, rows)
    PROVE  DispatchInv'
<1>1. /\ pending' = [pending EXCEPT ![p] = rows]
      /\ UNCHANGED <<relayVars, published, sent>>
      /\ pending[p] = {} /\ rows # {} /\ OrderedById(rows, Unpublished)
  BY DEF Flush
<1>2. /\ LogInv' /\ LogTypeOK' /\ MarkedWasSent' /\ SentInOrder'
  BY <1>1 DEF DispatchInv, LogInv, LogTypeOK, RowsBelowHead, RowsComplete, RowsUnique,
     HeadTitle, NoLostUpdate, RestoreFaithful, OutboxMirrorsRevisions, OutboxOrdered,
     SlugsUnique, MarkedWasSent, SentInOrder, Earlier, Latest, Exists, logVars, relayVars
<1>3. pending \in [Process -> SUBSET outbox_events] /\ rows \subseteq outbox_events
  BY DEF DispatchInv, DispatchTypeOK, Unpublished
<1>4. ~sent[p]
  BY <1>1 DEF DispatchInv, DispatchTypeOK
<1>5. DispatchTypeOK'
  BY <1>1, <1>2, <1>3, <1>4 DEF DispatchInv, DispatchTypeOK, logVars, relayVars
<1>6. BatchComplete'
  <2> SUFFICES ASSUME NEW q \in Process, NEW e \in pending'[q], NEW f \in outbox_events,
                      EarlierSameAsset(f, e)
               PROVE  f \in pending'[q] \/ f.id \in onRedis
    BY <1>1 DEF BatchComplete, EarlierSameAsset, logVars, relayVars
  <2>1. CASE q = p
    <3>1. e \in rows /\ pending'[q] = rows
      BY <1>1, <1>3, <2>1
    <3>2. e.id \in Nat /\ f.id \in Nat
      BY <1>3, <3>1, EventFields DEF DispatchInv, LogInv
    <3>3. f \in rows \/ f \notin Unpublished
      BY <1>1, <3>1, <3>2 DEF OrderedById, EarlierSameAsset
    <3> QED BY <3>1, <3>3 DEF Unpublished, DispatchInv, MarkedWasSent
  <2>2. CASE q # p
    BY <1>1, <1>3, <2>2 DEF DispatchInv, BatchComplete
  <2> QED BY <2>1, <2>2
<1>7. SentFirst'
  BY <1>1, <1>3, <1>4 DEF DispatchInv, SentFirst, DispatchTypeOK, relayVars
<1> QED BY <1>2, <1>5, <1>6, <1>7 DEF DispatchInv

(***************************************************************************)
(* A process leaves the rest of its batch for a later flush; Redis may have*)
(* accepted the first row of it.                                           *)
(***************************************************************************)
LEMMA GiveUpKeeps ==
    ASSUME DispatchInv, NEW p \in Process, NEW ids \in SUBSET EventId,
           UNCHANGED <<logVars, published>>,
           onRedis' = onRedis \cup ids,
           SentInOrder', MarkedWasSent',
           pending' = [pending EXCEPT ![p] = {}],
           sent' = [sent EXCEPT ![p] = FALSE]
    PROVE  DispatchInv'
<1>1. LogInv' /\ LogTypeOK'
  BY DEF DispatchInv, LogInv, LogTypeOK, RowsBelowHead, RowsComplete, RowsUnique,
     HeadTitle, NoLostUpdate, RestoreFaithful, OutboxMirrorsRevisions, OutboxOrdered,
     SlugsUnique, Latest, Exists, logVars, relayVars
<1>2. pending \in [Process -> SUBSET outbox_events] /\ sent \in [Process -> BOOLEAN]
  BY DEF DispatchInv, DispatchTypeOK
<1>3. DispatchTypeOK'
  BY <1>1, <1>2 DEF DispatchInv, DispatchTypeOK, logVars, relayVars
<1>4. BatchComplete'
  BY <1>2 DEF DispatchInv, BatchComplete, EarlierSameAsset, logVars, relayVars
<1>5. SentFirst'
  BY <1>2 DEF DispatchInv, SentFirst, IsFirst
<1> QED BY <1>1, <1>3, <1>4, <1>5 DEF DispatchInv

(***************************************************************************)
(* Redis accepts the first row of a batch: what it has of the row's asset  *)
(* stays free of gaps.                                                     *)
(***************************************************************************)
LEMMA FirstSentInOrder ==
    ASSUME DispatchInv, NEW p \in Process, NEW e, IsFirst(e, pending[p]),
           UNCHANGED <<logVars, published>>,
           onRedis' = onRedis \cup {e.id}
    PROVE  SentInOrder' /\ MarkedWasSent'
<1>1. e \in pending[p] /\ e \in outbox_events
  BY DEF IsFirst, DispatchInv, DispatchTypeOK
<1>2. MarkedWasSent'
  BY <1>1 DEF DispatchInv, MarkedWasSent, logVars, relayVars
<1>3. SentInOrder'
  <2> SUFFICES ASSUME NEW g \in outbox_events, NEW f \in outbox_events,
                      g.id \in onRedis \cup {e.id}, f.asset = g.asset,
                      f.revision < g.revision
               PROVE  f.id \in onRedis \cup {e.id}
    BY DEF SentInOrder, Earlier, logVars, relayVars
  <2>1. CASE g.id \in onRedis
    BY <2>1 DEF DispatchInv, SentInOrder, Earlier
  <2>2. CASE g.id = e.id
    <3>1. g = e
      BY <1>1, <2>2 DEF DispatchInv, LogInv, OutboxOrdered
    <3>2. EarlierSameAsset(f, e)
      BY <1>1, <3>1, EarlierRevision DEF DispatchInv
    <3>3. f \in pending[p] \/ f.id \in onRedis
      BY <1>1, <3>2 DEF DispatchInv, BatchComplete
    <3>4. e.id \in Nat /\ f.id \in Nat
      BY <1>1, EventFields DEF DispatchInv, LogInv
    <3>5. f \notin pending[p]
      BY <3>2, <3>4 DEF IsFirst, EarlierSameAsset
    <3> QED BY <3>3, <3>5
  <2> QED BY <2>1, <2>2
<1> QED BY <1>2, <1>3

LEMMA PublishKeeps ==
    ASSUME DispatchInv, NEW p \in Process, NEW e \in pending[p], Publish(p, e)
    PROVE  DispatchInv'
<1>1. /\ IsFirst(e, pending[p]) /\ onRedis' = onRedis \cup {e.id}
      /\ sent' = [sent EXCEPT ![p] = TRUE]
      /\ UNCHANGED <<logVars, published, pending>>
  BY DEF Publish
<1>2. SentInOrder' /\ MarkedWasSent'
  BY <1>1, FirstSentInOrder
<1>3. LogInv' /\ LogTypeOK'
  BY <1>1 DEF DispatchInv, LogInv, LogTypeOK, RowsBelowHead, RowsComplete, RowsUnique,
     HeadTitle, NoLostUpdate, RestoreFaithful, OutboxMirrorsRevisions, OutboxOrdered,
     SlugsUnique, Latest, Exists, logVars, relayVars
<1>4. pending \in [Process -> SUBSET outbox_events] /\ sent \in [Process -> BOOLEAN]
  BY DEF DispatchInv, DispatchTypeOK
<1>5. e.id \in EventId
  BY <1>4 DEF DispatchInv, LogInv, LogTypeOK, EventRow
<1>6. DispatchTypeOK'
  BY <1>1, <1>3, <1>4, <1>5 DEF DispatchInv, DispatchTypeOK, logVars, relayVars
<1>7. BatchComplete'
  BY <1>1 DEF DispatchInv, BatchComplete, EarlierSameAsset, logVars, relayVars
<1>8. SentFirst'
  BY <1>1, <1>4 DEF DispatchInv, SentFirst, IsFirst
<1> QED BY <1>2, <1>3, <1>6, <1>7, <1>8 DEF DispatchInv

LEMMA ReplyLostKeeps ==
    ASSUME DispatchInv, NEW p \in Process, NEW e \in pending[p], ReplyLost(p, e)
    PROVE  DispatchInv'
<1>1. /\ IsFirst(e, pending[p]) /\ onRedis' = onRedis \cup {e.id} /\ ~sent[p]
      /\ pending' = [pending EXCEPT ![p] = {}]
      /\ UNCHANGED <<logVars, published, sent>>
  BY DEF ReplyLost
<1>2. SentInOrder' /\ MarkedWasSent'
  BY <1>1, FirstSentInOrder
<1>3. {e.id} \in SUBSET EventId
  BY DEF DispatchInv, DispatchTypeOK, LogInv, LogTypeOK, EventRow
<1>4. sent' = [sent EXCEPT ![p] = FALSE]
  BY <1>1 DEF DispatchInv, DispatchTypeOK
<1>5. UNCHANGED <<logVars, published>>
  BY <1>1
<1> QED BY <1>1, <1>2, <1>3, <1>4, <1>5, GiveUpKeeps

(***************************************************************************)
(* Refused and Stop: nothing more has reached Redis.                       *)
(***************************************************************************)
LEMMA LeaveKeeps ==
    ASSUME DispatchInv, NEW p \in Process, Refused(p) \/ Stop(p)
    PROVE  DispatchInv'
<1>1. /\ pending' = [pending EXCEPT ![p] = {}]
      /\ UNCHANGED <<relayVars, published>>
  BY DEF Refused, Stop
<1>2. sent' = [sent EXCEPT ![p] = FALSE]
  BY DEF Refused, Stop, DispatchInv, DispatchTypeOK
<1>3. SentInOrder' /\ MarkedWasSent'
  BY <1>1 DEF DispatchInv, SentInOrder, Earlier, MarkedWasSent, logVars, relayVars
<1>4. onRedis' = onRedis \cup {} /\ {} \in SUBSET EventId
  BY <1>1 DEF relayVars
<1>5. UNCHANGED <<logVars, published>>
  BY <1>1 DEF relayVars
<1> QED BY <1>1, <1>2, <1>3, <1>4, <1>5, GiveUpKeeps

(***************************************************************************)
(* The flush goes on with the row after the first, marked or not.          *)
(***************************************************************************)
LEMMA MarkKeeps ==
    ASSUME DispatchInv, NEW p \in Process, NEW e \in pending[p],
           MarkPublished(p, e) \/ MarkLost(p, e)
    PROVE  DispatchInv'
<1>1. /\ IsFirst(e, pending[p]) /\ sent[p]
      /\ pending' = [pending EXCEPT ![p] = pending[p] \ {e}]
      /\ sent' = [sent EXCEPT ![p] = FALSE]
      /\ UNCHANGED relayVars
      /\ published' \subseteq published \cup {e.id}
  BY DEF MarkPublished, MarkLost
<1>2. LogInv' /\ LogTypeOK'
  BY <1>1 DEF DispatchInv, LogInv, LogTypeOK, RowsBelowHead, RowsComplete, RowsUnique,
     HeadTitle, NoLostUpdate, RestoreFaithful, OutboxMirrorsRevisions, OutboxOrdered,
     SlugsUnique, Latest, Exists, logVars, relayVars
<1>3. pending \in [Process -> SUBSET outbox_events] /\ sent \in [Process -> BOOLEAN]
  BY DEF DispatchInv, DispatchTypeOK
<1>4. e.id \in onRedis
  BY <1>1, <1>3, FirstUnique DEF DispatchInv, SentFirst
<1>5. e.id \in EventId
  BY <1>3 DEF DispatchInv, LogInv, LogTypeOK, EventRow
<1>6. DispatchTypeOK'
  BY <1>1, <1>2, <1>3, <1>5 DEF DispatchInv, DispatchTypeOK, logVars, relayVars
<1>7. MarkedWasSent'
  BY <1>1, <1>4 DEF DispatchInv, MarkedWasSent, logVars, relayVars
<1>8. SentInOrder'
  BY <1>1 DEF DispatchInv, SentInOrder, Earlier, logVars, relayVars
<1>9. BatchComplete'
  <2> SUFFICES ASSUME NEW q \in Process, NEW g \in pending'[q], NEW f \in outbox_events,
                      EarlierSameAsset(f, g)
               PROVE  f \in pending'[q] \/ f.id \in onRedis
    BY <1>1 DEF BatchComplete, EarlierSameAsset, logVars, relayVars
  <2>1. g \in pending[q]
    BY <1>1, <1>3
  <2>2. f \in pending[q] \/ f.id \in onRedis
    BY <2>1 DEF DispatchInv, BatchComplete
  <2> QED BY <1>1, <1>3, <1>4, <2>2
<1>10. SentFirst'
  BY <1>1, <1>3 DEF DispatchInv, SentFirst, IsFirst, relayVars
<1> QED BY <1>2, <1>6, <1>7, <1>8, <1>9, <1>10 DEF DispatchInv

-----------------------------------------------------------------------------
LEMMA DispatchNextInv == DispatchInv /\ [DispatchNext]_fullVars => DispatchInv'
<1> SUFFICES ASSUME DispatchInv, [DispatchNext]_fullVars PROVE DispatchInv'
  OBVIOUS
<1>1. CASE LogNext /\ UNCHANGED <<onRedis, dispatchVars>>
  BY <1>1, LogStepKeeps
<1>2. ASSUME NEW p \in Process, Private(p) PROVE DispatchInv'
  <2>1. CASE FlushAll(p)
    BY <2>1, FlushKeeps DEF FlushAll
  <2>2. CASE FlushCut(p)
    BY <2>2, FlushKeeps DEF FlushCut
  <2>3. CASE Refused(p) \/ Stop(p)
    BY <2>3, LeaveKeeps
  <2>4. CASE \E e \in pending[p] : MarkPublished(p, e) \/ MarkLost(p, e)
    BY <2>4, MarkKeeps
  <2> QED BY <1>2, <2>1, <2>2, <2>3, <2>4 DEF Private
<1>3. ASSUME NEW p \in Process, NEW e \in pending[p], Publish(p, e) \/ ReplyLost(p, e)
      PROVE  DispatchInv'
  BY <1>3, PublishKeeps, ReplyLostKeeps
<1>4. CASE UNCHANGED fullVars
  BY <1>4 DEF fullVars, relayVars, logVars, dispatchVars, DispatchInv, LogInv, LogTypeOK,
     RowsBelowHead, RowsComplete, RowsUnique, HeadTitle, NoLostUpdate, RestoreFaithful,
     OutboxMirrorsRevisions, OutboxOrdered, SlugsUnique, Latest, Exists, DispatchTypeOK,
     MarkedWasSent, SentInOrder, Earlier, BatchComplete, SentFirst, EarlierSameAsset, IsFirst
<1> QED BY <1>1, <1>2, <1>3, <1>4 DEF DispatchNext

LEMMA DispatchInvAlways == DispatchSpec => []DispatchInv
BY DispatchInitInv, DispatchNextInv, PTL DEF DispatchSpec

(***************************************************************************)
(* The dispatchers' state is well typed, and a batch holds committed rows. *)
(***************************************************************************)
THEOREM DispatcherTypeOK == DispatchSpec => []DispatchTypeOK
<1>1. DispatchInv => DispatchTypeOK
  BY DEF DispatchInv
<1> QED BY <1>1, DispatchInvAlways, PTL

(***************************************************************************)
(* No dispatcher marks a row that Redis has not accepted.                  *)
(***************************************************************************)
THEOREM DispatcherMarkedWasSent == DispatchSpec => []MarkedWasSent
<1>1. DispatchInv => MarkedWasSent
  BY DEF DispatchInv
<1> QED BY <1>1, DispatchInvAlways, PTL

(***************************************************************************)
(* However many dispatchers run and whatever they lose, an asset's         *)
(* revisions reach Redis for the first time in their own order.            *)
(***************************************************************************)
THEOREM DispatcherSentInOrder == DispatchSpec => []SentInOrder
<1>1. DispatchInv => SentInOrder
  BY DEF DispatchInv
<1> QED BY <1>1, DispatchInvAlways, PTL

(***************************************************************************)
(* A row Redis accepts comes after the asset's earlier rows, because its   *)
(* batch holds those that are not out (dispatcher.go:36-57).               *)
(***************************************************************************)
LEMMA PublishSends ==
    ASSUME DispatchInv, NEW p \in Process, NEW e \in pending[p],
           Publish(p, e) \/ ReplyLost(p, e)
    PROVE  e \in outbox_events /\ Send(e)
<1>1. /\ IsFirst(e, pending[p]) /\ onRedis' = onRedis \cup {e.id}
      /\ UNCHANGED logVars
  BY DEF Publish, ReplyLost
<1>2. e \in outbox_events
  BY DEF DispatchInv, DispatchTypeOK
<1>3. ASSUME NEW f \in outbox_events, Earlier(f, e) PROVE f.id \in onRedis
  <2>1. EarlierSameAsset(f, e)
    BY <1>2, <1>3, EarlierRevision DEF DispatchInv, Earlier
  <2>2. f \in pending[p] \/ f.id \in onRedis
    BY <1>2, <2>1 DEF DispatchInv, BatchComplete
  <2>3. e.id \in Nat /\ f.id \in Nat
    BY <1>2, EventFields DEF DispatchInv, LogInv
  <2> QED BY <1>1, <2>1, <2>2, <2>3 DEF IsFirst, EarlierSameAsset
<1> QED BY <1>1, <1>2, <1>3 DEF Send

LEMMA PrivateKeepsRelay ==
    ASSUME NEW p \in Process, Private(p)
    PROVE  UNCHANGED relayVars
BY DEF Private, FlushAll, FlushCut, Flush, Refused, MarkPublished, MarkLost, Stop

(***************************************************************************)
(* The dispatchers implement the relay: their private steps stutter, and   *)
(* what they publish the relay may send.                                   *)
(***************************************************************************)
THEOREM DispatcherImplementsRelay == DispatchSpec => ImplementsRelay
<1>1. DispatchInit => RelayInit
  BY DEF DispatchInit
<1>2. DispatchInv /\ [DispatchNext]_fullVars => [RelayNext]_relayVars
  <2> SUFFICES ASSUME DispatchInv, [DispatchNext]_fullVars PROVE [RelayNext]_relayVars
    OBVIOUS
  <2>1. CASE LogNext /\ UNCHANGED <<onRedis, dispatchVars>>
    BY <2>1 DEF RelayNext
  <2>2. CASE \E p \in Process : Private(p)
    BY <2>2, PrivateKeepsRelay
  <2>3. CASE \E p \in Process : \E e \in pending[p] : Publish(p, e) \/ ReplyLost(p, e)
    BY <2>3, PublishSends DEF RelayNext
  <2>4. CASE UNCHANGED fullVars
    BY <2>4 DEF fullVars
  <2> QED BY <2>1, <2>2, <2>3, <2>4 DEF DispatchNext
<1> QED BY <1>1, <1>2, DispatchInvAlways, PTL DEF DispatchSpec, ImplementsRelay, RelaySpec
=============================================================================
