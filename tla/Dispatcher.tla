----------------------------- MODULE Dispatcher -----------------------------
(***************************************************************************)
(* The outbox dispatchers (internal/events/dispatcher.go), one per running *)
(* API process.  Two run at once while the API is restarted or replicated, *)
(* and nothing keeps them from reading the same rows.  The outbox they     *)
(* drain is the one RevisionLog fills.  Together they implement            *)
(* OutboxRelay.                                                            *)
(***************************************************************************)
EXTENDS OutboxRelay, FiniteSets

CONSTANTS
    Process,     \* API processes, each with a dispatcher
    BatchLimit   \* rows one flush reads at most (100 in the code)

ASSUME BatchLimitAssumption == BatchLimit \in Nat \ {0}

VARIABLES
    published,  \* ids of the rows whose published_at is set
    pending,    \* rows each process's flush has read and not dealt with yet
    sent        \* the process has published its first pending row, not marked it

dispatchVars == <<published, pending, sent>>

fullVars == <<relayVars, dispatchVars>>

DispatchInit ==
    /\ RelayInit
    /\ published = {}
    /\ pending = [p \in Process |-> {}]
    /\ sent = [p \in Process |-> FALSE]

(* Mutant: remembers the last id it published instead of each row. *)
Unpublished_AfterCursor == {e \in outbox_events : \A id \in published : id < e.id}

Unpublished == {e \in outbox_events : e.id \notin published}

(* Mutant: without ORDER BY. *)
OrderedById_AnyOrder(rows, S) == rows \subseteq S

(***************************************************************************)
(* ORDER BY id: rows is what has been read of S when reading stops.        *)
(***************************************************************************)
OrderedById(rows, S) ==
    rows \subseteq S /\ \A e \in rows, f \in S \ rows : e.id < f.id

IsFirst(e, S) == e \in S /\ \A f \in S : e.id <= f.id

-----------------------------------------------------------------------------
(* Mutant: the statement that reads the rows marks them as well. *)
Flush_Claims(p, rows) ==
    /\ pending[p] = {}
    /\ rows # {}
    /\ OrderedById(rows, Unpublished)
    /\ Cardinality(rows) <= BatchLimit
    /\ pending' = [pending EXCEPT ![p] = rows]
    /\ published' = published \cup {e.id : e \in rows}
    /\ UNCHANGED <<relayVars, sent>>

(***************************************************************************)
(* A tick's flush reads the unpublished rows, at most BatchLimit of them.  *)
(***************************************************************************)
Flush(p, rows) ==
    /\ pending[p] = {}
    /\ rows # {}
    /\ OrderedById(rows, Unpublished)
    /\ Cardinality(rows) <= BatchLimit
    /\ pending' = [pending EXCEPT ![p] = rows]
    /\ UNCHANGED <<relayVars, published, sent>>

(***************************************************************************)
(* flush does not look at rows.Err: a connection lost while it reads, or a *)
(* failing Scan, which ends the reading, leaves it with the first rows; it *)
(* goes on to publish them.                                                *)
(***************************************************************************)
FlushCut(p) ==
    \E rows \in SUBSET Unpublished : rows # Unpublished /\ Flush(p, rows)

FlushAll(p) ==
    \E rows \in SUBSET Unpublished :
        /\ rows = Unpublished \/ Cardinality(rows) = BatchLimit
        /\ Flush(p, rows)

(* Mutant: gives the row up after the first error and goes on. *)
Refused_NextRow(p) ==
    \E e \in pending[p] :
        /\ ~sent[p] /\ IsFirst(e, pending[p])
        /\ pending' = [pending EXCEPT ![p] = @ \ {e}]
        /\ UNCHANGED <<relayVars, published, sent>>

(***************************************************************************)
(* Redis is down: the flush returns, the rows wait for the next tick.      *)
(***************************************************************************)
Refused(p) ==
    /\ pending[p] # {} /\ ~sent[p]
    /\ pending' = [pending EXCEPT ![p] = {}]
    /\ UNCHANGED <<relayVars, published, sent>>

Publish(p, e) ==
    /\ IsFirst(e, pending[p]) /\ ~sent[p]
    /\ onRedis' = onRedis \cup {e.id}
    /\ sent' = [sent EXCEPT ![p] = TRUE]
    /\ UNCHANGED <<logVars, published, pending>>

(***************************************************************************)
(* Redis took the message but the reply was lost: an error to flush.       *)
(***************************************************************************)
ReplyLost(p, e) ==
    /\ IsFirst(e, pending[p]) /\ ~sent[p]
    /\ onRedis' = onRedis \cup {e.id}
    /\ pending' = [pending EXCEPT ![p] = {}]
    /\ UNCHANGED <<logVars, published, sent>>

MarkPublished(p, e) ==
    /\ IsFirst(e, pending[p]) /\ sent[p]
    /\ published' = published \cup {e.id}
    /\ pending' = [pending EXCEPT ![p] = @ \ {e}]
    /\ sent' = [sent EXCEPT ![p] = FALSE]
    /\ UNCHANGED relayVars

(* Mutant: returns in the middle and takes the row for sent next time. *)
MarkLost_Returns(p, e) ==
    /\ IsFirst(e, pending[p]) /\ sent[p]
    /\ pending' = [pending EXCEPT ![p] = {}]
    /\ UNCHANGED <<relayVars, published, sent>>

(***************************************************************************)
(* The error of the UPDATE is dropped: the row stays unpublished and the   *)
(* flush goes on with the next one.                                        *)
(***************************************************************************)
MarkLost(p, e) ==
    /\ IsFirst(e, pending[p]) /\ sent[p]
    /\ pending' = [pending EXCEPT ![p] = @ \ {e}]
    /\ sent' = [sent EXCEPT ![p] = FALSE]
    /\ UNCHANGED <<relayVars, published>>

(***************************************************************************)
(* The process dies, or is told to stop, between two steps of a flush.     *)
(***************************************************************************)
Stop(p) ==
    /\ pending[p] # {}
    /\ pending' = [pending EXCEPT ![p] = {}]
    /\ sent' = [sent EXCEPT ![p] = FALSE]
    /\ UNCHANGED <<relayVars, published>>

-----------------------------------------------------------------------------
Private(p) ==
    \/ FlushAll(p)
    \/ FlushCut(p)
    \/ Refused(p)
    \/ \E e \in pending[p] : MarkPublished(p, e) \/ MarkLost(p, e)
    \/ Stop(p)

DispatchNext ==
    \/ LogNext /\ UNCHANGED <<onRedis, dispatchVars>>
    \/ \E p \in Process :
         Private(p) \/ \E e \in pending[p] : Publish(p, e) \/ ReplyLost(p, e)

DispatchSpec == DispatchInit /\ [][DispatchNext]_fullVars

(***************************************************************************)
(* The ticker keeps flushing; Redis and the database come back often enough*)
(* to accept a message and an UPDATE of every process again and again.     *)
(***************************************************************************)
DispatchFairness ==
    \A p \in Process :
        /\ SF_fullVars(FlushAll(p))
        /\ SF_fullVars(\E e \in pending[p] : Publish(p, e))
        /\ SF_fullVars(\E e \in pending[p] : MarkPublished(p, e))

FairDispatchSpec == DispatchSpec /\ DispatchFairness

-----------------------------------------------------------------------------
(***************************************************************************)
(* The types of the dispatchers' state; a batch holds committed rows only, *)
(* and a process that has published a row of its batch still has the row.  *)
(***************************************************************************)
DispatchTypeOK ==
    /\ LogTypeOK
    /\ published \subseteq EventId
    /\ pending \in [Process -> SUBSET outbox_events]
    /\ sent \in [Process -> BOOLEAN]
    /\ \A p \in Process : sent[p] => pending[p] # {}
    /\ onRedis \subseteq EventId

(***************************************************************************)
(* No row is marked published that Redis never accepted, whichever process *)
(* dies or loses a reply between the two (dispatcher.go:55-58), and Redis  *)
(* has only heard of committed rows.                                       *)
(***************************************************************************)
MarkedWasSent ==
    /\ published \subseteq onRedis
    /\ onRedis \subseteq {e.id : e \in outbox_events}

(***************************************************************************)
(* The dispatchers implement the relay: whatever interleaving of flushes,  *)
(* failures and restarts, the first message of a revision goes out after   *)
(* those of its predecessors, and only for committed rows.                 *)
(***************************************************************************)
ImplementsRelay == RelaySpec

(***************************************************************************)
(* Every committed event is published in the end: the outbox retries what  *)
(* a Redis outage stopped (docs/architecture/overview.md:14).              *)
(***************************************************************************)
EventuallyPublished ==
    \A id \in EventId :
        (\E e \in outbox_events : e.id = id) ~> (id \in published)
=============================================================================
