---------------------------- MODULE OutboxRelay ----------------------------
(***************************************************************************)
(* What the outbox dispatchers promise to the listeners on Redis, however  *)
(* many of them run: the rows of the outbox reach Redis at least once, and *)
(* for the first time in the order of their asset's revisions.  Dispatcher *)
(* implements it; EventFanout listens to it.                               *)
(***************************************************************************)
EXTENDS RevisionLog

VARIABLE onRedis  \* ids Redis has accepted at least once

relayVars == <<logVars, onRedis>>

RelayInit == LogInit /\ onRedis = {}

Earlier(f, e) == f.asset = e.asset /\ f.revision < e.revision

Send(e) ==
    /\ \A f \in outbox_events : Earlier(f, e) => f.id \in onRedis
    /\ onRedis' = onRedis \cup {e.id}
    /\ UNCHANGED logVars

RelayNext ==
    \/ LogNext /\ UNCHANGED onRedis
    \/ \E e \in outbox_events : Send(e)

RelaySpec == RelayInit /\ [][RelayNext]_relayVars

(***************************************************************************)
(* Nobody hears of a revision before its predecessors: what Redis has      *)
(* accepted of an asset is always its first revisions, also with two       *)
(* dispatchers, batches cut short and failed marks (dispatcher.go:36-59).  *)
(***************************************************************************)
SentInOrder ==
    \A e, f \in outbox_events : e.id \in onRedis /\ Earlier(f, e) => f.id \in onRedis
=============================================================================
