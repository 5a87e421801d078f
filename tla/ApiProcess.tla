----------------------------- MODULE ApiProcess -----------------------------
(***************************************************************************)
(* The life of one API process (cmd/api/main.go) around its query service: *)
(* the checks at start, and the shutdown.  A signal ends the dispatcher at *)
(* once and lets Shutdown wait for the handlers, open event streams        *)
(* included, for ten seconds; then the deferred calls close Redis and the  *)
(* two pools, and a pool waits for the connections it has lent.  Handlers  *)
(* that are still there meet closed clients, until the process is gone.    *)
(***************************************************************************)
EXTENDS QueryService

CONSTANTS
    Stream,  \* connections of /events
    Writer   \* handlers that use the metadata database

VARIABLES
    process,  \* how far main is
    streams,  \* open event streams
    writes    \* handlers that hold a metadata connection

processVars == <<process, streams, writes>>

apiVars == <<qvars, processVars>>

Phase == {"starting", "serving", "draining", "closing", "metadata", "exited"}

Up == process \notin {"starting", "exited"}

ProcessInit ==
    /\ QueryInit
    /\ process = "starting"
    /\ streams = {}
    /\ writes = {}

-----------------------------------------------------------------------------
(***************************************************************************)
(* Only the metadata database must answer at start; a missing variable, a  *)
(* bad manifest or no metadata database ends the process.                  *)
(***************************************************************************)
Start ==
    /\ process = "starting"
    /\ process' \in {"serving", "exited"}
    /\ UNCHANGED <<qvars, streams, writes>>

(***************************************************************************)
(* SIGTERM, SIGINT, or a listener that fails: the context ends.            *)
(***************************************************************************)
Signal ==
    /\ process = "serving"
    /\ process' = "draining"
    /\ UNCHANGED <<qvars, streams, writes>>

(***************************************************************************)
(* Shutdown returns when nothing is served any more.                       *)
(***************************************************************************)
Shutdown ==
    /\ process = "draining"
    /\ streams = {} /\ writes = {} /\ \A c \in Caller : req[c] = Idle
    /\ process' = "closing"
    /\ UNCHANGED <<qvars, streams, writes>>

(* Mutant: Shutdown waits without a deadline. *)
Deadline_None == FALSE /\ UNCHANGED apiVars

(***************************************************************************)
(* ... or after ten seconds; what is served goes on.                       *)
(***************************************************************************)
Deadline ==
    /\ process = "draining"
    /\ process' = "closing"
    /\ UNCHANGED <<qvars, streams, writes>>

(* Mutant: the pool is closed under the queries. *)
AnalyticsClosed_NoWait ==
    /\ process = "closing"
    /\ process' = "metadata"
    /\ UNCHANGED <<qvars, streams, writes>>

(***************************************************************************)
(* analyticsPool.Close waits for the connections of running queries: there *)
(* are as many as slots (mustPool, New), so a query with a slot has one.   *)
(* The status handler's pings, which borrow one for a moment, are left out.*)
(***************************************************************************)
AnalyticsClosed ==
    /\ process = "closing"
    /\ Running = {}
    /\ process' = "metadata"
    /\ UNCHANGED <<qvars, streams, writes>>

(***************************************************************************)
(* So does metadata.Close; then main returns.                              *)
(***************************************************************************)
Exit ==
    /\ process = "metadata"
    /\ writes = {}
    /\ process' = "exited"
    /\ UNCHANGED <<qvars, streams, writes>>

-----------------------------------------------------------------------------
(***************************************************************************)
(* Requests come only while the listener is open.                          *)
(***************************************************************************)
Accept ==
    /\ process = "serving"
    /\ \/ \E c \in Caller, question \in Question, limit \in Limit, refresh \in BOOLEAN :
            executeQuery(c, question, limit, refresh) /\ UNCHANGED processVars
       \/ \E s \in Stream :
            streams' = streams \cup {s} /\ UNCHANGED <<qvars, process, writes>>
       \/ \E w \in Writer :
            writes' = writes \cup {w} /\ UNCHANGED <<qvars, process, streams>>

(***************************************************************************)
(* A stream ends when its client leaves.                                   *)
(***************************************************************************)
StreamEnds(s) ==
    /\ Up /\ s \in streams
    /\ streams' = streams \ {s}
    /\ UNCHANGED <<qvars, process, writes>>

WriteEnds(w) ==
    /\ Up /\ w \in writes
    /\ writes' = writes \ {w}
    /\ UNCHANGED <<qvars, process, streams>>

(***************************************************************************)
(* A pool that is closing lends nothing: the slot is taken and given back. *)
(***************************************************************************)
PoolRefuses(c) ==
    /\ process \in {"closing", "metadata"}
    /\ req[c].step = "acquire" /\ free > 0
    /\ req' = [req EXCEPT ![c].step = "return", ![c].got = Failure]
    /\ UNCHANGED <<data, cache, group, free, processVars>>

(***************************************************************************)
(* The query service's steps: Redis answers and the pool lends until they  *)
(* are closed.                                                             *)
(***************************************************************************)
Serve(c) ==
    /\ Up
    /\ \/ process \in {"serving", "draining"} /\ (CacheHit(c) \/ CacheSet(c) \/ Acquire(c))
       \/ CacheMiss(c) \/ Do(c) \/ GiveUp(c) \/ Snapshot(c) \/ RowsEnd(c) \/ QueryFails(c)
       \/ CacheSetFails(c) \/ Return(c) \/ Reply(c)
       \/ ClientGone(c) \/ Timeout(c)
    /\ UNCHANGED processVars

ProcessNext ==
    \/ Start \/ Signal \/ Shutdown \/ Deadline \/ AnalyticsClosed \/ Exit
    \/ Accept
    \/ \E s \in Stream : StreamEnds(s)
    \/ \E w \in Writer : WriteEnds(w)
    \/ \E c \in Caller : Serve(c) \/ PoolRefuses(c)
    \/ (DataChange \/ \E k \in Key : Expire(k)) /\ UNCHANGED processVars

ProcessSpec == ProcessInit /\ [][ProcessNext]_apiVars

(***************************************************************************)
(* What a caller does once it can, its timeout included; a running query   *)
(* may hang and nothing is asked of the clients.                           *)
(***************************************************************************)
Advance(c) ==
    /\ Up
    /\ CacheMiss(c) \/ Do(c) \/ GiveUp(c) \/ Cancelled(c) \/ CacheSetFails(c)
       \/ Return(c) \/ Reply(c)
    /\ UNCHANGED processVars

TimeUp(c) == Up /\ Timeout(c) /\ UNCHANGED processVars

FairProcessSpec ==
    /\ ProcessSpec
    /\ WF_apiVars(Deadline) /\ WF_apiVars(AnalyticsClosed) /\ WF_apiVars(Exit)
    /\ \A w \in Writer : WF_apiVars(WriteEnds(w))
    /\ \A c \in Caller : WF_apiVars(Advance(c)) /\ WF_apiVars(TimeUp(c))

-----------------------------------------------------------------------------
(***************************************************************************)
(* A process that has exited, or only waits for the metadata pool, leaves  *)
(* no query running in the analytics database, although handlers that      *)
(* Shutdown gave up on go on missing the cache and asking for slots while  *)
(* the pools are closed (main.go:30-34, 62-64).                            *)
(***************************************************************************)
NoQueryLeft == process \in {"metadata", "exited"} => Running = {}

(***************************************************************************)
(* Every caller is answered unless the process ends, also when its client  *)
(* leaves, a leader it waits for goes away, the slots are taken, the       *)
(* database hangs, or Redis and the pools are closed under it.             *)
(***************************************************************************)
CallersAnswered ==
    \A c \in Caller : (req[c] # Idle) ~> (req[c] = Idle \/ process = "exited")

(***************************************************************************)
(* A process that is told to stop does: neither open streams, nor queries  *)
(* that hang, nor callers waiting for each other keep it (main.go:61-65).  *)
(***************************************************************************)
ProcessEnds == (process = "draining") ~> (process = "exited")
=============================================================================
