---------------------------- MODULE QueryService ----------------------------
(***************************************************************************)
(* The query service (internal/query/service.go) of one API process, over  *)
(* the slots of the PostgreSQL connector (internal/connector/postgres).    *)
(* Callers that miss the cache share the query in flight for their cache   *)
(* key: the first of them leads and runs it, with its own context and the  *)
(* manifest's timeout; the others wait for what it returns.                *)
(***************************************************************************)
EXTENDS Integers, FiniteSets

CONSTANTS
    Caller,       \* goroutines serving /query/execute
    Question,     \* what a QuerySpec asks for besides its limit
    Limit,        \* limits in requests
    DefaultRows,  \* manifest.Limits
    MaxRows,
    Slots,        \* capacity of the connector's semaphore (10)
    MaxData,      \* bound: changes of the analytics data
    Failure,      \* what a query that ended in an error returns
    None

ASSUME LimitAssumption == Limit \subseteq Int /\ DefaultRows \in Int /\ MaxRows \in Int
ASSUME SlotsAssumption == Slots \in Nat \ {0}
ASSUME CallerAssumption == IsFiniteSet(Caller) /\ None \notin Caller
ASSUME MaxDataAssumption == MaxData \in Nat

VARIABLES
    data,   \* state of the analytics database: counts its changes
    cache,  \* Redis: the result stored under each key
    group,  \* singleflight.Group: the leader of each key's call in flight
    free,   \* free slots of the semaphore
    req     \* what each caller is doing

qvars == <<data, cache, group, free, req>>

-----------------------------------------------------------------------------
(***************************************************************************)
(* Validate fills in and caps the limit.                                   *)
(***************************************************************************)
normalized(limit) ==
    LET filled == IF limit <= 0 THEN DefaultRows ELSE limit IN
    IF filled > MaxRows THEN MaxRows ELSE filled

Key == [question : Question, limit : {normalized(l) : l \in Limit}]

(* Mutant: the key leaves the limit out. *)
CacheKey_NoLimit(question, limit) == [question |-> question, limit |-> MaxRows]

(***************************************************************************)
(* The hash of the normalised spec: requests that differ only in how they  *)
(* spell the limit share it.                                               *)
(***************************************************************************)
CacheKey(question, limit) == [question |-> question, limit |-> normalized(limit)]

(***************************************************************************)
(* What a query returns: the rows of what was asked, as of some state of   *)
(* the data.                                                               *)
(***************************************************************************)
Result == [question : Question, limit : {normalized(l) : l \in Limit}, data : Nat]

(***************************************************************************)
(* over: the context of the caller's query has ended, because its client   *)
(* left or time is up.                                                     *)
(***************************************************************************)
Idle == [step |-> "idle", question |-> None, limit |-> 0, over |-> FALSE,
         since |-> 0, got |-> None]

KeyOf(c) == CacheKey(req[c].question, req[c].limit)

Goto(c, step) == req' = [req EXCEPT ![c].step = step]

QueryInit ==
    /\ data = 0
    /\ cache = [k \in Key |-> None]
    /\ group = [k \in Key |-> None]
    /\ free = Slots
    /\ req = [c \in Caller |-> Idle]

-----------------------------------------------------------------------------
(***************************************************************************)
(* Execute, up to the call it joins.                                       *)
(***************************************************************************)
executeQuery(c, question, limit, refresh) ==
    /\ req[c] = Idle
    /\ req' = [req EXCEPT ![c].step = IF refresh THEN "do" ELSE "cacheGet",
                          ![c].question = question, ![c].limit = limit]
    /\ UNCHANGED <<data, cache, group, free>>

CacheHit(c) ==
    /\ req[c].step = "cacheGet"
    /\ cache[KeyOf(c)] # None
    /\ req' = [req EXCEPT ![c].step = "answered", ![c].got = cache[KeyOf(c)]]
    /\ UNCHANGED <<data, cache, group, free>>

(***************************************************************************)
(* Nothing cached, or Redis does not answer.                               *)
(***************************************************************************)
CacheMiss(c) ==
    /\ req[c].step = "cacheGet"
    /\ Goto(c, "do")
    /\ UNCHANGED <<data, cache, group, free>>

(* Mutant: everyone runs a query of their own. *)
Do_Alone(c) ==
    /\ req[c].step = "do"
    /\ group' = [group EXCEPT ![KeyOf(c)] = c]
    /\ req' = [req EXCEPT ![c].step = "acquire", ![c].since = data]
    /\ UNCHANGED <<data, cache, free>>

(***************************************************************************)
(* group.Do: lead, or wait for the call in flight.  `since` (history) is   *)
(* the state of the data when that call began.                             *)
(***************************************************************************)
Do(c) ==
    /\ req[c].step = "do"
    /\ LET leader == group[KeyOf(c)] IN
         IF leader = None
         THEN /\ group' = [group EXCEPT ![KeyOf(c)] = c]
              /\ req' = [req EXCEPT ![c].step = "acquire", ![c].since = data]
         ELSE /\ req' = [req EXCEPT ![c].step = "wait",
                                    ![c].since = req[leader].since]
              /\ UNCHANGED group
    /\ UNCHANGED <<data, cache, free>>

-----------------------------------------------------------------------------
(***************************************************************************)
(* The leader's function: the connector's Execute, then the cache.         *)
(***************************************************************************)
Acquire(c) ==
    /\ req[c].step = "acquire"
    /\ free > 0
    /\ free' = free - 1
    /\ Goto(c, "query")
    /\ UNCHANGED <<data, cache, group>>

(* Mutant: gives back a slot it did not get. *)
GiveUp_Release(c) ==
    /\ req[c].step = "acquire" /\ req[c].over
    /\ req' = [req EXCEPT ![c].step = "return", ![c].got = Failure]
    /\ free' = free + 1
    /\ UNCHANGED <<data, cache, group>>

(***************************************************************************)
(* The context ends while the leader waits for a slot.                     *)
(***************************************************************************)
GiveUp(c) ==
    /\ req[c].step = "acquire" /\ req[c].over
    /\ req' = [req EXCEPT ![c].step = "return", ![c].got = Failure]
    /\ UNCHANGED <<data, cache, group, free>>

(***************************************************************************)
(* The database takes its snapshot; the rows follow.                       *)
(***************************************************************************)
Snapshot(c) ==
    /\ req[c].step = "query"
    /\ req' = [req EXCEPT ![c].step = "rows",
                          ![c].got = [question |-> req[c].question, data |-> data,
                                      limit |-> normalized(req[c].limit)]]
    /\ UNCHANGED <<data, cache, group, free>>

(* Mutant: forgets the call as soon as the rows are there. *)
RowsEnd_Forget(c) ==
    /\ req[c].step = "rows"
    /\ free' = free + 1
    /\ group' = [group EXCEPT ![KeyOf(c)] = None]
    /\ Goto(c, "cacheSet")
    /\ UNCHANGED <<data, cache>>

RowsEnd(c) ==
    /\ req[c].step = "rows"
    /\ free' = free + 1
    /\ Goto(c, "cacheSet")
    /\ UNCHANGED <<data, cache, group>>

(* Mutant: an early return without the deferred release. *)
QueryFails_KeepsSlot(c) ==
    /\ req[c].step \in {"query", "rows"}
    /\ req' = [req EXCEPT ![c].step = "return", ![c].got = Failure]
    /\ UNCHANGED <<data, cache, group, free>>

QueryFails(c) ==
    /\ req[c].step \in {"query", "rows"}
    /\ free' = free + 1
    /\ req' = [req EXCEPT ![c].step = "return", ![c].got = Failure]
    /\ UNCHANGED <<data, cache, group>>

(***************************************************************************)
(* pgx ends a query whose context has ended.                               *)
(***************************************************************************)
Cancelled(c) == req[c].over /\ QueryFails(c)

CacheSet(c) ==
    /\ req[c].step = "cacheSet"
    /\ cache' = [cache EXCEPT ![KeyOf(c)] = req[c].got]
    /\ Goto(c, "return")
    /\ UNCHANGED <<data, group, free>>

(***************************************************************************)
(* Redis is down, or the client has left: Set uses its context.            *)
(***************************************************************************)
CacheSetFails(c) ==
    /\ req[c].step = "cacheSet"
    /\ Goto(c, "return")
    /\ UNCHANGED <<data, cache, group, free>>

(***************************************************************************)
(* The call ends: the key is free and all who waited get what the leader   *)
(* got, its error included.                                                *)
(***************************************************************************)
Return(c) ==
    /\ req[c].step = "return"
    /\ group' = [group EXCEPT ![KeyOf(c)] = None]
    /\ req' = [d \in Caller |->
                 IF d = c \/ (req[d].step = "wait" /\ KeyOf(d) = KeyOf(c))
                 THEN [req[d] EXCEPT !.step = "answered", !.got = req[c].got]
                 ELSE req[d]]
    /\ UNCHANGED <<data, cache, free>>

Reply(c) ==
    /\ req[c].step = "answered"
    /\ req' = [req EXCEPT ![c] = Idle]
    /\ UNCHANGED <<data, cache, group, free>>

-----------------------------------------------------------------------------
(***************************************************************************)
(* Around it: the clients, the clock, the analytics data and Redis.        *)
(***************************************************************************)
(***************************************************************************)
(* Of no effect on a caller that waits: nobody looks at its context.       *)
(***************************************************************************)
ClientGone(c) ==
    /\ req[c].step \in {"cacheGet", "do", "acquire", "query", "rows"} /\ ~req[c].over
    /\ req' = [req EXCEPT ![c].over = TRUE]
    /\ UNCHANGED <<data, cache, group, free>>

(* Mutant: the timeout covers only the wait for a slot. *)
Timeout_Acquire(c) ==
    /\ req[c].step = "acquire" /\ ~req[c].over
    /\ req' = [req EXCEPT ![c].over = TRUE]
    /\ UNCHANGED <<data, cache, group, free>>

(***************************************************************************)
(* queryCtx times out.                                                     *)
(***************************************************************************)
Timeout(c) ==
    /\ req[c].step \in {"acquire", "query", "rows"} /\ ~req[c].over
    /\ req' = [req EXCEPT ![c].over = TRUE]
    /\ UNCHANGED <<data, cache, group, free>>

DataChange ==
    /\ data < MaxData
    /\ data' = data + 1
    /\ UNCHANGED <<cache, group, free, req>>

(***************************************************************************)
(* The TTL ends, or Redis evicts or loses the entry.                       *)
(***************************************************************************)
Expire(k) ==
    /\ cache[k] # None
    /\ cache' = [cache EXCEPT ![k] = None]
    /\ UNCHANGED <<data, group, free, req>>

(***************************************************************************)
(* Steps that happen once they can; a leader's query may hang.             *)
(***************************************************************************)
Progress(c) ==
    \/ CacheHit(c) \/ CacheMiss(c) \/ Do(c) \/ GiveUp(c) \/ Cancelled(c)
    \/ CacheSet(c) \/ CacheSetFails(c) \/ Return(c) \/ Reply(c)

QueryNext ==
    \/ \E c \in Caller :
         \/ \E question \in Question, limit \in Limit, refresh \in BOOLEAN :
              executeQuery(c, question, limit, refresh)
         \/ Progress(c) \/ Acquire(c) \/ Snapshot(c) \/ RowsEnd(c) \/ QueryFails(c)
         \/ ClientGone(c) \/ Timeout(c)
    \/ DataChange
    \/ \E k \in Key : Expire(k)

QuerySpec == QueryInit /\ [][QueryNext]_qvars

-----------------------------------------------------------------------------
Leading == {"acquire", "query", "rows", "cacheSet", "return"}

RequestRecord ==
    [step : {"idle", "cacheGet", "do", "wait", "answered"} \cup Leading,
     question : Question \cup {None}, limit : Int, over : BOOLEAN,
     since : Nat, got : Result \cup {None, Failure}]

(***************************************************************************)
(* The types of the cache, the calls, the slots and the callers' state;    *)
(* what is cached is never an error.                                       *)
(***************************************************************************)
QueryTypeOK ==
    /\ data \in Nat
    /\ cache \in [Key -> Result \cup {None}]
    /\ group \in [Key -> Caller \cup {None}]
    /\ free \in 0 .. Slots
    /\ req \in [Caller -> RequestRecord]

Running == {c \in Caller : req[c].step \in {"query", "rows"}}

(***************************************************************************)
(* The slots are conserved: whatever ends a query, its slot comes back     *)
(* once, and no more queries run than there are slots (postgres.go:38-43). *)
(***************************************************************************)
SlotsConserved == free + Cardinality(Running) = Slots

(***************************************************************************)
(* At most one query per key runs at a time, and whoever waits, waits for  *)
(* a call that is still to return (service.go:133).                        *)
(***************************************************************************)
CallsShared ==
    /\ \A c \in Caller : req[c].step \in Leading => group[KeyOf(c)] = c
    /\ \A k \in Key : group[k] # None =>
         req[group[k]].step \in Leading /\ KeyOf(group[k]) = k
    /\ \A c \in Caller : req[c].step = "wait" => group[KeyOf(c)] # None

(***************************************************************************)
(* Every answer is the one to the caller's own question, with as many rows *)
(* as its own limit allows, whoever ran the query or filled the cache; one *)
(* that took part in a call is no older than that call.                    *)
(***************************************************************************)
AnswersFit ==
    \A c \in Caller : req[c].step = "answered" /\ req[c].got # Failure =>
        /\ req[c].got.question = req[c].question
        /\ req[c].got.limit \in {DefaultRows, MaxRows, req[c].limit}
        /\ req[c].got.limit <= MaxRows
        /\ req[c].limit \in 1 .. MaxRows => req[c].got.limit = req[c].limit
        /\ req[c].since <= req[c].got.data /\ req[c].got.data <= data

(***************************************************************************)
(* The cache never goes from a result to an older one: the store of a      *)
(* result ends before another query of the key begins (service.go:141-145).*)
(***************************************************************************)
CacheForward ==
    [][\A k \in Key : cache[k] # None /\ cache'[k] # None
                        => cache[k].data <= cache'[k].data]_qvars
=============================================================================
