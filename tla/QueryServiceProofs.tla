------------------------- MODULE QueryServiceProofs -------------------------
(***************************************************************************)
(* The query service's safety properties, for every number of callers and  *)
(* slots, any limits and any changes of the data.  What a caller gets fits *)
(* its question (GotFits) because the leader it waits for shares its key,  *)
(* and is no older than the call (SinceCall); the cache cannot go backward *)
(* because whoever leads a call began it after the cached result was       *)
(* computed (CacheBehind).                                                 *)
(*                                                                         *)
(* The last part carries the promises over to ApiProcess: every step of a  *)
(* process that is being stopped is one of the query service or leaves it  *)
(* alone, but for a pool that refuses; so its invariants hold with one step*)
(* more, and no query outlives the closing of the pool.                    *)
(***************************************************************************)
EXTENDS ApiProcess, FiniteSetTheorems, TLAPS

Types ==
    /\ data \in Nat
    /\ cache \in [Key -> Result \cup {None}]
    /\ group \in [Key -> Caller \cup {None}]
    /\ req \in [Caller -> RequestRecord]

Asked == \A c \in Caller : req[c].step # "idle" =>
    req[c].question \in Question /\ req[c].limit \in Limit

Fits(c, result) ==
    /\ result \in Result
    /\ result.question = req[c].question
    /\ result.limit = normalized(req[c].limit)
    /\ req[c].since <= result.data /\ result.data <= data

GotFits == \A c \in Caller :
    /\ req[c].step \in {"rows", "cacheSet"} => Fits(c, req[c].got)
    /\ req[c].step \in {"return", "answered"} /\ req[c].got # Failure
         => Fits(c, req[c].got)

SinceCall == \A c \in Caller :
    /\ req[c].since <= data
    /\ req[c].step = "cacheGet" => req[c].since = 0
    /\ req[c].step = "wait" => req[c].since = req[group[KeyOf(c)]].since

CacheFits == \A k \in Key : cache[k] # None =>
    /\ cache[k].question = k.question /\ cache[k].limit = k.limit
    /\ cache[k].data <= data

CacheBehind == \A c \in Caller :
    req[c].step \in {"acquire", "query", "rows", "cacheSet"} /\ cache[KeyOf(c)] # None
      => cache[KeyOf(c)].data <= req[c].since

CallsInv ==
    /\ Types
    /\ Asked
    /\ CallsShared
    /\ GotFits
    /\ SinceCall
    /\ CacheFits
    /\ CacheBehind

-----------------------------------------------------------------------------
(* A caller that is at work has a key. *)
LEMMA KeyOfType ==
    ASSUME Asked, NEW c \in Caller, req[c].step # "idle"
    PROVE  KeyOf(c) \in Key
BY DEF Asked, KeyOf, CacheKey, Key

(* The types of a caller's fields. *)
LEMMA CallerFields ==
    ASSUME Types, NEW c \in Caller
    PROVE  /\ req[c] \in RequestRecord
           /\ req[c].since \in Nat
           /\ req[c].got \in Result \cup {None, Failure}
BY DEF Types, RequestRecord

(***************************************************************************)
(* What a step of one caller does to the callers.                          *)
(***************************************************************************)
LEMMA OneMoves ==
    ASSUME Types, NEW c \in Caller, NEW r \in RequestRecord, req' = [req EXCEPT ![c] = r]
    PROVE  /\ req' \in [Caller -> RequestRecord]
           /\ req'[c] = r
           /\ \A d \in Caller \ {c} : req'[d] = req[d]
BY DEF Types

(***************************************************************************)
(* A caller that goes on without joining, leading or ending a call.        *)
(***************************************************************************)
GoesOn(c, r) ==
    /\ r \in RequestRecord
    /\ req' = [req EXCEPT ![c] = r]
    /\ UNCHANGED <<data, group>>
    /\ r.question = req[c].question /\ r.limit = req[c].limit /\ r.since = req[c].since
    /\ r.step \in Leading <=> req[c].step \in Leading
    /\ r.step # "wait" /\ req[c].step # "wait" /\ req[c].step # "idle"
    /\ r.step = "cacheGet" => req[c].step = "cacheGet"

LEMMA GoesOnKeeps ==
    ASSUME CallsInv, NEW c \in Caller, NEW r, GoesOn(c, r)
    PROVE  /\ req' \in [Caller -> RequestRecord]
           /\ req'[c] = r
           /\ \A d \in Caller \ {c} : req'[d] = req[d]
           /\ \A d \in Caller : KeyOf(d)' = KeyOf(d)
           /\ Asked' /\ CallsShared' /\ SinceCall'
<1>1. /\ req' \in [Caller -> RequestRecord]
      /\ req'[c] = r
      /\ \A d \in Caller \ {c} : req'[d] = req[d]
  BY OneMoves DEF GoesOn, CallsInv
<1>2. \A d \in Caller : /\ req'[d].question = req[d].question
                        /\ req'[d].limit = req[d].limit
                        /\ req'[d].since = req[d].since
  BY <1>1 DEF GoesOn
<1>3. \A d \in Caller : KeyOf(d)' = KeyOf(d)
  BY <1>2 DEF KeyOf, CacheKey
<1>4. Asked'
  BY <1>1, <1>2 DEF GoesOn, CallsInv, Asked
<1>5. CallsShared'
  BY <1>1, <1>3, KeyOfType, CallerAssumption
     DEF GoesOn, CallsInv, CallsShared, Types
<1>6. SinceCall'
  <2>1. ASSUME NEW d \in Caller, req[d].step = "wait"
        PROVE  group[KeyOf(d)] \in Caller
    BY <2>1, KeyOfType DEF CallsInv, CallsShared, Types
  <2> QED BY <1>1, <1>2, <1>3, <2>1 DEF GoesOn, CallsInv, SinceCall
<1> QED BY <1>1, <1>3, <1>4, <1>5, <1>6

(***************************************************************************)
(* If it leaves the cache alone too, only its own result is to be shown to *)
(* fit.                                                                    *)
(***************************************************************************)
LEMMA GoesOnInv ==
    ASSUME CallsInv, NEW c \in Caller, NEW r, GoesOn(c, r), cache' = cache,
           r.step \in {"rows", "cacheSet"} => Fits(c, r.got),
           r.step \in {"return", "answered"} /\ r.got # Failure => Fits(c, r.got),
           r.step \in {"acquire", "query", "rows", "cacheSet"} =>
             req[c].step \in {"acquire", "query", "rows", "cacheSet"}
    PROVE  CallsInv'
<1>1. /\ req' \in [Caller -> RequestRecord]
      /\ req'[c] = r
      /\ \A d \in Caller \ {c} : req'[d] = req[d]
      /\ \A d \in Caller : KeyOf(d)' = KeyOf(d)
      /\ Asked' /\ CallsShared' /\ SinceCall'
  BY GoesOnKeeps
<1>2. Types'
  BY <1>1 DEF GoesOn, CallsInv, Types
<1>3. GotFits'
  BY <1>1 DEF GoesOn, CallsInv, GotFits, Fits
<1>4. CacheFits'
  BY DEF GoesOn, CallsInv, CacheFits
<1>5. CacheBehind'
  BY <1>1 DEF GoesOn, CallsInv, CacheBehind
<1> QED BY <1>1, <1>2, <1>3, <1>4, <1>5 DEF CallsInv

-----------------------------------------------------------------------------
(* The steps between joining a call and its end, one lemma each. *)
LEMMA CacheHitKeeps ==
    ASSUME CallsInv, NEW c \in Caller, CacheHit(c)
    PROVE  CallsInv'
<1> DEFINE r == [req[c] EXCEPT !.step = "answered", !.got = cache[KeyOf(c)]]
<1>1. req[c] \in RequestRecord
  BY CallerFields DEF CallsInv
<1>2. cache[KeyOf(c)] \in Result \cup {None, Failure}
  BY KeyOfType DEF CacheHit, CallsInv, Types
<1>3. /\ r \in RequestRecord
      /\ r.step = "answered" /\ r.got = cache[KeyOf(c)]
      /\ r.question = req[c].question /\ r.limit = req[c].limit
      /\ r.since = req[c].since
  BY <1>1, <1>2 DEF RequestRecord, Leading
<1>4. req' = [req EXCEPT ![c] = r]
  BY <1>1 DEF CacheHit, CallsInv, Types
<1> HIDE DEF r
<1>5. GoesOn(c, r) /\ cache' = cache
  BY <1>3, <1>4 DEF CacheHit, GoesOn, Leading
<1>6. Fits(c, cache[KeyOf(c)])
  <2>1. KeyOf(c) \in Key /\ cache[KeyOf(c)] \in Result
    BY KeyOfType DEF CacheHit, CallsInv, Types
  <2>2. /\ KeyOf(c).question = req[c].question
        /\ KeyOf(c).limit = normalized(req[c].limit)
    BY DEF KeyOf, CacheKey
  <2>3. cache[KeyOf(c)].data \in Nat
    BY <2>1 DEF Result
  <2> QED BY <2>1, <2>2, <2>3 DEF CacheHit, Fits, CallsInv, SinceCall, CacheFits
<1> QED BY <1>3, <1>5, <1>6, GoesOnInv DEF CacheHit

LEMMA CacheMissKeeps ==
    ASSUME CallsInv, NEW c \in Caller, CacheMiss(c)
    PROVE  CallsInv'
<1> DEFINE r == [req[c] EXCEPT !.step = "do"]
<1>1. req[c] \in RequestRecord
  BY CallerFields DEF CallsInv
<1>2. /\ r \in RequestRecord
      /\ r.step = "do" /\ r.got = req[c].got
      /\ r.question = req[c].question /\ r.limit = req[c].limit
      /\ r.since = req[c].since
  BY <1>1 DEF RequestRecord, Leading
<1>3. req' = [req EXCEPT ![c] = r]
  BY <1>1 DEF CacheMiss, Goto, CallsInv, Types
<1> HIDE DEF r
<1>4. GoesOn(c, r) /\ cache' = cache
  BY <1>2, <1>3 DEF CacheMiss, GoesOn, Leading
<1> QED BY <1>2, <1>4, GoesOnInv DEF CacheMiss, CallsInv, GotFits

LEMMA AcquireKeeps ==
    ASSUME CallsInv, NEW c \in Caller, Acquire(c)
    PROVE  CallsInv'
<1> DEFINE r == [req[c] EXCEPT !.step = "query"]
<1>1. req[c] \in RequestRecord
  BY CallerFields DEF CallsInv
<1>2. /\ r \in RequestRecord
      /\ r.step = "query" /\ r.got = req[c].got
      /\ r.question = req[c].question /\ r.limit = req[c].limit
      /\ r.since = req[c].since
  BY <1>1 DEF RequestRecord, Leading
<1>3. req' = [req EXCEPT ![c] = r]
  BY <1>1 DEF Acquire, Goto, CallsInv, Types
<1> HIDE DEF r
<1>4. GoesOn(c, r) /\ cache' = cache
  BY <1>2, <1>3 DEF Acquire, GoesOn, Leading
<1> QED BY <1>2, <1>4, GoesOnInv DEF Acquire, CallsInv, GotFits

LEMMA GiveUpKeeps ==
    ASSUME CallsInv, NEW c \in Caller, GiveUp(c)
    PROVE  CallsInv'
<1> DEFINE r == [req[c] EXCEPT !.step = "return", !.got = Failure]
<1>1. req[c] \in RequestRecord
  BY CallerFields DEF CallsInv
<1>2. Failure \in Result \cup {None, Failure}
  OBVIOUS
<1>3. /\ r \in RequestRecord
      /\ r.step = "return" /\ r.got = Failure
      /\ r.question = req[c].question /\ r.limit = req[c].limit
      /\ r.since = req[c].since
  BY <1>1, <1>2 DEF RequestRecord, Leading
<1>4. req' = [req EXCEPT ![c] = r]
  BY <1>1 DEF GiveUp, CallsInv, Types
<1> HIDE DEF r
<1>5. GoesOn(c, r) /\ cache' = cache
  BY <1>3, <1>4 DEF GiveUp, GoesOn, Leading
<1> QED BY <1>3, <1>5, GoesOnInv DEF GiveUp

LEMMA SnapshotKeeps ==
    ASSUME CallsInv, NEW c \in Caller, Snapshot(c)
    PROVE  CallsInv'
<1> DEFINE result == [question |-> req[c].question, data |-> data,
                      limit |-> normalized(req[c].limit)]
           r == [req[c] EXCEPT !.step = "rows", !.got = result]
<1>1. req[c] \in RequestRecord
  BY CallerFields DEF CallsInv
<1>2. result \in Result \cup {None, Failure}
  BY DEF Snapshot, CallsInv, Types, Asked, Result
<1>3. /\ r \in RequestRecord
      /\ r.step = "rows" /\ r.got = result
      /\ r.question = req[c].question /\ r.limit = req[c].limit
      /\ r.since = req[c].since
  BY <1>1, <1>2 DEF RequestRecord, Leading
<1>4. req' = [req EXCEPT ![c] = r]
  BY <1>1 DEF Snapshot, CallsInv, Types
<1> HIDE DEF r
<1>5. GoesOn(c, r) /\ cache' = cache
  BY <1>3, <1>4 DEF Snapshot, GoesOn, Leading
<1>6. Fits(c, result)
  BY CallerFields DEF Snapshot, CallsInv, Types, Asked, Result, Fits, SinceCall
<1> QED BY <1>3, <1>5, <1>6, GoesOnInv DEF Snapshot

LEMMA RowsEndKeeps ==
    ASSUME CallsInv, NEW c \in Caller, RowsEnd(c)
    PROVE  CallsInv'
<1> DEFINE r == [req[c] EXCEPT !.step = "cacheSet"]
<1>1. req[c] \in RequestRecord
  BY CallerFields DEF CallsInv
<1>2. /\ r \in RequestRecord
      /\ r.step = "cacheSet" /\ r.got = req[c].got
      /\ r.question = req[c].question /\ r.limit = req[c].limit
      /\ r.since = req[c].since
  BY <1>1 DEF RequestRecord, Leading
<1>3. req' = [req EXCEPT ![c] = r]
  BY <1>1 DEF RowsEnd, Goto, CallsInv, Types
<1> HIDE DEF r
<1>4. GoesOn(c, r) /\ cache' = cache
  BY <1>2, <1>3 DEF RowsEnd, GoesOn, Leading
<1> QED BY <1>2, <1>4, GoesOnInv DEF RowsEnd, CallsInv, GotFits

LEMMA QueryFailsKeeps ==
    ASSUME CallsInv, NEW c \in Caller, QueryFails(c)
    PROVE  CallsInv'
<1> DEFINE r == [req[c] EXCEPT !.step = "return", !.got = Failure]
<1>1. req[c] \in RequestRecord
  BY CallerFields DEF CallsInv
<1>2. Failure \in Result \cup {None, Failure}
  OBVIOUS
<1>3. /\ r \in RequestRecord
      /\ r.step = "return" /\ r.got = Failure
      /\ r.question = req[c].question /\ r.limit = req[c].limit
      /\ r.since = req[c].since
  BY <1>1, <1>2 DEF RequestRecord, Leading
<1>4. req' = [req EXCEPT ![c] = r]
  BY <1>1 DEF QueryFails, CallsInv, Types
<1> HIDE DEF r
<1>5. GoesOn(c, r) /\ cache' = cache
  BY <1>3, <1>4 DEF QueryFails, GoesOn, Leading
<1> QED BY <1>3, <1>5, GoesOnInv DEF QueryFails

LEMMA CacheSetFailsKeeps ==
    ASSUME CallsInv, NEW c \in Caller, CacheSetFails(c)
    PROVE  CallsInv'
<1> DEFINE r == [req[c] EXCEPT !.step = "return"]
<1>1. req[c] \in RequestRecord
  BY CallerFields DEF CallsInv
<1>2. /\ r \in RequestRecord
      /\ r.step = "return" /\ r.got = req[c].got
      /\ r.question = req[c].question /\ r.limit = req[c].limit
      /\ r.since = req[c].since
  BY <1>1 DEF RequestRecord, Leading
<1>3. req' = [req EXCEPT ![c] = r]
  BY <1>1 DEF CacheSetFails, Goto, CallsInv, Types
<1> HIDE DEF r
<1>4. GoesOn(c, r) /\ cache' = cache
  BY <1>2, <1>3 DEF CacheSetFails, GoesOn, Leading
<1> QED BY <1>2, <1>4, GoesOnInv DEF CacheSetFails, CallsInv, GotFits

LEMMA ClientGoneKeeps ==
    ASSUME CallsInv, NEW c \in Caller, ClientGone(c)
    PROVE  CallsInv'
<1> DEFINE r == [req[c] EXCEPT !.over = TRUE]
<1>1. req[c] \in RequestRecord
  BY CallerFields DEF CallsInv
<1>2. /\ r \in RequestRecord
      /\ r.step = req[c].step /\ r.got = req[c].got
      /\ r.question = req[c].question /\ r.limit = req[c].limit
      /\ r.since = req[c].since
  BY <1>1 DEF RequestRecord
<1>3. req' = [req EXCEPT ![c] = r]
  BY <1>1 DEF ClientGone, CallsInv, Types
<1> HIDE DEF r
<1>4. GoesOn(c, r) /\ cache' = cache
  BY <1>2, <1>3 DEF ClientGone, GoesOn, Leading
<1> QED BY <1>2, <1>4, GoesOnInv DEF ClientGone, CallsInv, GotFits

LEMMA TimeoutKeeps ==
    ASSUME CallsInv, NEW c \in Caller, Timeout(c)
    PROVE  CallsInv'
<1> DEFINE r == [req[c] EXCEPT !.over = TRUE]
<1>1. req[c] \in RequestRecord
  BY CallerFields DEF CallsInv
<1>2. /\ r \in RequestRecord
      /\ r.step = req[c].step /\ r.got = req[c].got
      /\ r.question = req[c].question /\ r.limit = req[c].limit
      /\ r.since = req[c].since
  BY <1>1 DEF RequestRecord
<1>3. req' = [req EXCEPT ![c] = r]
  BY <1>1 DEF Timeout, CallsInv, Types
<1> HIDE DEF r
<1>4. GoesOn(c, r) /\ cache' = cache
  BY <1>2, <1>3 DEF Timeout, GoesOn, Leading
<1> QED BY <1>2, <1>4, GoesOnInv DEF Timeout, CallsInv, GotFits

-----------------------------------------------------------------------------
(***************************************************************************)
(* The steps that begin, join, store and end calls.                        *)
(***************************************************************************)
LEMMA executeQueryKeeps ==
    ASSUME CallsInv, NEW c \in Caller, NEW question \in Question, NEW limit \in Limit,
           NEW refresh \in BOOLEAN, executeQuery(c, question, limit, refresh)
    PROVE  CallsInv'
<1> DEFINE r == [Idle EXCEPT !.step = IF refresh THEN "do" ELSE "cacheGet",
                             !.question = question, !.limit = limit]
<1>1. req[c] = Idle /\ req[c].step = "idle" /\ limit \in Int
  BY LimitAssumption DEF executeQuery, Idle
<1>2. /\ r \in RequestRecord
      /\ r.step \in {"do", "cacheGet"}
      /\ r.question = question /\ r.limit = limit /\ r.since = 0
  BY <1>1 DEF RequestRecord, Leading, Idle
<1>3. req' = [req EXCEPT ![c] = r]
  BY <1>1 DEF executeQuery, CallsInv, Types
<1> HIDE DEF r
<1>4. /\ req' \in [Caller -> RequestRecord]
      /\ req'[c] = r
      /\ \A d \in Caller \ {c} : req'[d] = req[d]
      /\ UNCHANGED <<data, cache, group>>
  BY <1>2, <1>3, OneMoves DEF executeQuery, CallsInv
<1>5. \A d \in Caller \ {c} : KeyOf(d)' = KeyOf(d)
  BY <1>4 DEF KeyOf, CacheKey
<1>6. Types'
  BY <1>4 DEF CallsInv, Types
<1>7. Asked'
  BY <1>2, <1>4 DEF CallsInv, Asked
<1>8. CallsShared'
  <2>1. \A k \in Key : group[k] # None => group[k] \in Caller \ {c}
    BY <1>1 DEF CallsInv, CallsShared, Types, Leading
  <2> QED BY <1>2, <1>4, <1>5, <2>1 DEF CallsInv, CallsShared, Leading
<1>9. GotFits'
  BY <1>2, <1>4 DEF CallsInv, GotFits, Fits
<1>10. SinceCall'
  <2>1. \A d \in Caller : req[d].step = "wait" =>
          group[KeyOf(d)] \in Caller \ {c}
    BY <1>1, KeyOfType DEF CallsInv, CallsShared, Types, Leading
  <2> QED BY <1>2, <1>4, <1>5, <2>1 DEF CallsInv, SinceCall, Types
<1>11. CacheFits' /\ CacheBehind'
  BY <1>2, <1>4, <1>5 DEF CallsInv, CacheFits, CacheBehind
<1> QED BY <1>6, <1>7, <1>8, <1>9, <1>10, <1>11 DEF CallsInv

LEMMA ReplyKeeps ==
    ASSUME CallsInv, NEW c \in Caller, Reply(c)
    PROVE  CallsInv'
<1>1. Idle \in RequestRecord /\ Idle.step = "idle" /\ Idle.since = 0
  BY DEF Idle, RequestRecord
<1>2. /\ req' \in [Caller -> RequestRecord]
      /\ req'[c] = Idle
      /\ \A d \in Caller \ {c} : req'[d] = req[d]
      /\ UNCHANGED <<data, cache, group>>
  BY <1>1, OneMoves DEF Reply, CallsInv
<1>3. \A d \in Caller \ {c} : KeyOf(d)' = KeyOf(d)
  BY <1>2 DEF KeyOf, CacheKey
<1>4. \A d \in Caller : req[d].step = "wait" => group[KeyOf(d)] \in Caller \ {c}
  BY KeyOfType DEF CallsInv, CallsShared, Types, Leading, Reply
<1>5. Types' /\ Asked'
  BY <1>1, <1>2 DEF CallsInv, Types, Asked
<1>6. CallsShared'
  <2>1. \A k \in Key : group[k] # None => group[k] \in Caller \ {c}
    BY DEF CallsInv, CallsShared, Types, Leading, Reply
  <2> QED BY <1>1, <1>2, <1>3, <2>1 DEF CallsInv, CallsShared, Leading
<1>7. GotFits'
  BY <1>1, <1>2 DEF CallsInv, GotFits, Fits
<1>8. SinceCall'
  BY <1>1, <1>2, <1>3, <1>4 DEF CallsInv, SinceCall, Types
<1>9. CacheFits' /\ CacheBehind'
  BY <1>1, <1>2, <1>3 DEF CallsInv, CacheFits, CacheBehind
<1> QED BY <1>5, <1>6, <1>7, <1>8, <1>9 DEF CallsInv

LEMMA DoKeeps ==
    ASSUME CallsInv, NEW c \in Caller, Do(c)
    PROVE  CallsInv'
<1> DEFINE leader == group[KeyOf(c)]
<1>1. KeyOf(c) \in Key /\ req[c] \in RequestRecord /\ leader \in Caller \cup {None}
  BY KeyOfType, CallerFields DEF Do, CallsInv, Types
<1>2. leader # None => leader \in Caller /\ req[leader].since \in Nat
  BY <1>1, CallerFields DEF CallsInv
<1>3. PICK r \in RequestRecord :
        /\ req' = [req EXCEPT ![c] = r]
        /\ r.question = req[c].question /\ r.limit = req[c].limit
        /\ IF leader = None THEN r.step = "acquire" /\ r.since = data
                            ELSE r.step = "wait" /\ r.since = req[leader].since
  <2>1. CASE leader = None
    <3> DEFINE r == [req[c] EXCEPT !.step = "acquire", !.since = data]
    <3>1. /\ r \in RequestRecord /\ r.step = "acquire" /\ r.since = data
          /\ r.question = req[c].question /\ r.limit = req[c].limit
      BY <1>1 DEF RequestRecord, Leading, CallsInv, Types
    <3>2. req' = [req EXCEPT ![c] = r]
      BY <1>1, <2>1 DEF Do, CallsInv, Types
    <3> HIDE DEF r
    <3> QED BY <2>1, <3>1, <3>2
  <2>2. CASE leader # None
    <3> DEFINE r == [req[c] EXCEPT !.step = "wait", !.since = req[leader].since]
    <3>1. /\ r \in RequestRecord /\ r.step = "wait" /\ r.since = req[leader].since
          /\ r.question = req[c].question /\ r.limit = req[c].limit
      BY <1>1, <1>2, <2>2 DEF RequestRecord, Leading
    <3>2. req' = [req EXCEPT ![c] = r]
      BY <1>1, <2>2 DEF Do, CallsInv, Types
    <3> HIDE DEF r
    <3> QED BY <2>2, <3>1, <3>2
  <2> QED BY <2>1, <2>2
<1>4. /\ req' \in [Caller -> RequestRecord]
      /\ req'[c] = r
      /\ \A d \in Caller \ {c} : req'[d] = req[d]
      /\ data' = data /\ cache' = cache
      /\ group' = IF leader = None THEN [group EXCEPT ![KeyOf(c)] = c] ELSE group
  BY <1>3, OneMoves DEF Do, CallsInv
<1>5. \A d \in Caller : KeyOf(d)' = KeyOf(d)
  BY <1>3, <1>4 DEF KeyOf, CacheKey
<1>6. \A d \in Caller : req[d].step \in Leading \cup {"wait"} =>
        KeyOf(d) \in Key /\ group[KeyOf(d)] \in Caller \ {c} /\ group[KeyOf(d)] # None
  BY KeyOfType, CallerAssumption DEF CallsInv, CallsShared, Types, Leading, Do
<1>7. Types'
  BY <1>1, <1>4 DEF CallsInv, Types
<1>8. Asked'
  BY <1>3, <1>4 DEF CallsInv, Asked, Do
<1>9. CallsShared'
  <2>1. CASE leader = None
    <3>1. \A d \in Caller : req[d].step \in Leading \cup {"wait"} => KeyOf(d) # KeyOf(c)
      BY <1>6, <2>1
    <3> QED BY <1>1, <1>3, <1>4, <1>5, <1>6, <2>1, <3>1
            DEF CallsInv, CallsShared, Types, Leading
  <2>2. CASE leader # None
    <3>1. leader \in Caller \ {c} /\ req[leader].step \in Leading /\ KeyOf(leader) = KeyOf(c)
      BY <1>1, <1>2, <2>2 DEF CallsInv, CallsShared, Do, Leading
    <3> QED BY <1>1, <1>3, <1>4, <1>5, <1>6, <2>2, <3>1
            DEF CallsInv, CallsShared, Types, Leading
  <2> QED BY <2>1, <2>2
<1>10. GotFits'
  BY <1>3, <1>4 DEF CallsInv, GotFits, Fits
<1>11. SinceCall'
  BY <1>1, <1>2, <1>3, <1>4, <1>5, <1>6 DEF CallsInv, SinceCall, Types
<1>12. CacheFits' /\ CacheBehind'
  BY <1>1, <1>3, <1>4, <1>5 DEF CallsInv, CacheFits, CacheBehind
<1> QED BY <1>7, <1>8, <1>9, <1>10, <1>11, <1>12 DEF CallsInv

LEMMA CacheSetKeeps ==
    ASSUME CallsInv, NEW c \in Caller, CacheSet(c)
    PROVE  CallsInv'
<1> DEFINE r == [req[c] EXCEPT !.step = "return"]
<1>1. req[c] \in RequestRecord /\ KeyOf(c) \in Key
  BY KeyOfType, CallerFields DEF CallsInv, CacheSet
<1>2. /\ r \in RequestRecord
      /\ r.step = "return" /\ r.got = req[c].got
      /\ r.question = req[c].question /\ r.limit = req[c].limit
      /\ r.since = req[c].since
  BY <1>1 DEF RequestRecord, Leading
<1>3. req' = [req EXCEPT ![c] = r]
  BY <1>1 DEF CacheSet, Goto, CallsInv, Types
<1> HIDE DEF r
<1>4. GoesOn(c, r) /\ cache' = [cache EXCEPT ![KeyOf(c)] = r.got] /\ Fits(c, r.got)
  BY <1>2, <1>3 DEF CacheSet, GoesOn, Leading, CallsInv, GotFits
<1>5. /\ req' \in [Caller -> RequestRecord]
      /\ req'[c] = r
      /\ \A d \in Caller \ {c} : req'[d] = req[d]
      /\ \A d \in Caller : KeyOf(d)' = KeyOf(d)
      /\ Asked' /\ CallsShared' /\ SinceCall'
  BY <1>4, GoesOnKeeps
<1>6. Types'
  BY <1>1, <1>4, <1>5 DEF GoesOn, CallsInv, Types, Fits
<1>7. GotFits'
  BY <1>4, <1>5 DEF GoesOn, CallsInv, GotFits, Fits
<1>8. CacheFits'
  <2>1. KeyOf(c).question = req[c].question /\ KeyOf(c).limit = normalized(req[c].limit)
    BY DEF KeyOf, CacheKey
  <2> QED BY <1>1, <1>4, <2>1 DEF GoesOn, CallsInv, CacheFits, Fits, Types
<1>9. CacheBehind'
  <2>1. \A d \in Caller \ {c} : req[d].step \in Leading => KeyOf(d) # KeyOf(c)
    BY <1>1 DEF CallsInv, CallsShared, CacheSet, Leading
  <2> QED BY <1>1, <1>2, <1>4, <1>5, <2>1, KeyOfType
          DEF GoesOn, CallsInv, CacheBehind, Types, Leading
<1> QED BY <1>5, <1>6, <1>7, <1>8, <1>9 DEF CallsInv

(***************************************************************************)
(* The call of c ends: all who waited for it share its key and its result. *)
(***************************************************************************)
LEMMA ReturnKeeps ==
    ASSUME CallsInv, NEW c \in Caller, Return(c)
    PROVE  CallsInv'
<1> DEFINE Done == {d \in Caller : d = c \/ (req[d].step = "wait" /\ KeyOf(d) = KeyOf(c))}
<1>1. /\ KeyOf(c) \in Key /\ group[KeyOf(c)] = c
      /\ req[c].got \in Result \cup {None, Failure}
  BY KeyOfType, CallerFields DEF Return, CallsInv, CallsShared, Leading
<1>2. \A d \in Done : /\ req'[d] \in RequestRecord
                      /\ req'[d].step = "answered" /\ req'[d].got = req[c].got
                      /\ req'[d].question = req[d].question
                      /\ req'[d].limit = req[d].limit /\ req'[d].since = req[d].since
  <2> TAKE d \in Done
  <2> DEFINE r == [req[d] EXCEPT !.step = "answered", !.got = req[c].got]
  <2>1. req[d] \in RequestRecord
    BY CallerFields DEF CallsInv
  <2>2. /\ r \in RequestRecord /\ r.step = "answered" /\ r.got = req[c].got
        /\ r.question = req[d].question /\ r.limit = req[d].limit
        /\ r.since = req[d].since
    BY <1>1, <2>1 DEF RequestRecord, Leading
  <2>3. req'[d] = r
    BY DEF Return
  <2> QED BY <2>2, <2>3
<1>3. \A d \in Caller \ Done : req'[d] = req[d]
  BY DEF Return
<1>4. /\ data' = data /\ cache' = cache
      /\ group' = [group EXCEPT ![KeyOf(c)] = None]
  BY DEF Return
<1>5. \A d \in Caller : KeyOf(d)' = KeyOf(d)
  BY <1>2, <1>3 DEF KeyOf, CacheKey
<1>6. \A d \in Caller : req[d] \in RequestRecord
  BY CallerFields DEF CallsInv
<1>7. Types'
  <2>1. req' \in [Caller -> RequestRecord]
    BY <1>2, <1>3, <1>6 DEF Return
  <2> QED BY <1>4, <2>1 DEF CallsInv, Types
<1>8. Asked'
  BY <1>2, <1>3, <1>4 DEF CallsInv, Asked, Return
<1>9. CallsShared'
  <2>1. \A d \in Caller \ Done : req[d].step \in Leading \cup {"wait"} =>
          KeyOf(d) \in Key /\ KeyOf(d) # KeyOf(c)
    BY <1>1, KeyOfType DEF CallsInv, CallsShared, Leading
  <2>2. \A k \in Key : group'[k] # None =>
          group[k] \in Caller \ Done /\ group'[k] = group[k] /\ k # KeyOf(c)
    BY <1>1, <1>4 DEF CallsInv, CallsShared, Types, Leading
  <2> QED BY <1>1, <1>2, <1>3, <1>4, <1>5, <2>1, <2>2
          DEF CallsInv, CallsShared, Types, Leading
<1>10. GotFits'
  <2>1. \A d \in Done : req[c].got # Failure => Fits(d, req[c].got)
    <3> TAKE d \in Done
    <3>1. req[d].since = req[c].since
      BY <1>1 DEF CallsInv, SinceCall
    <3>2. req[d].question = req[c].question /\ normalized(req[d].limit) = normalized(req[c].limit)
      BY DEF KeyOf, CacheKey
    <3> QED BY <3>1, <3>2 DEF CallsInv, GotFits, Fits, Return
  <2> QED BY <1>2, <1>3, <1>4, <2>1 DEF CallsInv, GotFits, Fits
<1>11. SinceCall'
  <2>1. \A d \in Caller \ Done : req[d].step = "wait" =>
          /\ KeyOf(d) \in Key /\ KeyOf(d) # KeyOf(c)
          /\ group[KeyOf(d)] \in Caller
    BY KeyOfType DEF CallsInv, CallsShared, Types
  <2>2. \A d \in Caller : req'[d].since = req[d].since
    BY <1>2, <1>3
  <2> QED BY <1>2, <1>3, <1>4, <1>5, <2>1, <2>2 DEF CallsInv, SinceCall, Types
<1>12. CacheFits' /\ CacheBehind'
  BY <1>2, <1>3, <1>4, <1>5 DEF CallsInv, CacheFits, CacheBehind
<1> QED BY <1>7, <1>8, <1>9, <1>10, <1>11, <1>12 DEF CallsInv

-----------------------------------------------------------------------------
(* Every step keeps the invariant; the data and the cache may change at any time. *)
LEMMA CallsNextInv ==
    ASSUME CallsInv, [QueryNext]_qvars
    PROVE  CallsInv'
<1>1. CASE UNCHANGED qvars
  BY <1>1 DEF qvars, CallsInv, Types, Asked, CallsShared, GotFits, Fits, SinceCall,
     CacheFits, CacheBehind, KeyOf
<1>2. ASSUME NEW c \in Caller, NEW question \in Question, NEW limit \in Limit,
             NEW refresh \in BOOLEAN, executeQuery(c, question, limit, refresh)
      PROVE  CallsInv'
  BY <1>2, executeQueryKeeps
<1>3. ASSUME NEW c \in Caller, Progress(c)
      PROVE  CallsInv'
  BY <1>3, CacheHitKeeps, CacheMissKeeps, DoKeeps, GiveUpKeeps, QueryFailsKeeps,
     CacheSetKeeps, CacheSetFailsKeeps, ReturnKeeps, ReplyKeeps DEF Progress, Cancelled
<1>4. ASSUME NEW c \in Caller,
             Acquire(c) \/ Snapshot(c) \/ RowsEnd(c) \/ QueryFails(c)
               \/ ClientGone(c) \/ Timeout(c)
      PROVE  CallsInv'
  BY <1>4, AcquireKeeps, SnapshotKeeps, RowsEndKeeps, QueryFailsKeeps,
     ClientGoneKeeps, TimeoutKeeps
<1>5. CASE DataChange
  <2>1. /\ data \in Nat /\ data' = data + 1
        /\ UNCHANGED <<cache, group, req>>
    BY <1>5 DEF DataChange, CallsInv, Types
  <2>2. \A d \in Caller : KeyOf(d)' = KeyOf(d)
    BY <2>1 DEF KeyOf
  <2>3. Types' /\ Asked' /\ CallsShared' /\ CacheBehind'
    BY <2>1, <2>2 DEF CallsInv, Types, Asked, CallsShared, CacheBehind
  <2>4. GotFits'
    BY <2>1 DEF CallsInv, GotFits, Fits, Result
  <2>5. SinceCall'
    BY <2>1, <2>2, CallerFields DEF CallsInv, SinceCall
  <2>6. CacheFits'
    <3>1. \A k \in Key : cache[k] # None => cache[k].data \in Nat
      BY DEF CallsInv, Types, Result
    <3> QED BY <2>1, <3>1 DEF CallsInv, CacheFits
  <2> QED BY <2>3, <2>4, <2>5, <2>6 DEF CallsInv
<1>6. ASSUME NEW k \in Key, Expire(k)
      PROVE  CallsInv'
  <2>1. /\ cache' = [cache EXCEPT ![k] = None]
        /\ UNCHANGED <<data, group, req>>
    BY <1>6 DEF Expire
  <2>2. \A d \in Caller : KeyOf(d)' = KeyOf(d)
    BY <2>1 DEF KeyOf
  <2>3. Types' /\ Asked' /\ CallsShared' /\ GotFits' /\ SinceCall'
    BY <2>1, <2>2 DEF CallsInv, Types, Asked, CallsShared, GotFits, Fits, SinceCall
  <2>4. CacheFits' /\ CacheBehind'
    BY <2>1, <2>2, KeyOfType DEF CallsInv, Types, CacheFits, CacheBehind
  <2> QED BY <2>3, <2>4 DEF CallsInv
<1> QED BY <1>1, <1>2, <1>3, <1>4, <1>5, <1>6 DEF QueryNext

LEMMA CallsInitInv == QueryInit => CallsInv
BY CallerAssumption
   DEF QueryInit, CallsInv, Types, Asked, CallsShared, GotFits, SinceCall, CacheFits,
       CacheBehind, Leading, Idle, RequestRecord

(***************************************************************************)
(* Callers share the query in flight for their key, and nobody waits for a *)
(* call that has ended (service.go:133).                                   *)
(***************************************************************************)
THEOREM ServiceCallsShared == QuerySpec => []CallsShared
<1>1. CallsInv => CallsShared
  BY DEF CallsInv
<1> QED BY <1>1, CallsInitInv, CallsNextInv, PTL DEF QuerySpec

(* normalized allows what it returns, and keeps what is allowed. *)
LEMMA NormalizedFits ==
    ASSUME NEW limit \in Limit
    PROVE  /\ normalized(limit) \in {DefaultRows, MaxRows, limit}
           /\ normalized(limit) <= MaxRows
           /\ limit \in 1 .. MaxRows => normalized(limit) = limit
BY LimitAssumption DEF normalized

(***************************************************************************)
(* Every answer is to the caller's own question and limit, and no older    *)
(* than the call it took part in (service.go:115-151).                     *)
(***************************************************************************)
THEOREM ServiceAnswersFit == QuerySpec => []AnswersFit
<1>1. CallsInv => AnswersFit
  BY NormalizedFits DEF CallsInv, GotFits, Fits, Asked, AnswersFit
<1> QED BY <1>1, CallsInitInv, CallsNextInv, PTL DEF QuerySpec

(***************************************************************************)
(* No result in the cache is replaced by an older one (service.go:141-145):*)
(* only its call's leader stores a key's result, and what it stores is as  *)
(* new as the call, which began after what is cached was computed.         *)
(***************************************************************************)
Forward ==
    \A k \in Key : cache[k] # None /\ cache'[k] # None => cache[k].data <= cache'[k].data

LEMMA CacheStays ==
    ASSUME CallsInv, cache' = cache
    PROVE  Forward
BY DEF CallsInv, Types, Result, Forward

LEMMA CacheStepForward ==
    ASSUME CallsInv, [QueryNext]_qvars
    PROVE  Forward
<1>1. \A k \in Key : cache[k] # None => cache[k].data \in Nat
  BY DEF CallsInv, Types, Result
<1>2. ASSUME NEW c \in Caller, CacheSet(c)
      PROVE  Forward
  <2>1. /\ KeyOf(c) \in Key /\ req[c].since \in Nat
        /\ cache' = [cache EXCEPT ![KeyOf(c)] = req[c].got]
        /\ cache[KeyOf(c)] # None => cache[KeyOf(c)].data <= req[c].since
        /\ req[c].got \in Result /\ req[c].since <= req[c].got.data
    BY <1>2, KeyOfType, CallerFields DEF CacheSet, CallsInv, CacheBehind, GotFits, Fits
  <2>2. req[c].got.data \in Nat
    BY <2>1 DEF Result
  <2> QED BY <1>1, <2>1, <2>2 DEF CallsInv, Types, Forward
<1>3. ASSUME NEW k \in Key, Expire(k)
      PROVE  Forward
  BY <1>1, <1>3 DEF Expire, CallsInv, Types, Forward
<1>4. \/ cache' = cache
      \/ \E c \in Caller : CacheSet(c)
      \/ \E k \in Key : Expire(k)
  BY DEF QueryNext, Progress, Cancelled, qvars, executeQuery, CacheHit, CacheMiss,
     Do, Acquire, GiveUp, Snapshot, RowsEnd, QueryFails, CacheSetFails, Return, Reply,
     ClientGone, Timeout, DataChange
<1> QED BY <1>2, <1>3, <1>4, CacheStays

(***************************************************************************)
(* The cache never goes back to an older result.                           *)
(***************************************************************************)
THEOREM ServiceCacheForward == QuerySpec => CacheForward
<1>1. CallsInv /\ [QueryNext]_qvars => [Forward]_qvars
  BY CacheStepForward
<1> QED BY <1>1, CallsInitInv, CallsNextInv, PTL DEF QuerySpec, CacheForward, Forward

-----------------------------------------------------------------------------
(***************************************************************************)
(* The slots: a step that takes or gives one back moves its caller into or *)
(* out of Running, every other step leaves both alone.                     *)
(***************************************************************************)
SlotsInv == free \in 0 .. Slots /\ SlotsConserved

LEMMA SlotsUntouched ==
    ASSUME SlotsInv, free' = free,
           \A c \in Caller : req'[c].step \in {"query", "rows"} <=> req[c].step \in {"query", "rows"}
    PROVE  SlotsInv'
<1>1. Running' = Running
  BY DEF Running
<1> QED BY <1>1 DEF SlotsInv, SlotsConserved

LEMMA SlotTaken ==
    ASSUME SlotsInv, NEW c \in Caller, free > 0, free' = free - 1,
           req[c].step \notin {"query", "rows"}, req'[c].step \in {"query", "rows"},
           \A d \in Caller \ {c} : req'[d] = req[d]
    PROVE  SlotsInv'
<1>1. IsFiniteSet(Running) /\ Cardinality(Running) \in Nat
  BY CallerAssumption, FS_Subset, FS_CardinalityType DEF Running
<1>2. Running' = Running \cup {c} /\ c \notin Running
  BY DEF Running
<1>3. Cardinality(Running') = Cardinality(Running) + 1
  BY <1>1, <1>2, FS_AddElement
<1> QED BY <1>1, <1>3, SlotsAssumption DEF SlotsInv, SlotsConserved

LEMMA SlotReturned ==
    ASSUME SlotsInv, NEW c \in Caller, free' = free + 1,
           req[c].step \in {"query", "rows"}, req'[c].step \notin {"query", "rows"},
           \A d \in Caller \ {c} : req'[d] = req[d]
    PROVE  SlotsInv'
<1>1. IsFiniteSet(Running) /\ Cardinality(Running) \in Nat
  BY CallerAssumption, FS_Subset, FS_CardinalityType DEF Running
<1>2. Running' = Running \ {c} /\ c \in Running
  BY DEF Running
<1>3. IsFiniteSet(Running') /\ Cardinality(Running') = Cardinality(Running) - 1
  BY <1>1, <1>2, FS_RemoveElement
<1>4. Cardinality(Running') \in Nat
  BY <1>3, FS_CardinalityType
<1> QED BY <1>1, <1>3, <1>4, SlotsAssumption DEF SlotsInv, SlotsConserved

(***************************************************************************)
(* Where the step of a caller leaves it.                                   *)
(***************************************************************************)
LEMMA StepAfter ==
    ASSUME Types, NEW c \in Caller, NEW step, NEW got,
           \/ req' = [req EXCEPT ![c].step = step]
           \/ req' = [req EXCEPT ![c].step = step, ![c].got = got]
           \/ req' = [req EXCEPT ![c].step = step, ![c].since = got]
    PROVE  req'[c].step = step /\ \A d \in Caller \ {c} : req'[d] = req[d]
BY DEF Types, RequestRecord

LEMMA SlotsNextInv ==
    ASSUME CallsInv, SlotsInv, [QueryNext]_qvars
    PROVE  SlotsInv'
<1>0. Types
  BY DEF CallsInv
<1>1. ASSUME NEW c \in Caller, Acquire(c)
      PROVE  SlotsInv'
  BY <1>0, <1>1, StepAfter, SlotTaken DEF Acquire, Goto
<1>2. ASSUME NEW c \in Caller, RowsEnd(c)
      PROVE  SlotsInv'
  <2>1. req'[c].step = "cacheSet" /\ \A d \in Caller \ {c} : req'[d] = req[d]
    BY <1>0, <1>2, StepAfter DEF RowsEnd, Goto
  <2> QED BY <1>2, <2>1, SlotReturned DEF RowsEnd
<1>3. ASSUME NEW c \in Caller, QueryFails(c)
      PROVE  SlotsInv'
  <2>1. req'[c].step = "return" /\ \A d \in Caller \ {c} : req'[d] = req[d]
    BY <1>0, <1>3, StepAfter DEF QueryFails
  <2> QED BY <1>3, <2>1, SlotReturned DEF QueryFails
<1>4. ASSUME NEW c \in Caller, CacheMiss(c) \/ CacheSet(c) \/ CacheSetFails(c)
      PROVE  SlotsInv'
  <2>1. req[c].step \in {"cacheGet", "cacheSet"} /\ req'[c].step \in {"do", "return"}
        /\ \A d \in Caller \ {c} : req'[d] = req[d]
    BY <1>0, <1>4, StepAfter DEF CacheMiss, CacheSet, CacheSetFails, Goto
  <2> QED BY <1>4, <2>1, SlotsUntouched DEF CacheMiss, CacheSet, CacheSetFails
<1>5. ASSUME NEW c \in Caller, CacheHit(c) \/ GiveUp(c) \/ Snapshot(c) \/ Do(c)
      PROVE  SlotsInv'
  <2>1. CASE CacheHit(c)
    <3>1. req'[c].step = "answered" /\ \A d \in Caller \ {c} : req'[d] = req[d]
      BY <1>0, <2>1, StepAfter DEF CacheHit
    <3> QED BY <2>1, <3>1, SlotsUntouched DEF CacheHit
  <2>2. CASE GiveUp(c)
    <3>1. req'[c].step = "return" /\ \A d \in Caller \ {c} : req'[d] = req[d]
      BY <1>0, <2>2, StepAfter DEF GiveUp
    <3> QED BY <2>2, <3>1, SlotsUntouched DEF GiveUp
  <2>3. CASE Snapshot(c)
    <3>1. req'[c].step = "rows" /\ \A d \in Caller \ {c} : req'[d] = req[d]
      BY <1>0, <2>3, StepAfter DEF Snapshot
    <3> QED BY <2>3, <3>1, SlotsUntouched DEF Snapshot
  <2>4. CASE Do(c)
    <3>1. req'[c].step \in {"acquire", "wait"} /\ \A d \in Caller \ {c} : req'[d] = req[d]
      BY <1>0, <2>4, StepAfter DEF Do
    <3> QED BY <2>4, <3>1, SlotsUntouched DEF Do
  <2> QED BY <1>5, <2>1, <2>2, <2>3, <2>4
<1>6. ASSUME NEW c \in Caller, Return(c)
      PROVE  SlotsInv'
  BY <1>0, <1>6, SlotsUntouched DEF Return, Types, RequestRecord
<1>7. ASSUME NEW c \in Caller, Reply(c)
      PROVE  SlotsInv'
  BY <1>0, <1>7, SlotsUntouched DEF Reply, Types, Idle
<1>8. ASSUME NEW c \in Caller, ClientGone(c) \/ Timeout(c)
      PROVE  SlotsInv'
  BY <1>0, <1>8, SlotsUntouched DEF ClientGone, Timeout, Types, RequestRecord
<1>9. ASSUME NEW c \in Caller, NEW question \in Question, NEW limit \in Limit,
             NEW refresh \in BOOLEAN, executeQuery(c, question, limit, refresh)
      PROVE  SlotsInv'
  <2>1. req'[c].step \in {"do", "cacheGet"} /\ req[c].step = "idle"
        /\ \A d \in Caller \ {c} : req'[d] = req[d]
    BY <1>0, <1>9 DEF executeQuery, Types, RequestRecord, Idle
  <2> QED BY <1>9, <2>1, SlotsUntouched DEF executeQuery
<1>10. CASE UNCHANGED <<free, req>>
  BY <1>10, SlotsUntouched
<1> QED BY <1>1, <1>2, <1>3, <1>4, <1>5, <1>6, <1>7, <1>8, <1>9, <1>10
        DEF QueryNext, Progress, Cancelled, DataChange, Expire, qvars

LEMMA SlotsInitInv == QueryInit => SlotsInv
<1> SUFFICES ASSUME QueryInit PROVE SlotsInv
  OBVIOUS
<1>1. Running = {}
  BY DEF QueryInit, Running, Idle
<1> QED BY <1>1, FS_EmptySet, SlotsAssumption DEF QueryInit, SlotsInv, SlotsConserved

(***************************************************************************)
(* Every way out of the connector gives its slot back (postgres.go:39-75). *)
(***************************************************************************)
THEOREM ServiceSlotsConserved == QuerySpec => []SlotsConserved
<1>1. CallsInv /\ SlotsInv => SlotsConserved
  BY DEF SlotsInv
<1> QED BY <1>1, CallsInitInv, CallsNextInv, SlotsInitInv, SlotsNextInv, PTL
        DEF QuerySpec

(***************************************************************************)
(* The cache, the calls, the slots and the callers keep their types.       *)
(***************************************************************************)
THEOREM ServiceTypeOK == QuerySpec => []QueryTypeOK
<1>1. CallsInv /\ SlotsInv => QueryTypeOK
  BY DEF CallsInv, Types, SlotsInv, QueryTypeOK
<1> QED BY <1>1, CallsInitInv, CallsNextInv, SlotsInitInv, SlotsNextInv, PTL
        DEF QuerySpec

-----------------------------------------------------------------------------
ProcessInv ==
    /\ CallsInv
    /\ SlotsInv
    /\ process \in {"starting", "metadata", "exited"} => Running = {}

LEMMA PoolRefusesKeeps ==
    ASSUME CallsInv, SlotsInv, NEW c \in Caller, PoolRefuses(c)
    PROVE  CallsInv' /\ SlotsInv' /\ Running' = Running
<1> DEFINE r == [req[c] EXCEPT !.step = "return", !.got = Failure]
<1>1. req[c] \in RequestRecord
  BY CallerFields DEF CallsInv
<1>2. Failure \in Result \cup {None, Failure}
  OBVIOUS
<1>3. /\ r \in RequestRecord
      /\ r.step = "return" /\ r.got = Failure
      /\ r.question = req[c].question /\ r.limit = req[c].limit
      /\ r.since = req[c].since
  BY <1>1, <1>2 DEF RequestRecord, Leading
<1>4. req' = [req EXCEPT ![c] = r]
  BY <1>1 DEF PoolRefuses, CallsInv, Types
<1> HIDE DEF r
<1>5. GoesOn(c, r) /\ cache' = cache
  BY <1>3, <1>4 DEF PoolRefuses, GoesOn, Leading
<1>6. CallsInv'
  BY <1>3, <1>5, GoesOnInv DEF PoolRefuses
<1>7. req'[c].step = "return" /\ \A d \in Caller \ {c} : req'[d] = req[d]
  BY <1>3, <1>4 DEF CallsInv, Types
<1>8. Running' = Running
  BY <1>7 DEF Running, PoolRefuses
<1>9. SlotsInv'
  BY <1>8 DEF SlotsInv, SlotsConserved, PoolRefuses
<1> QED BY <1>6, <1>8, <1>9

(***************************************************************************)
(* Only Acquire, which needs a pool that lends, starts a query.            *)
(***************************************************************************)
NoAcquire ==
    \/ \E c \in Caller :
         \/ \E question \in Question, limit \in Limit, refresh \in BOOLEAN :
              executeQuery(c, question, limit, refresh)
         \/ Progress(c) \/ Snapshot(c) \/ RowsEnd(c) \/ QueryFails(c)
         \/ ClientGone(c) \/ Timeout(c)
    \/ DataChange
    \/ \E k \in Key : Expire(k)
    \/ UNCHANGED qvars

LEMMA OnlyAcquireStarts ==
    ASSUME CallsInv, NoAcquire, Running = {}
    PROVE  Running' = {}
<1>1. /\ req \in [Caller -> RequestRecord]
      /\ \A c \in Caller : req[c].step \notin {"query", "rows"}
  BY DEF CallsInv, Types, Running
<1> SUFFICES ASSUME NEW d \in Caller PROVE req'[d].step \notin {"query", "rows"}
  BY DEF Running
<1>2. CASE UNCHANGED req
  BY <1>1, <1>2
<1>3. ASSUME NEW c \in Caller, NEW question \in Question, NEW limit \in Limit,
             NEW refresh \in BOOLEAN, executeQuery(c, question, limit, refresh)
      PROVE  req'[d].step \notin {"query", "rows"}
  BY <1>1, <1>3 DEF executeQuery, RequestRecord
<1>4. ASSUME NEW c \in Caller,
             CacheHit(c) \/ CacheMiss(c) \/ Do(c) \/ GiveUp(c) \/ CacheSet(c) \/ CacheSetFails(c)
      PROVE  req'[d].step \notin {"query", "rows"}
  BY <1>1, <1>4 DEF CacheHit, CacheMiss, Do, GiveUp, CacheSet, CacheSetFails, Goto,
     RequestRecord
<1>5. ASSUME NEW c \in Caller, Return(c)
      PROVE  req'[d].step \notin {"query", "rows"}
  BY <1>1, <1>5 DEF Return, RequestRecord
<1>8. ASSUME NEW c \in Caller, Reply(c)
      PROVE  req'[d].step \notin {"query", "rows"}
  BY <1>1, <1>8 DEF Reply, Idle
<1>6. ASSUME NEW c \in Caller, ClientGone(c) \/ Timeout(c)
      PROVE  req'[d].step \notin {"query", "rows"}
  BY <1>1, <1>6 DEF ClientGone, Timeout, RequestRecord
<1>7. ASSUME NEW c \in Caller, Snapshot(c) \/ RowsEnd(c) \/ QueryFails(c)
      PROVE  FALSE
  BY <1>1, <1>7 DEF Snapshot, RowsEnd, QueryFails
<1> QED BY <1>2, <1>3, <1>4, <1>5, <1>6, <1>7, <1>8
        DEF NoAcquire, Progress, Cancelled, DataChange, Expire, qvars

(***************************************************************************)
(* A step of the process itself leaves the service alone, and enters the   *)
(* last two phases only when no query runs.                                *)
(***************************************************************************)
MainStep ==
    /\ UNCHANGED qvars
    /\ process' \in {"starting", "metadata", "exited"} =>
         process \in {"starting", "metadata", "exited"} \/ Running = {}

ServiceStep ==
    /\ UNCHANGED process
    /\ \/ NoAcquire
       \/ process \in {"serving", "draining"} /\ \E c \in Caller : Acquire(c)

LEMMA ProcessSteps ==
    ASSUME [ProcessNext]_apiVars
    PROVE  MainStep \/ ServiceStep \/ \E c \in Caller : PoolRefuses(c)
<1>1. CASE Start \/ Signal \/ Shutdown \/ Deadline \/ AnalyticsClosed \/ Exit
  BY <1>1 DEF MainStep, Start, Signal, Shutdown, Deadline, AnalyticsClosed, Exit, qvars
<1>2. CASE \/ \E s \in Stream : StreamEnds(s)
           \/ \E w \in Writer : WriteEnds(w)
  BY <1>2 DEF MainStep, StreamEnds, WriteEnds, Up
<1>3. CASE Accept
  BY <1>3 DEF Accept, MainStep, ServiceStep, NoAcquire, processVars
<1>4. ASSUME NEW c \in Caller, Serve(c) PROVE ServiceStep
  BY <1>4 DEF Serve, ServiceStep, NoAcquire, Progress, processVars
<1>5. CASE (DataChange \/ \E k \in Key : Expire(k)) /\ UNCHANGED processVars
  BY <1>5 DEF ServiceStep, NoAcquire, processVars
<1>6. CASE UNCHANGED apiVars
  BY <1>6 DEF MainStep, apiVars, processVars
<1> QED BY <1>1, <1>2, <1>3, <1>4, <1>5, <1>6 DEF ProcessNext

LEMMA ProcessStepInv ==
    ASSUME ProcessInv, [ProcessNext]_apiVars
    PROVE  ProcessInv'
<1>1. CASE \E c \in Caller : PoolRefuses(c)
  BY <1>1, PoolRefusesKeeps DEF ProcessInv, PoolRefuses, processVars
<1>2. CASE ServiceStep
  <2>1. [QueryNext]_qvars
    BY <1>2 DEF ServiceStep, NoAcquire, QueryNext
  <2>2. CallsInv' /\ SlotsInv'
    BY <2>1, CallsNextInv, SlotsNextInv DEF ProcessInv
  <2>3. process \in {"starting", "metadata", "exited"} => Running' = {}
    BY <1>2, OnlyAcquireStarts DEF ProcessInv, ServiceStep
  <2> QED BY <1>2, <2>2, <2>3 DEF ProcessInv, ServiceStep
<1>3. CASE MainStep
  <2>1. CallsInv' /\ SlotsInv'
    BY <1>3, CallsNextInv, SlotsNextInv DEF ProcessInv, MainStep
  <2>2. Running' = Running
    BY <1>3 DEF MainStep, qvars, Running
  <2> QED BY <1>3, <2>1, <2>2 DEF ProcessInv, MainStep
<1> QED BY <1>1, <1>2, <1>3, ProcessSteps

LEMMA ProcessInitInv == ProcessInit => ProcessInv
<1> SUFFICES ASSUME ProcessInit PROVE ProcessInv
  OBVIOUS
<1>1. CallsInv /\ SlotsInv
  BY CallsInitInv, SlotsInitInv DEF ProcessInit
<1>2. Running = {}
  BY DEF ProcessInit, QueryInit, Running, Idle
<1> QED BY <1>1, <1>2 DEF ProcessInv

LEMMA ProcessInvAlways == ProcessSpec => []ProcessInv
BY ProcessInitInv, ProcessStepInv, PTL DEF ProcessSpec

-----------------------------------------------------------------------------
(***************************************************************************)
(* No query is left behind by a process that has closed the analytics pool *)
(* or exited, whatever its handlers still do (main.go:30-34, 62-64).       *)
(***************************************************************************)
THEOREM ProcessLeavesNoQuery == ProcessSpec => []NoQueryLeft
<1>1. ProcessInv => NoQueryLeft
  BY DEF ProcessInv, NoQueryLeft
<1> QED BY <1>1, ProcessInvAlways, PTL

(***************************************************************************)
(* A stop takes none of the query service's promises back: slots return,   *)
(* calls are shared and answers fit while the pools are closed under it    *)
(* (main.go:29-34, postgres.go:39-44).                                     *)
(***************************************************************************)
THEOREM ProcessKeepsService ==
    ProcessSpec => [](SlotsConserved /\ CallsShared /\ AnswersFit)
<1>1. ProcessInv => SlotsConserved /\ CallsShared /\ AnswersFit
  BY NormalizedFits DEF ProcessInv, SlotsInv, CallsInv, GotFits, Fits, Asked, AnswersFit
<1> QED BY <1>1, ProcessInvAlways, PTL

(***************************************************************************)
(* Nor does a stop bring an older result back into the cache: handlers that*)
(* outlive Shutdown store what they have before Redis is closed, or not at *)
(* all (main.go:61-65, service.go:141-145).                                *)
(***************************************************************************)
THEOREM ProcessCacheForward == ProcessSpec => CacheForward
<1>1. ProcessInv /\ [ProcessNext]_apiVars => [Forward]_qvars
  <2> SUFFICES ASSUME ProcessInv, [ProcessNext]_apiVars PROVE Forward
    OBVIOUS
  <2>1. CASE MainStep \/ \E c \in Caller : PoolRefuses(c)
    BY <2>1, CacheStays DEF ProcessInv, MainStep, PoolRefuses, qvars
  <2>2. CASE ServiceStep
    <3>1. [QueryNext]_qvars
      BY <2>2 DEF ServiceStep, NoAcquire, QueryNext
    <3> QED BY <3>1, CacheStepForward DEF ProcessInv
  <2> QED BY <2>1, <2>2, ProcessSteps
<1> QED BY <1>1, ProcessInvAlways, PTL DEF ProcessSpec, CacheForward, Forward
=============================================================================
