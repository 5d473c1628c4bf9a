---------------------------- MODULE CacheService ----------------------------
(***************************************************************************)
(* The response cache of the Angular client                                *)
(* (client/src/app/shared/services/cache.service.ts, rxjs 5), for one key: *)
(* the key is the url alone, and the entries of two keys do not interact.  *)
(*                                                                         *)
(* send() returns the observable of the request in flight, the cached      *)
(* response, or the observable of a new request.  The observable is cold   *)
(* and shared: its first subscriber sends the request, the loss of the     *)
(* last one aborts it, and a subscriber that comes after the end sends it  *)
(* again.  A request is known by the caller whose call has created it.     *)
(*                                                                         *)
(* The content of the resource is a version number, and its ETag the same  *)
(* number.  Methods are "read" (GET, HEAD, OPTIONS, POST) and "update"     *)
(* (PUT, PATCH, DELETE), as _mapAndCacheResponse tells them apart.         *)
(***************************************************************************)
EXTENDS Integers

CONSTANTS
  Callers,              \* the calls of send
  None,                 \* no version, no request
  MaxData,              \* bound: number of updates of the resource
  MaxRetry              \* retries after status 429 (12)

ASSUME MaxDataAssumption == MaxData \in Nat
ASSUME MaxRetryAssumption == MaxRetry \in Nat
ASSUME NoneAssumption == None \notin Callers /\ None \notin Int

VARIABLES
  data,                 \* the version the server has
  entry,                \* _cache[key]
  req,                  \* the request each caller has created
  caller                \* what each caller has been given

vars == <<data, entry, req, caller>>

Version == 0 .. MaxData
NoEntry == [present |-> FALSE, value |-> None, etag |-> None, fresh |-> FALSE,
            flight |-> None, raw |-> FALSE]
NoReq == [phase |-> "none", method |-> "read", etag |-> None, value |-> None,
          raw |-> FALSE, retry |-> 0, answer |-> "none", content |-> None]
Idle == [state |-> "idle", method |-> "read", of |-> None, asked |-> 0, value |-> None]

\* The phases in which a request is on its way.
Active == {"sent", "served", "backoff", "passing", "passed"}

EntryType ==
  [present : BOOLEAN, value : Version \cup {None}, etag : Version \cup {None},
   fresh : BOOLEAN, flight : Callers \cup {None}, raw : BOOLEAN]

ReqType ==
  [phase : {"none", "cold", "done"} \cup Active, method : {"read", "update"},
   etag : Version \cup {None}, value : Version \cup {None}, raw : BOOLEAN,
   retry : 0 .. MaxRetry,
   answer : {"none", "ok", "304", "429", "error", "offline"},
   content : Version \cup {None}]

CallerType ==
  [state : {"idle", "holding", "subscribed", "got", "error", "left"},
   method : {"read", "update"}, of : Callers \cup {None}, asked : Version,
   value : Version \cup {None}]

TypeOK ==
  /\ data \in Version
  /\ entry \in EntryType
  /\ req \in [Callers -> ReqType]
  /\ caller \in [Callers -> CallerType]

Init ==
  /\ data = 0
  /\ entry = NoEntry
  /\ req = [r \in Callers |-> NoReq]
  /\ caller = [c \in Callers |-> Idle]
-----------------------------------------------------------------------------
\* createCacheItem: an item is fresh for _expireMS from now.
Item(value, etag, flight, raw) ==
  [present |-> TRUE, value |-> value, etag |-> etag, fresh |-> TRUE,
   flight |-> flight, raw |-> raw]

\* send: a request is in flight, whatever force and the method say.
JoinFlight(c, method) ==
  /\ entry.flight # None
  /\ caller' = [caller EXCEPT ![c] = [state |-> "holding", method |-> method,
                                       of |-> entry.flight, asked |-> data, value |-> None]]
  /\ UNCHANGED <<entry, req>>

\* send: the cached response, while it has not expired.
Hit(c, method, force) ==
  /\ entry.present /\ entry.flight = None /\ entry.fresh
  /\ ~force
  /\ caller' = [caller EXCEPT ![c] = [state |-> "got", method |-> method,
                                       of |-> None, asked |-> data, value |-> entry.value]]
  /\ UNCHANGED <<entry, req>>

\* send: a new request, which keeps hold of the item it found.
NewRequest(c, method, force) ==
  /\ entry.flight = None
  /\ force \/ ~entry.fresh
  /\ req' = [req EXCEPT ![c] = [phase |-> "cold", method |-> method,
                                etag |-> entry.etag, value |-> entry.value,
                                raw |-> entry.raw, retry |-> 0,
                                answer |-> "none", content |-> None]]
  /\ entry' = Item(entry.value, entry.etag, c, FALSE)
  /\ caller' = [caller EXCEPT ![c] = [state |-> "holding", method |-> method,
                                       of |-> c, asked |-> data, value |-> None]]

\* The methods of the service that call send; an update is always forced.
Send(c) ==
  /\ caller[c].state = "idle"
  /\ \E method \in {"read", "update"}, force \in BOOLEAN :
       /\ method = "update" => force
       /\ JoinFlight(c, method) \/ Hit(c, method, force) \/ NewRequest(c, method, force)
  /\ UNCHANGED data

\* A request that does not run keeps what a subscriber needs to run it again.
Rest(r, phase) ==
  req' = [req EXCEPT ![r].phase = phase, ![r].retry = 0,
                     ![r].answer = "none", ![r].content = None]

\* The caller subscribes: share() runs the request unless it is running.
Subscribe(c) ==
  /\ caller[c].state = "holding"
  /\ caller' = [caller EXCEPT ![c].state = "subscribed"]
  /\ LET r == caller[c].of
     IN  \/ req[r].phase \in Active /\ UNCHANGED req
         \/ req[r].phase \notin Active
            /\ req' = [req EXCEPT ![r].phase = "sent"]
  /\ UNCHANGED <<data, entry>>

\* The caller loses interest; without a subscriber the request is aborted.
Unsubscribe(c) ==
  /\ caller[c].state = "subscribed"
  /\ caller' = [caller EXCEPT ![c] = [Idle EXCEPT !.state = "left"]]
  /\ LET r == caller[c].of
         others == {d \in Callers \ {c} : caller[d].state = "subscribed" /\ caller[d].of = r}
     IN  \/ others = {} /\ Rest(r, "cold")
         \/ others # {} /\ UNCHANGED req
  /\ UNCHANGED <<data, entry>>
-----------------------------------------------------------------------------
\* What the server does with the request, and its answer.
Respond(r, phase, answer, content) ==
  req' = [req EXCEPT ![r].phase = phase, ![r].answer = answer, ![r].content = content]

Execute(r, phase) ==
  \/ /\ req[r].method = "read"
     /\ Respond(r, phase, "ok", data)
     /\ UNCHANGED data
  \/ /\ req[r].method = "update" /\ data < MaxData
     /\ data' = data + 1
     /\ Respond(r, phase, "ok", data + 1)

\* The content is that of the ETag the request carries.
NotModified(r) ==
  /\ req[r].method = "read" /\ req[r].etag # None
  /\ req[r].etag = data
  /\ Respond(r, "served", "304", data)
  /\ UNCHANGED data

\* Too many requests, another error status, or no answer at all; an update may
\* have been executed in the last two cases.
Refuse(r, phase) ==
  /\ \E answer \in {"429", "error", "offline"} :
       /\ Respond(r, phase, answer, None)
       /\ \/ UNCHANGED data
          \/ req[r].method = "update" /\ answer # "429" /\ data < MaxData /\ data' = data + 1

Serve(r) ==
  /\ \/ req[r].phase = "sent"
        /\ \/ req[r].etag # data /\ Execute(r, "served")
           \/ req[r].method = "update" /\ Execute(r, "served")
           \/ NotModified(r)
           \/ Refuse(r, "served")
     \/ req[r].phase = "passing" /\ (Execute(r, "passed") \/ Refuse(r, "passed"))
  /\ UNCHANGED <<entry, caller>>

\* The resource is changed by someone else, or by putArm, which passes the cache.
OtherUpdate ==
  /\ data < MaxData
  /\ data' = data + 1
  /\ UNCHANGED <<entry, req, caller>>
-----------------------------------------------------------------------------
\* The subscribers of request r are given state and value; r has ended.
Notify(r, state, value) ==
  /\ caller' = [c \in Callers |->
                  IF caller[c].state = "subscribed" /\ caller[c].of = r
                    THEN [caller[c] EXCEPT !.state = state, !.value = value]
                    ELSE caller[c]]
  /\ Rest(r, "done")

\* _mapAndCacheResponse: an update clears the entry, a read replaces it.  The
\* response may come without an ETag.
Success(r) ==
  /\ req[r].phase \in {"served", "passed"} /\ req[r].answer = "ok"
  /\ \/ req[r].method = "update" /\ entry' = NoEntry
     \/ /\ req[r].method = "read"
        /\ \E etag \in {None, req[r].content} : entry' = Item(req[r].content, etag, None, TRUE)
  /\ Notify(r, "got", req[r].content)
  /\ UNCHANGED data

\* (The operators named ..._Bug are plausible mistakes, for checking that the
\* properties see them; nothing uses them.)
\* Status 304 restores the value of the item that is now in the cache.
Confirmed_CurrentBug(r) ==
  /\ req[r].phase = "served" /\ req[r].answer = "304"
  /\ entry' = Item(entry.value, req[r].content, None, req[r].raw)
  /\ Notify(r, "got", entry.value)
  /\ UNCHANGED data

\* Status 304: the item found by send is put back.
Confirmed(r) ==
  /\ req[r].phase = "served" /\ req[r].answer = "304"
  /\ entry' = Item(req[r].value, req[r].content, None, req[r].raw)
  /\ Notify(r, "got", req[r].value)
  /\ UNCHANGED data

\* Status 429: again after 5 seconds.
Backoff(r) ==
  /\ req[r].phase = "served" /\ req[r].answer = "429"
  /\ req[r].retry < MaxRetry
  /\ req' = [req EXCEPT ![r].phase = "backoff", ![r].answer = "none",
                     ![r].retry = req[r].retry + 1]
  /\ UNCHANGED <<data, entry, caller>>

Retry(r) ==
  /\ req[r].phase = "backoff"
  /\ req' = [req EXCEPT ![r].phase = "sent"]
  /\ UNCHANGED <<data, entry, caller>>

\* An error leaves the entry.
Failure_KeepBug(r) ==
  /\ req[r].phase = "served"
  /\ \/ req[r].answer = "error"
     \/ req[r].answer = "429" /\ req[r].retry = MaxRetry
  /\ Notify(r, "error", None)
  /\ UNCHANGED <<data, entry>>

\* An error is answered with the item found by send, if there was one.
Failure_StaleBug(r) ==
  /\ req[r].phase = "served"
  /\ \/ req[r].answer = "error"
     \/ req[r].answer = "429" /\ req[r].retry = MaxRetry
  /\ entry' = NoEntry
  /\ Notify(r, IF req[r].value = None THEN "error" ELSE "got", req[r].value)
  /\ UNCHANGED data

\* Another error: the entry of the key is deleted, whosever it is.
Failure(r) ==
  /\ req[r].phase = "served"
  /\ \/ req[r].answer = "error"
     \/ req[r].answer = "429" /\ req[r].retry = MaxRetry
  /\ entry' = NoEntry
  /\ Notify(r, "error", None)
  /\ UNCHANGED data

\* The entry is left while the request goes through /api/passthrough.
TryPassThrough_KeepBug(r) ==
  /\ req[r].phase = "served" /\ req[r].answer = "offline"
  /\ req' = [req EXCEPT ![r].phase = "passing", ![r].answer = "none"]
  /\ UNCHANGED <<data, entry, caller>>

\* No answer: the entry is deleted and, if our own server can be reached, the
\* request goes through its /api/passthrough.
TryPassThrough(r) ==
  /\ req[r].phase = "served" /\ req[r].answer = "offline"
  /\ entry' = NoEntry
  /\ \/ Notify(r, "error", None)
     \/ req' = [req EXCEPT ![r].phase = "passing", ![r].answer = "none"] /\ UNCHANGED caller
  /\ UNCHANGED data

\* An error of /api/passthrough is swallowed.
PassThroughFailure_SilentBug(r) ==
  /\ req[r].phase = "passed" /\ req[r].answer \in {"429", "error", "offline"}
  /\ Rest(r, "done")
  /\ UNCHANGED <<data, entry, caller>>

\* An error of /api/passthrough leaves the cache alone.
PassThroughFailure(r) ==
  /\ req[r].phase = "passed" /\ req[r].answer \in {"429", "error", "offline"}
  /\ Notify(r, "error", None)
  /\ UNCHANGED <<data, entry>>

Deliver(r) ==
  \/ Success(r) \/ Confirmed(r) \/ Backoff(r) \/ Retry(r) \/ Failure(r)
  \/ TryPassThrough(r) \/ PassThroughFailure(r)
-----------------------------------------------------------------------------
\* _expireMS has passed.
Expire ==
  /\ entry.fresh
  /\ entry' = [entry EXCEPT !.fresh = FALSE]
  /\ UNCHANGED <<data, req, caller>>

\* _cleanUp deletes what has expired, a request in flight included.
CleanUp ==
  /\ entry.present /\ ~entry.fresh
  /\ entry' = NoEntry
  /\ UNCHANGED <<data, req, caller>>

\* clearCache, clearCachePrefix.
ClearCache ==
  /\ entry.present
  /\ entry' = NoEntry
  /\ UNCHANGED <<data, req, caller>>

Next ==
  \/ \E c \in Callers : Send(c) \/ Subscribe(c) \/ Unsubscribe(c)
  \/ \E r \in Callers : Serve(r) \/ Deliver(r)
  \/ OtherUpdate \/ Expire \/ CleanUp \/ ClearCache

Spec == Init /\ [][Next]_vars

\* The server answers or the browser gives the request up, and the callbacks and
\* the timer of the retry run.  Callers, other users and clean-up may do nothing.
FairSpec == Spec /\ \A r \in Callers : WF_vars(Serve(r)) /\ WF_vars(Deliver(r))
-----------------------------------------------------------------------------
\* The entry never leads to a request that has ended: a caller that joins it
\* would run it a second time (cache.service.ts:185-190, 235, 246).
FlightAlive ==
  entry.flight # None => req[entry.flight].phase \in {"cold"} \cup Active

\* The ETag kept with a response is the one of that response, in the cache and
\* in the item a request holds: status 304 gives its caller the content the
\* server has confirmed (cache.service.ts:182-183, "in case the item gets cleaned
\* up", and 224-233).
ValidatorMatches ==
  /\ entry.etag # None => entry.value = entry.etag
  /\ \A r \in Callers : req[r].etag # None => req[r].value = req[r].etag

\* What a hit returns, and what status 304 restores, is a Response and not a
\* value to be copied through JSON (cache.service.ts:192, 230-233).
ResponsesAreRaw ==
  /\ entry.present /\ entry.flight = None => entry.raw
  /\ \A r \in Callers : req[r].value # None => req[r].raw

\* A caller whose call has created a request is given content no older than its
\* call, whatever is cleared, expires or arrives meanwhile
\* (cache.service.ts:193-249).
OwnRequestIsCurrent ==
  \A c \in Callers :
    caller[c].state = "got" /\ caller[c].of = c => caller[c].value >= caller[c].asked

\* What is needed besides to make these properties inductive: a deleted entry
\* holds nothing; whoever waits has a request; the answer of a request is
\* consistent with what was sent and not older than the call that created it.
EntryShape ==
  /\ ~entry.present => entry = NoEntry
  /\ \A r \in Callers : req[r].phase \in {"passing", "passed"} => entry.flight # r

CallerShape ==
  \A c \in Callers :
    /\ caller[c].state \in {"holding", "subscribed"} =>
         caller[c].of \in Callers /\ req[caller[c].of].phase # "none"
    /\ caller[c].state = "idle" => req[c].phase = "none"
    /\ caller[c].asked <= data

AnswerShape ==
  \A r \in Callers :
    /\ req[r].answer \in {"ok", "304"} => req[r].content # None
    /\ req[r].answer = "304" => req[r].etag = req[r].content
    /\ req[r].content # None /\ caller[r].of = r => req[r].content >= caller[r].asked

IInv ==
  /\ TypeOK
  /\ EntryShape
  /\ CallerShape
  /\ AnswerShape
  /\ FlightAlive
  /\ ValidatorMatches
  /\ ResponsesAreRaw
  /\ OwnRequestIsCurrent

\* A subscriber is answered, or goes (cache.service.ts:200-244).
SubscriberAnswered ==
  \A c \in Callers : caller[c].state = "subscribed" ~> caller[c].state # "subscribed"

\* "force" need not matter for a call that finds a request in flight because
\* "you're already updating the data" (cache.service.ts:186-189): the observable
\* that an update is given is that of an update.
UpdateJoinsUpdate ==
  \A c \in Callers :
    caller[c].method = "update" /\ caller[c].of # None =>
      req[caller[c].of].method = "update"
=============================================================================
