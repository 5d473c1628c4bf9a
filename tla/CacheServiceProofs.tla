------------------------ MODULE CacheServiceProofs -------------------------
(***************************************************************************)
(* Theorems about CacheService, for any number of calls, updates and       *)
(* retries.                                                                *)
(***************************************************************************)
EXTENDS CacheService, TLAPS

-----------------------------------------------------------------------------
(* Types.                                                                  *)

\* None is neither a caller nor a version.
LEMMA NoneIsNone == None \notin Callers /\ None \notin Version
BY NoneAssumption, MaxDataAssumption DEF Version

\* An item of the cache.
LEMMA ItemType ==
  ASSUME NEW value \in Version \cup {None}, NEW etag \in Version \cup {None},
         NEW flight \in Callers \cup {None}, NEW raw \in BOOLEAN
  PROVE  Item(value, etag, flight, raw) \in EntryType /\ NoEntry \in EntryType
BY DEF Item, NoEntry, EntryType

\* Changing a request field by field.
LEMMA ReqField ==
  ASSUME NEW q \in ReqType,
         NEW phase \in {"none", "cold", "done"} \cup Active, NEW retry \in 0 .. MaxRetry,
         NEW answer \in {"none", "ok", "304", "429", "error", "offline"},
         NEW content \in Version \cup {None}
  PROVE  /\ [q EXCEPT !.phase = phase, !.answer = answer, !.content = content] \in ReqType
         /\ [q EXCEPT !.phase = phase, !.retry = retry,
                      !.answer = answer, !.content = content] \in ReqType
         /\ [q EXCEPT !.phase = phase, !.answer = answer, !.retry = retry] \in ReqType
         /\ [q EXCEPT !.phase = phase, !.answer = answer] \in ReqType
         /\ [q EXCEPT !.phase = phase] \in ReqType
<1>1. [q EXCEPT !.phase = phase, !.answer = answer, !.content = content] \in ReqType
  BY DEF ReqType
<1>2. [q EXCEPT !.phase = phase, !.retry = retry,
                !.answer = answer, !.content = content] \in ReqType
  BY DEF ReqType
<1>3. [q EXCEPT !.phase = phase, !.answer = answer, !.retry = retry] \in ReqType
  BY DEF ReqType
<1>4. [q EXCEPT !.phase = phase, !.answer = answer] \in ReqType
  BY DEF ReqType
<1>5. [q EXCEPT !.phase = phase] \in ReqType
  BY DEF ReqType
<1> QED BY <1>1, <1>2, <1>3, <1>4, <1>5

\* A request that rests has the type of a request.
LEMMA RestType ==
  ASSUME TypeOK, NEW r \in Callers, NEW phase \in {"cold", "done"}, Rest(r, phase)
  PROVE  req' \in [Callers -> ReqType]
<1>1. 0 \in 0 .. MaxRetry
  BY MaxRetryAssumption
<1>2. [req[r] EXCEPT !.phase = phase, !.retry = 0,
                     !.answer = "none", !.content = None] \in ReqType
  BY <1>1, ReqField DEF TypeOK
<1> QED BY <1>2 DEF TypeOK, Rest

\* The type of an answer.
LEMMA RespondType ==
  ASSUME TypeOK, NEW r \in Callers, NEW phase \in {"served", "passed"},
         NEW answer \in {"none", "ok", "304", "429", "error", "offline"},
         NEW content \in Version \cup {None}, Respond(r, phase, answer, content)
  PROVE  req' \in [Callers -> ReqType]
<1>1. req[r].retry \in 0 .. MaxRetry /\ phase \in Active
  BY DEF TypeOK, ReqType, Active
<1>2. [req[r] EXCEPT !.phase = phase, !.answer = answer, !.content = content] \in ReqType
  BY <1>1, ReqField DEF TypeOK
<1> QED BY <1>2 DEF TypeOK, Respond

\* The type of the callers after a notification.
LEMMA NotifyType ==
  ASSUME TypeOK, NEW r \in Callers, NEW state \in {"got", "error"},
         NEW value \in Version \cup {None}, Notify(r, state, value)
  PROVE  caller' \in [Callers -> CallerType] /\ req' \in [Callers -> ReqType]
<1>1. req' \in [Callers -> ReqType]
  BY RestType DEF Notify
<1>2. \A c \in Callers : [caller[c] EXCEPT !.state = state, !.value = value] \in CallerType
  BY DEF TypeOK, CallerType
<1> QED BY <1>1, <1>2 DEF Notify, TypeOK

\* An update that is executed makes a new version.
LEMMA NewVersion ==
  ASSUME TypeOK, data < MaxData
  PROVE  data + 1 \in Version
BY MaxDataAssumption DEF TypeOK, Version

\* The server keeps the types.
LEMMA ServeType ==
  ASSUME TypeOK, NEW r \in Callers, Serve(r)
  PROVE  TypeOK'
<1>1. UNCHANGED <<entry, caller>>
  BY DEF Serve
<1>2. ASSUME NEW phase \in {"served", "passed"}, Execute(r, phase)
      PROVE  data' \in Version /\ req' \in [Callers -> ReqType]
  <2>1. CASE Respond(r, phase, "ok", data) /\ UNCHANGED data
    BY <2>1, RespondType DEF TypeOK
  <2>2. CASE data < MaxData /\ data' = data + 1 /\ Respond(r, phase, "ok", data + 1)
    <3>1. data + 1 \in Version
      BY <2>2, NewVersion
    <3>2. \A v \in Version : Respond(r, phase, "ok", v) => req' \in [Callers -> ReqType]
      BY RespondType
    <3> QED BY <2>2, <3>1, <3>2
  <2> QED BY <1>2, <2>1, <2>2 DEF Execute
<1>3. ASSUME NEW phase \in {"served", "passed"}, Refuse(r, phase)
      PROVE  data' \in Version /\ req' \in [Callers -> ReqType]
  <2>1. PICK answer \in {"429", "error", "offline"} :
           /\ Respond(r, phase, answer, None)
           /\ data' = data \/ (data < MaxData /\ data' = data + 1)
    BY <1>3 DEF Refuse
  <2>2. data' \in Version
    BY <2>1, NewVersion DEF TypeOK
  <2> QED BY <2>1, <2>2, RespondType
<1>4. CASE NotModified(r)
  BY <1>1, <1>4, RespondType DEF NotModified, TypeOK
<1> QED BY <1>1, <1>2, <1>3, <1>4 DEF Serve, TypeOK

\* Every step keeps the types.
LEMMA StepType ==
  ASSUME TypeOK, Next
  PROVE  TypeOK'
<1>0. 0 \in 0 .. MaxRetry /\ 0 \in Version
  BY MaxRetryAssumption, MaxDataAssumption DEF Version
<1>1. ASSUME NEW c \in Callers, Send(c)
      PROVE  TypeOK'
  <2>1. PICK method \in {"read", "update"}, force \in BOOLEAN :
           JoinFlight(c, method) \/ Hit(c, method, force) \/ NewRequest(c, method, force)
    BY <1>1 DEF Send
  <2>2. \A state \in {"holding", "got"}, of \in Callers \cup {None},
           value \in Version \cup {None} :
          [state |-> state, method |-> method, of |-> of, asked |-> data,
           value |-> value] \in CallerType
    BY DEF TypeOK, CallerType
  <2>3. /\ entry.value \in Version \cup {None} /\ entry.etag \in Version \cup {None}
        /\ entry.flight \in Callers \cup {None} /\ entry.raw \in BOOLEAN
    BY DEF TypeOK, EntryType
  <2>4. CASE JoinFlight(c, method)
    BY <1>1, <2>2, <2>3, <2>4 DEF JoinFlight, Send, TypeOK
  <2>5. CASE Hit(c, method, force)
    BY <1>1, <2>2, <2>3, <2>5 DEF Hit, Send, TypeOK
  <2>6. CASE NewRequest(c, method, force)
    <3>1. [phase |-> "cold", method |-> method, etag |-> entry.etag,
           value |-> entry.value, raw |-> entry.raw, retry |-> 0,
           answer |-> "none", content |-> None] \in ReqType
      BY <1>0, <2>3 DEF ReqType
    <3>2. entry' \in EntryType
      BY <2>3, <2>6, ItemType DEF NewRequest
    <3> QED BY <1>1, <2>2, <2>6, <3>1, <3>2 DEF NewRequest, Send, TypeOK
  <2> QED BY <2>1, <2>4, <2>5, <2>6
<1>2. ASSUME NEW c \in Callers, Subscribe(c)
      PROVE  TypeOK'
  <2>1. [caller[c] EXCEPT !.state = "subscribed"] \in CallerType
    BY DEF TypeOK, CallerType
  <2>2. \A r \in Callers : [req[r] EXCEPT !.phase = "sent"] \in ReqType
    BY DEF TypeOK, ReqType, Active
  <2>3. req' \in [Callers -> ReqType]
    BY <1>2, <2>2 DEF Subscribe, TypeOK
  <2>4. caller' \in [Callers -> CallerType]
    BY <1>2, <2>1 DEF Subscribe, TypeOK
  <2> QED BY <1>2, <2>3, <2>4 DEF Subscribe, TypeOK
<1>3. ASSUME NEW c \in Callers, Unsubscribe(c)
      PROVE  TypeOK'
  <2>1. [Idle EXCEPT !.state = "left"] \in CallerType
    BY <1>0 DEF Idle, CallerType
  <2>2. \A r \in Callers :
          [req[r] EXCEPT !.phase = "cold", !.retry = 0, !.answer = "none", !.content = None]
            \in ReqType
    BY <1>0 DEF TypeOK, ReqType
  <2>3. req' \in [Callers -> ReqType]
    <3>1. req' = req \/ Rest(caller[c].of, "cold")
      BY <1>3 DEF Unsubscribe
    <3>2. CASE caller[c].of \in Callers
      BY <2>2, <3>1, <3>2 DEF Rest, TypeOK
    <3>3. CASE caller[c].of \notin Callers
      BY <3>1, <3>3 DEF Rest, TypeOK
    <3> QED BY <3>2, <3>3
  <2>4. caller' \in [Callers -> CallerType]
    BY <1>3, <2>1 DEF Unsubscribe, TypeOK
  <2> QED BY <1>3, <2>3, <2>4 DEF Unsubscribe, TypeOK
<1>4. ASSUME NEW r \in Callers, Serve(r)
      PROVE  TypeOK'
  BY <1>4, ServeType
<1>5. ASSUME NEW r \in Callers, Deliver(r)
      PROVE  TypeOK'
  <2>1. /\ req[r].content \in Version \cup {None} /\ req[r].value \in Version \cup {None}
        /\ req[r].raw \in BOOLEAN /\ req[r].retry \in 0 .. MaxRetry
    BY DEF TypeOK, ReqType
  <2>2. NoEntry \in EntryType
    BY ItemType
  <2>3. CASE Success(r)
    <3>1. entry' \in EntryType
      BY <2>1, <2>2, <2>3, ItemType DEF Success
    <3> QED BY <2>1, <2>3, <3>1, NotifyType DEF Success, TypeOK
  <2>4. CASE Confirmed(r)
    BY <2>1, <2>4, ItemType, NotifyType DEF Confirmed, TypeOK
  <2>5. CASE Backoff(r)
    <3>1. req[r].retry + 1 \in 0 .. MaxRetry
      BY <2>1, <2>5, MaxRetryAssumption DEF Backoff
    <3>2. [req[r] EXCEPT !.phase = "backoff", !.answer = "none",
                         !.retry = req[r].retry + 1] \in ReqType
      BY <3>1 DEF TypeOK, ReqType, Active
    <3> QED BY <2>5, <3>2 DEF Backoff, TypeOK
  <2>6. CASE Retry(r)
    <3>1. [req[r] EXCEPT !.phase = "sent"] \in ReqType
      BY DEF TypeOK, ReqType, Active
    <3> QED BY <2>6, <3>1 DEF Retry, TypeOK
  <2>7. CASE Failure(r)
    BY <2>2, <2>7, NotifyType DEF Failure, TypeOK
  <2>8. CASE TryPassThrough(r)
    <3>1. [req[r] EXCEPT !.phase = "passing", !.answer = "none"] \in ReqType
      BY DEF TypeOK, ReqType, Active
    <3>2. CASE Notify(r, "error", None)
      BY <2>2, <2>8, <3>2, NotifyType DEF TryPassThrough, TypeOK
    <3>3. CASE ~Notify(r, "error", None)
      BY <2>2, <2>8, <3>1, <3>3 DEF TryPassThrough, TypeOK
    <3> QED BY <3>2, <3>3
  <2>9. CASE PassThroughFailure(r)
    BY <2>9, NotifyType DEF PassThroughFailure, TypeOK
  <2> QED BY <1>5, <2>3, <2>4, <2>5, <2>6, <2>7, <2>8, <2>9 DEF Deliver
<1>6. CASE OtherUpdate
  BY <1>6, NewVersion DEF OtherUpdate, TypeOK
<1>7. CASE Expire
  BY <1>7 DEF Expire, TypeOK, EntryType
<1>8. CASE CleanUp \/ ClearCache
  BY <1>8, ItemType DEF CleanUp, ClearCache, TypeOK
<1> QED BY <1>1, <1>2, <1>3, <1>4, <1>5, <1>6, <1>7, <1>8 DEF Next

\* The initial state has the types.
LEMMA InitType == Init => TypeOK
<1>1. 0 \in 0 .. MaxRetry /\ 0 \in Version
  BY MaxRetryAssumption, MaxDataAssumption DEF Version
<1> QED BY <1>1 DEF Init, TypeOK, NoEntry, EntryType, NoReq, ReqType, Idle, CallerType

\* Type correctness, the bound of the retries after status 429 included.
THEOREM TypeCorrect == Spec => []TypeOK
<1>1. TypeOK /\ [Next]_vars => TypeOK'
  <2>1. CASE Next
    BY <2>1, StepType
  <2>2. CASE UNCHANGED vars
    BY <2>2 DEF vars, TypeOK
  <2> QED BY <2>1, <2>2
<1> QED BY <1>1, InitType, PTL DEF Spec

-----------------------------------------------------------------------------
(* The inductive invariant.                                                *)

\* A request put to rest keeps its etag, its value and its method.
LEMMA RestFacts ==
  ASSUME TypeOK, NEW r \in Callers, NEW phase \in {"cold", "done"}, Rest(r, phase)
  PROVE  /\ req'[r].phase = phase /\ req'[r].answer = "none" /\ req'[r].content = None
         /\ req'[r].etag = req[r].etag /\ req'[r].value = req[r].value
         /\ req'[r].raw = req[r].raw
         /\ \A q \in Callers : q # r => req'[q] = req[q]
<1>1. req \in [Callers -> ReqType] /\ req[r] \in ReqType
  BY DEF TypeOK
<1>2. req'[r] = [req[r] EXCEPT !.phase = phase, !.retry = 0,
                               !.answer = "none", !.content = None]
  BY <1>1 DEF Rest
<1>3. \A q \in Callers : q # r => req'[q] = req[q]
  BY <1>1 DEF Rest
<1> QED BY <1>1, <1>2, <1>3 DEF ReqType

\* Notify tells the subscribers of r and nobody else.
LEMMA NotifyFacts ==
  ASSUME TypeOK, NEW r \in Callers, NEW state, NEW value, Notify(r, state, value)
  PROVE  \A c \in Callers :
           \/ caller'[c] = caller[c]
           \/ /\ caller[c].state = "subscribed" /\ caller[c].of = r
              /\ caller'[c].state = state /\ caller'[c].value = value
              /\ caller'[c].of = r /\ caller'[c].asked = caller[c].asked
BY DEF Notify, TypeOK, CallerType

\* The end of a request.
LEMMA EndStep ==
  ASSUME IInv, TypeOK', NEW r \in Callers, req[r].phase # "none", data' = data,
         NEW state \in {"got", "error"}, NEW value \in Version \cup {None},
         Notify(r, state, value),
         state = "got" => value # None /\ (caller[r].of = r => value >= caller[r].asked),
         ~entry'.present => entry' = NoEntry,
         entry'.flight = None \/ (entry' = entry /\ entry.flight # r),
         entry'.etag # None => entry'.value = entry'.etag,
         entry'.present /\ entry'.flight = None => entry'.raw
  PROVE  IInv'
<1>1. /\ TypeOK /\ EntryShape /\ CallerShape /\ AnswerShape
      /\ FlightAlive /\ ValidatorMatches /\ ResponsesAreRaw /\ OwnRequestIsCurrent
  BY DEF IInv
<1>2. Rest(r, "done")
  BY DEF Notify
<1>3. /\ req'[r].phase = "done" /\ req'[r].answer = "none" /\ req'[r].content = None
      /\ req'[r].etag = req[r].etag /\ req'[r].value = req[r].value
      /\ req'[r].raw = req[r].raw
      /\ \A q \in Callers : q # r => req'[q] = req[q]
  BY <1>1, <1>2, RestFacts
<1>4. \A c \in Callers :
           \/ caller'[c] = caller[c]
           \/ /\ caller[c].state = "subscribed" /\ caller[c].of = r
              /\ caller'[c].state = state /\ caller'[c].value = value
              /\ caller'[c].of = r /\ caller'[c].asked = caller[c].asked
  BY <1>1, NotifyFacts
<1>5. EntryShape'
  <2>1. \A q \in Callers : q # r => req'[q] = req[q]
    BY <1>3
  <2>2. ASSUME NEW q \in Callers, req'[q].phase \in {"passing", "passed"}
        PROVE  entry'.flight # q
    <3>1. q # r /\ entry.flight # q
      BY <1>1, <1>3, <2>2 DEF EntryShape
    <3> QED BY <3>1, NoneIsNone
  <2> QED BY <2>2 DEF EntryShape
<1>6. CallerShape'
  <2>1. \A q \in Callers : req[q].phase # "none" => req'[q].phase # "none"
    BY <1>3
  <2>2. \A c \in Callers : caller'[c].asked <= data'
    BY <1>1, <1>4 DEF CallerShape
  <2>3. ASSUME NEW c \in Callers, caller'[c].state \in {"holding", "subscribed"}
        PROVE  caller'[c].of \in Callers /\ req'[caller'[c].of].phase # "none"
    <3>1. caller'[c] = caller[c]
      BY <1>4, <2>3
    <3> QED BY <1>1, <2>1, <2>3, <3>1 DEF CallerShape
  <2>4. ASSUME NEW c \in Callers, caller'[c].state = "idle"
        PROVE  req'[c].phase = "none"
    <3>1. caller'[c] = caller[c]
      BY <1>4, <2>4
    <3>2. c # r
      BY <1>1, <2>4, <3>1 DEF CallerShape
    <3> QED BY <1>1, <1>3, <2>4, <3>1, <3>2 DEF CallerShape
  <2> QED BY <2>2, <2>3, <2>4 DEF CallerShape
<1>7. AnswerShape'
  <2>1. \A q \in Callers : caller'[q].of = caller[q].of /\ caller'[q].asked = caller[q].asked
    BY <1>4
  <2> QED BY <1>1, <1>3, <2>1 DEF AnswerShape
<1>8. FlightAlive'
  <2>1. SUFFICES ASSUME entry'.flight # None
                 PROVE  req'[entry'.flight].phase \in {"cold"} \cup Active
    BY DEF FlightAlive
  <2>2. entry'.flight = entry.flight /\ entry.flight # r /\ entry.flight \in Callers
    BY <1>1, <2>1 DEF TypeOK, EntryType
  <2>3. req'[entry.flight] = req[entry.flight]
    BY <1>3, <2>2
  <2> QED BY <1>1, <2>1, <2>2, <2>3 DEF FlightAlive
<1>9. ValidatorMatches'
  BY <1>1, <1>3 DEF ValidatorMatches
<1>10. ResponsesAreRaw'
  BY <1>1, <1>3 DEF ResponsesAreRaw
<1>11. OwnRequestIsCurrent'
  <2>1. SUFFICES ASSUME NEW c \in Callers, caller'[c].state = "got", caller'[c].of = c
                 PROVE  caller'[c].value >= caller'[c].asked
    BY DEF OwnRequestIsCurrent
  <2>2. CASE caller'[c] = caller[c]
    BY <1>1, <2>1, <2>2 DEF OwnRequestIsCurrent
  <2>3. CASE caller'[c] # caller[c]
    <3>1. c = r /\ state = "got" /\ caller[r].of = r
      BY <1>4, <2>1, <2>3
    <3> QED BY <1>4, <2>3, <3>1
  <2> QED BY <2>2, <2>3
<1> QED BY <1>5, <1>6, <1>7, <1>8, <1>9, <1>10, <1>11 DEF IInv

\* A step that changes the phase of a request, and neither the cache nor a
\* caller: a subscriber, an answer, the timer of a retry.
LEMMA RequestStep ==
  ASSUME IInv, TypeOK', NEW r \in Callers, req[r].phase # "none",
         NEW q, req' = [req EXCEPT ![r] = q],
         q.etag = req[r].etag, q.value = req[r].value, q.raw = req[r].raw,
         q.phase \in Active,
         q.phase \in {"passing", "passed"} => entry'.flight # r,
         q.answer \in {"ok", "304"} => q.content # None,
         q.answer = "304" => q.etag = q.content,
         q.content # None /\ caller[r].of = r => q.content >= caller[r].asked,
         data' >= data, caller' = caller,
         entry' = entry \/ entry' = NoEntry
  PROVE  IInv'
<1>1. /\ TypeOK /\ EntryShape /\ CallerShape /\ AnswerShape
      /\ FlightAlive /\ ValidatorMatches /\ ResponsesAreRaw /\ OwnRequestIsCurrent
  BY DEF IInv
<1>2. req'[r] = q /\ \A p \in Callers : p # r => req'[p] = req[p]
  BY <1>1 DEF TypeOK
<1>3. NoEntry.present = FALSE /\ NoEntry.flight = None /\ NoEntry.etag = None
  BY DEF NoEntry
<1>4. EntryShape'
  BY <1>1, <1>2, <1>3, NoneIsNone DEF EntryShape
<1>5. CallerShape'
  <2>1. \A c \in Callers : caller[c].asked \in Int /\ data \in Int /\ data' \in Int
    BY <1>1 DEF TypeOK, CallerType, Version
  <2>2. q.phase # "none"
    BY DEF Active
  <2>3. \A p \in Callers : req'[p].phase = "none" <=> req[p].phase = "none"
    BY <1>2, <2>2
  <2> QED BY <1>1, <2>1, <2>3 DEF CallerShape
<1>6. AnswerShape'
  BY <1>1, <1>2 DEF AnswerShape
<1>7. FlightAlive'
  <2>1. entry.flight \in Callers \cup {None}
    BY <1>1 DEF TypeOK, EntryType
  <2> QED BY <1>1, <1>2, <1>3, <2>1 DEF FlightAlive
<1>8. ValidatorMatches' /\ ResponsesAreRaw'
  BY <1>1, <1>2, <1>3 DEF ValidatorMatches, ResponsesAreRaw
<1>9. OwnRequestIsCurrent'
  BY <1>1 DEF OwnRequestIsCurrent
<1> QED BY <1>4, <1>5, <1>6, <1>7, <1>8, <1>9 DEF IInv

\* A caller subscribes.
LEMMA SubscribeStep ==
  ASSUME IInv, TypeOK', NEW c \in Callers, Subscribe(c)
  PROVE  IInv'
<1>1. /\ TypeOK /\ EntryShape /\ CallerShape /\ AnswerShape
      /\ FlightAlive /\ ValidatorMatches /\ ResponsesAreRaw /\ OwnRequestIsCurrent
  BY DEF IInv
<1>2. PICK r \in Callers : r = caller[c].of /\ req[r].phase # "none"
  BY <1>1 DEF CallerShape, Subscribe
<1>3. /\ caller'[c].state = "subscribed" /\ caller'[c].of = r
      /\ caller'[c].asked = caller[c].asked
      /\ \A d \in Callers : d # c => caller'[d] = caller[d]
  BY <1>1, <1>2 DEF TypeOK, CallerType, Subscribe
<1>4. /\ \A p \in Callers : p # r => req'[p] = req[p]
      /\ req'[r].etag = req[r].etag /\ req'[r].value = req[r].value
      /\ req'[r].raw = req[r].raw
      /\ req'[r].answer = req[r].answer /\ req'[r].content = req[r].content
      /\ req'[r].phase \in Active
      /\ req'[r].phase = "sent" \/ req'[r] = req[r]
  <2>1. CASE req[r].phase \in Active /\ UNCHANGED req
    BY <2>1
  <2>2. CASE req' = [req EXCEPT ![r].phase = "sent"]
    <3>1. req[r] \in ReqType
      BY <1>1 DEF TypeOK
    <3>2. req'[r] = [req[r] EXCEPT !.phase = "sent"]
      BY <1>1, <2>2 DEF TypeOK
    <3>3. \A p \in Callers : p # r => req'[p] = req[p]
      BY <1>1, <2>2 DEF TypeOK
    <3> QED BY <3>1, <3>2, <3>3 DEF ReqType, Active
  <2> QED BY <1>2, <2>1, <2>2 DEF Subscribe
<1>5. UNCHANGED <<data, entry>>
  BY DEF Subscribe
<1>6. EntryShape'
  BY <1>1, <1>4, <1>5 DEF EntryShape
<1>7. CallerShape'
  <2>1. \A p \in Callers : req'[p].phase = "none" => req[p].phase = "none"
    BY <1>4 DEF Active
  <2>2. \A p \in Callers : req[p].phase = "none" => req'[p].phase = "none"
    BY <1>2, <1>4
  <2> QED BY <1>1, <1>2, <1>3, <1>5, <2>1, <2>2 DEF CallerShape
<1>8. AnswerShape'
  <2>1. \A p \in Callers : caller'[p].of = caller[p].of /\ caller'[p].asked = caller[p].asked
    BY <1>2, <1>3
  <2> QED BY <1>1, <1>4, <2>1 DEF AnswerShape
<1>9. FlightAlive'
  <2>1. entry.flight \in Callers \cup {None}
    BY <1>1 DEF TypeOK, EntryType
  <2> QED BY <1>1, <1>4, <1>5, <2>1 DEF FlightAlive
<1>10. ValidatorMatches' /\ ResponsesAreRaw'
  BY <1>1, <1>4, <1>5 DEF ValidatorMatches, ResponsesAreRaw
<1>11. OwnRequestIsCurrent'
  BY <1>1, <1>3 DEF OwnRequestIsCurrent
<1> QED BY <1>6, <1>7, <1>8, <1>9, <1>10, <1>11 DEF IInv

\* A caller loses interest.
LEMMA UnsubscribeStep ==
  ASSUME IInv, TypeOK', NEW c \in Callers, Unsubscribe(c)
  PROVE  IInv'
<1>1. /\ TypeOK /\ EntryShape /\ CallerShape /\ AnswerShape
      /\ FlightAlive /\ ValidatorMatches /\ ResponsesAreRaw /\ OwnRequestIsCurrent
  BY DEF IInv
<1>2. PICK r \in Callers : r = caller[c].of /\ req[r].phase # "none"
  BY <1>1 DEF CallerShape, Unsubscribe
<1>3. /\ caller'[c].state = "left" /\ caller'[c].of = None /\ caller'[c].asked = 0
      /\ \A d \in Callers : d # c => caller'[d] = caller[d]
  BY <1>1 DEF TypeOK, CallerType, Unsubscribe, Idle
<1>4. /\ \A p \in Callers : p # r => req'[p] = req[p]
      /\ req'[r].etag = req[r].etag /\ req'[r].value = req[r].value
      /\ req'[r].raw = req[r].raw
      /\ \/ req'[r].phase = "cold" /\ req'[r].answer = "none" /\ req'[r].content = None
         \/ req'[r] = req[r]
  <2>1. req' = req \/ Rest(r, "cold")
    BY <1>2 DEF Unsubscribe
  <2>2. CASE req' = req
    BY <2>2
  <2>3. CASE Rest(r, "cold")
    BY <1>1, <2>3, RestFacts
  <2> QED BY <2>1, <2>2, <2>3
<1>5. UNCHANGED <<data, entry>>
  BY DEF Unsubscribe
<1>6. EntryShape'
  BY <1>1, <1>4, <1>5 DEF EntryShape
<1>7. CallerShape'
  <2>1. \A p \in Callers : req'[p].phase = "none" <=> req[p].phase = "none"
    BY <1>2, <1>4
  <2>2. 0 <= data
    BY <1>1, MaxDataAssumption DEF TypeOK, Version
  <2> QED BY <1>1, <1>3, <1>5, <2>1, <2>2 DEF CallerShape
<1>8. AnswerShape'
  <2>1. \A p \in Callers : req'[p].content # None => req'[p] = req[p]
    BY <1>4
  <2>2. \A p \in Callers : req'[p].answer \in {"ok", "304"} => req'[p] = req[p]
    BY <1>4
  <2>3. \A p \in Callers : caller'[p].of = p => caller'[p] = caller[p]
    BY <1>3, NoneIsNone
  <2> QED BY <1>1, <2>1, <2>2, <2>3 DEF AnswerShape
<1>9. FlightAlive'
  <2>1. entry.flight \in Callers \cup {None}
    BY <1>1 DEF TypeOK, EntryType
  <2> QED BY <1>1, <1>4, <1>5, <2>1 DEF FlightAlive
<1>10. ValidatorMatches' /\ ResponsesAreRaw'
  BY <1>1, <1>4, <1>5 DEF ValidatorMatches, ResponsesAreRaw
<1>11. OwnRequestIsCurrent'
  BY <1>1, <1>3 DEF OwnRequestIsCurrent
<1> QED BY <1>6, <1>7, <1>8, <1>9, <1>10, <1>11 DEF IInv

\* An answer to a request.
LEMMA RespondStep ==
  ASSUME IInv, TypeOK', NEW r \in Callers, req[r].phase # "none",
         NEW phase \in {"served", "passed"}, phase = "passed" => entry.flight # r,
         NEW answer, NEW content, Respond(r, phase, answer, content),
         answer \in {"ok", "304"} => content # None,
         answer = "304" => req[r].etag = content,
         content # None => content \in Int /\ content >= data,
         data' >= data, UNCHANGED <<entry, caller>>
  PROVE  IInv'
<1>1. TypeOK /\ CallerShape
  BY DEF IInv
<1>2. PICK q : q = [req[r] EXCEPT !.phase = phase, !.answer = answer, !.content = content]
  OBVIOUS
<1>3. req[r] \in ReqType /\ req' = [req EXCEPT ![r] = q]
  BY <1>1, <1>2 DEF TypeOK, Respond
<1>4. /\ q.etag = req[r].etag /\ q.value = req[r].value /\ q.raw = req[r].raw
      /\ q.phase = phase /\ q.answer = answer /\ q.content = content
  BY <1>2, <1>3 DEF ReqType
<1>5. q.phase \in Active
  BY <1>4 DEF Active
<1>6. content # None => content >= caller[r].asked
  <2>1. caller[r].asked \in Int /\ data \in Int /\ caller[r].asked <= data
    BY <1>1 DEF TypeOK, CallerType, CallerShape, Version
  <2> QED BY <2>1
<1> QED BY <1>3, <1>4, <1>5, <1>6, RequestStep

\* The server.
LEMMA ServeStep ==
  ASSUME IInv, TypeOK', NEW r \in Callers, Serve(r)
  PROVE  IInv'
<1>1. TypeOK /\ EntryShape /\ UNCHANGED <<entry, caller>> /\ req[r].phase # "none"
  BY DEF IInv, Serve
<1>2. data \in Int /\ data # None /\ data + 1 # None
  BY <1>1, NoneAssumption DEF TypeOK, Version
<1>3. ASSUME NEW phase \in {"served", "passed"}, phase = "passed" => entry.flight # r,
             Execute(r, phase)
      PROVE  IInv'
  <2>1. CASE Respond(r, phase, "ok", data) /\ UNCHANGED data
    BY <1>1, <1>2, <1>3, <2>1, RespondStep
  <2>2. CASE data' = data + 1 /\ Respond(r, phase, "ok", data + 1)
    <3>1. PICK new : new = data + 1
      OBVIOUS
    <3> QED BY <1>1, <1>2, <1>3, <2>2, <3>1, RespondStep
  <2> QED BY <1>3, <2>1, <2>2 DEF Execute
<1>4. ASSUME NEW phase \in {"served", "passed"}, phase = "passed" => entry.flight # r,
             Refuse(r, phase)
      PROVE  IInv'
  <2>1. PICK answer \in {"429", "error", "offline"} :
           Respond(r, phase, answer, None) /\ (data' = data \/ data' = data + 1)
    BY <1>4 DEF Refuse
  <2>2. data' >= data
    BY <1>2, <2>1
  <2> QED BY <1>1, <1>4, <2>1, <2>2, RespondStep
<1>5. CASE NotModified(r)
  BY <1>1, <1>2, <1>5, RespondStep DEF NotModified
<1>6. req[r].phase = "passing" => entry.flight # r
  BY <1>1 DEF EntryShape
<1> QED BY <1>3, <1>4, <1>5, <1>6 DEF Serve

\* The client takes the answer.
LEMMA DeliverStep ==
  ASSUME IInv, TypeOK', NEW r \in Callers, Deliver(r)
  PROVE  IInv'
<1>1. TypeOK /\ EntryShape /\ AnswerShape /\ ValidatorMatches /\ ResponsesAreRaw
  BY DEF IInv
<1>2. req[r].phase # "none" /\ data' = data
  BY DEF Deliver, Success, Confirmed, Backoff, Retry, Failure, TryPassThrough,
         PassThroughFailure
<1>3. NoEntry.present = FALSE /\ NoEntry.flight = None /\ NoEntry.etag = None
  BY DEF NoEntry
<1>4. req[r] \in ReqType /\ req[r].content \in Version \cup {None}
      /\ req[r].value \in Version \cup {None}
  BY <1>1 DEF TypeOK, ReqType
<1>5. req[r].content # None /\ caller[r].of = r => req[r].content >= caller[r].asked
  BY <1>1 DEF AnswerShape
<1>6. CASE Success(r)
  <2>1. req[r].content # None /\ Notify(r, "got", req[r].content)
    BY <1>1, <1>6 DEF Success, AnswerShape
  <2>2. /\ ~entry'.present => entry' = NoEntry
        /\ entry'.flight = None
        /\ entry'.etag # None => entry'.value = entry'.etag
        /\ entry'.present /\ entry'.flight = None => entry'.raw
    <3>1. CASE entry' = NoEntry
      BY <1>3, <3>1
    <3>2. ASSUME NEW etag \in {None, req[r].content},
                 entry' = Item(req[r].content, etag, None, TRUE)
          PROVE  /\ entry'.present /\ entry'.flight = None /\ entry'.raw
                 /\ entry'.etag # None => entry'.value = entry'.etag
      BY <3>2 DEF Item
    <3> QED BY <1>6, <3>1, <3>2 DEF Success
  <2> QED BY <1>2, <1>4, <1>5, <2>1, <2>2, EndStep
<1>7. CASE Confirmed(r)
  <2>1. req[r].content # None /\ req[r].etag = req[r].content
    BY <1>1, <1>7 DEF Confirmed, AnswerShape
  <2>2. req[r].value = req[r].content /\ req[r].raw
    BY <1>1, <2>1 DEF ValidatorMatches, ResponsesAreRaw
  <2>3. /\ entry'.present /\ entry'.flight = None /\ entry'.raw
        /\ entry'.etag = req[r].content /\ entry'.value = req[r].content
    <3>1. entry' = Item(req[r].value, req[r].content, None, req[r].raw)
      BY <1>7 DEF Confirmed
    <3> QED BY <2>2, <3>1 DEF Item
  <2>4. Notify(r, "got", req[r].value)
    BY <1>7 DEF Confirmed
  <2> QED BY <1>2, <1>4, <1>5, <2>1, <2>2, <2>3, <2>4, EndStep
<1>8. CASE Backoff(r)
  <2>1. PICK q : q = [req[r] EXCEPT !.phase = "backoff", !.answer = "none",
                                    !.retry = req[r].retry + 1]
    OBVIOUS
  <2>2. /\ q.phase = "backoff" /\ q.answer = "none" /\ q.content = req[r].content
        /\ q.etag = req[r].etag /\ q.value = req[r].value /\ q.raw = req[r].raw
    BY <1>4, <2>1 DEF ReqType
  <2>3. req' = [req EXCEPT ![r] = q]
    BY <1>1, <1>8, <2>1 DEF Backoff, TypeOK
  <2>5. UNCHANGED <<data, entry, caller>> /\ data' >= data
    BY <1>1, <1>8 DEF Backoff, TypeOK, Version
  <2> QED BY <1>2, <1>5, <2>2, <2>3, <2>5, RequestStep DEF Active
<1>9. CASE Retry(r)
  <2>1. PICK q : q = [req[r] EXCEPT !.phase = "sent"]
    OBVIOUS
  <2>2. /\ q.phase = "sent" /\ q.answer = req[r].answer /\ q.content = req[r].content
        /\ q.etag = req[r].etag /\ q.value = req[r].value /\ q.raw = req[r].raw
    BY <1>4, <2>1 DEF ReqType
  <2>3. req' = [req EXCEPT ![r] = q]
    BY <1>1, <1>9, <2>1 DEF Retry, TypeOK
  <2>5. UNCHANGED <<data, entry, caller>> /\ data' >= data
    BY <1>1, <1>9 DEF Retry, TypeOK, Version
  <2>4. /\ q.answer \in {"ok", "304"} => q.content # None
        /\ q.answer = "304" => q.etag = q.content
    BY <1>1, <2>2 DEF AnswerShape
  <2> QED BY <1>2, <1>5, <2>2, <2>3, <2>4, <2>5, RequestStep DEF Active
<1>10. CASE Failure(r)
  <2>1. entry' = NoEntry /\ Notify(r, "error", None)
    BY <1>10 DEF Failure
  <2> QED BY <1>2, <1>3, <2>1, EndStep
<1>11. CASE TryPassThrough(r)
  <2>1. entry' = NoEntry
    BY <1>11 DEF TryPassThrough
  <2>2. CASE Notify(r, "error", None)
    BY <1>2, <1>3, <2>1, <2>2, EndStep
  <2>3. CASE /\ req' = [req EXCEPT ![r].phase = "passing", ![r].answer = "none"]
             /\ UNCHANGED caller
    <3>1. PICK q : q = [req[r] EXCEPT !.phase = "passing", !.answer = "none"]
      OBVIOUS
    <3>2. /\ q.phase = "passing" /\ q.answer = "none" /\ q.content = req[r].content
          /\ q.etag = req[r].etag /\ q.value = req[r].value /\ q.raw = req[r].raw
      BY <1>4, <3>1 DEF ReqType
    <3>3. req' = [req EXCEPT ![r] = q]
      BY <1>1, <2>3, <3>1 DEF TypeOK
    <3>5. UNCHANGED caller /\ data' >= data
      BY <1>1, <1>2, <2>3 DEF TypeOK, Version
    <3>4. entry'.flight # r
      BY <1>3, <2>1, NoneIsNone
    <3> QED BY <1>2, <1>5, <2>1, <3>2, <3>3, <3>4, <3>5, RequestStep DEF Active
  <2> QED BY <1>11, <2>2, <2>3 DEF TryPassThrough
<1>12. CASE PassThroughFailure(r)
  <2>1. entry' = entry /\ Notify(r, "error", None) /\ req[r].phase = "passed"
    BY <1>12 DEF PassThroughFailure
  <2>2. entry.flight # r
    BY <1>1, <2>1 DEF EntryShape
  <2> QED BY <1>1, <1>2, <2>1, <2>2, EndStep DEF EntryShape, ValidatorMatches, ResponsesAreRaw
<1> QED BY <1>6, <1>7, <1>8, <1>9, <1>10, <1>11, <1>12 DEF Deliver

\* A step that only marks the entry as expired or deletes it, or changes the
\* resource.
LEMMA EntryStep ==
  ASSUME IInv, TypeOK', UNCHANGED <<req, caller>>, data' >= data,
         entry' \in {entry, NoEntry, [entry EXCEPT !.fresh = FALSE]},
         entry' # entry => entry.present
  PROVE  IInv'
<1>1. /\ TypeOK /\ EntryShape /\ CallerShape /\ AnswerShape
      /\ FlightAlive /\ ValidatorMatches /\ ResponsesAreRaw /\ OwnRequestIsCurrent
  BY DEF IInv
<1>2. entry \in EntryType
  BY <1>1 DEF TypeOK
<1>3. \/ entry' = NoEntry /\ ~entry'.present /\ entry'.flight = None /\ entry'.etag = None
      \/ /\ entry'.present = entry.present /\ entry'.flight = entry.flight
         /\ entry'.etag = entry.etag /\ entry'.value = entry.value /\ entry'.raw = entry.raw
         /\ entry' = entry \/ entry.present
  <2>1. CASE entry' = entry
    BY <2>1
  <2>2. CASE entry' = NoEntry
    BY <2>2 DEF NoEntry
  <2>3. CASE entry' = [entry EXCEPT !.fresh = FALSE]
    BY <1>2, <2>3 DEF EntryType
  <2> QED BY <2>1, <2>2, <2>3
<1>4. EntryShape'
  BY <1>1, <1>3, NoneIsNone DEF EntryShape
<1>5. CallerShape'
  <2>1. \A c \in Callers : caller[c].asked \in Int /\ data \in Int /\ data' \in Int
    BY <1>1 DEF TypeOK, CallerType, Version
  <2> QED BY <1>1, <2>1 DEF CallerShape
<1>6. AnswerShape' /\ OwnRequestIsCurrent'
  BY <1>1 DEF AnswerShape, OwnRequestIsCurrent
<1>7. FlightAlive' /\ ValidatorMatches' /\ ResponsesAreRaw'
  BY <1>1, <1>3 DEF FlightAlive, ValidatorMatches, ResponsesAreRaw
<1> QED BY <1>4, <1>5, <1>6, <1>7 DEF IInv

\* A call of send.
LEMMA SendStep ==
  ASSUME IInv, TypeOK', NEW c \in Callers, Send(c)
  PROVE  IInv'
<1>1. /\ TypeOK /\ EntryShape /\ CallerShape /\ AnswerShape
      /\ FlightAlive /\ ValidatorMatches /\ ResponsesAreRaw /\ OwnRequestIsCurrent
  BY DEF IInv
<1>2. data' = data /\ caller[c].state = "idle" /\ req[c].phase = "none"
  BY <1>1 DEF Send, CallerShape
<1>3. data <= data
  BY <1>1 DEF TypeOK, Version
<1>4. PICK method \in {"read", "update"}, force \in BOOLEAN :
         JoinFlight(c, method) \/ Hit(c, method, force) \/ NewRequest(c, method, force)
  BY DEF Send
<1>5. entry.flight \in Callers \cup {None}
  BY <1>1 DEF TypeOK, EntryType
<1>6. CASE JoinFlight(c, method)
  <2>1. entry.flight \in Callers /\ entry.flight # c /\ req[entry.flight].phase # "none"
    BY <1>1, <1>2, <1>5, <1>6 DEF JoinFlight, FlightAlive, Active
  <2>2. /\ caller'[c].state = "holding" /\ caller'[c].of = entry.flight
        /\ caller'[c].asked = data
        /\ \A d \in Callers : d # c => caller'[d] = caller[d]
    BY <1>1, <1>6 DEF JoinFlight, TypeOK
  <2>3. UNCHANGED <<entry, req>>
    BY <1>6 DEF JoinFlight
  <2>4. CallerShape'
    BY <1>1, <1>2, <1>3, <2>1, <2>2, <2>3 DEF CallerShape
  <2>5. AnswerShape' /\ OwnRequestIsCurrent'
    BY <1>1, <2>1, <2>2, <2>3 DEF AnswerShape, OwnRequestIsCurrent
  <2>6. EntryShape' /\ FlightAlive' /\ ValidatorMatches' /\ ResponsesAreRaw'
    BY <1>1, <2>3 DEF EntryShape, FlightAlive, ValidatorMatches, ResponsesAreRaw
  <2> QED BY <2>4, <2>5, <2>6 DEF IInv
<1>7. CASE Hit(c, method, force)
  <2>1. /\ caller'[c].state = "got" /\ caller'[c].of = None /\ caller'[c].asked = data
        /\ \A d \in Callers : d # c => caller'[d] = caller[d]
    BY <1>1, <1>7 DEF Hit, TypeOK
  <2>2. UNCHANGED <<entry, req>>
    BY <1>7 DEF Hit
  <2>3. CallerShape'
    BY <1>1, <1>2, <1>3, <2>1, <2>2 DEF CallerShape
  <2>4. AnswerShape' /\ OwnRequestIsCurrent'
    BY <1>1, <2>1, <2>2, NoneIsNone DEF AnswerShape, OwnRequestIsCurrent
  <2>5. EntryShape' /\ FlightAlive' /\ ValidatorMatches' /\ ResponsesAreRaw'
    BY <1>1, <2>2 DEF EntryShape, FlightAlive, ValidatorMatches, ResponsesAreRaw
  <2> QED BY <2>3, <2>4, <2>5 DEF IInv
<1>8. CASE NewRequest(c, method, force)
  <2>1. /\ caller'[c].state = "holding" /\ caller'[c].of = c /\ caller'[c].asked = data
        /\ \A d \in Callers : d # c => caller'[d] = caller[d]
    BY <1>1, <1>8 DEF NewRequest, TypeOK
  <2>2. /\ req'[c].phase = "cold" /\ req'[c].answer = "none" /\ req'[c].content = None
        /\ req'[c].etag = entry.etag /\ req'[c].value = entry.value
        /\ req'[c].raw = entry.raw
        /\ \A r \in Callers : r # c => req'[r] = req[r]
    BY <1>1, <1>8 DEF NewRequest, TypeOK
  <2>3. /\ entry'.present /\ entry'.flight = c
        /\ entry'.etag = entry.etag /\ entry'.value = entry.value
    BY <1>8 DEF NewRequest, Item
  <2>4. entry.flight = None
    BY <1>8 DEF NewRequest
  <2>5. CallerShape'
    BY <1>1, <1>2, <1>3, <2>1, <2>2 DEF CallerShape
  <2>6. AnswerShape' /\ OwnRequestIsCurrent'
    BY <1>1, <2>1, <2>2 DEF AnswerShape, OwnRequestIsCurrent
  <2>7. EntryShape' /\ FlightAlive'
    BY <1>1, <2>2, <2>3, NoneIsNone DEF EntryShape, FlightAlive
  <2>8. ValidatorMatches'
    BY <1>1, <2>2, <2>3 DEF ValidatorMatches
  <2>9. ResponsesAreRaw'
    <3>1. entry.value # None => entry.present
      BY <1>1 DEF EntryShape, NoEntry
    <3> QED BY <1>1, <2>2, <2>3, <2>4, <3>1, NoneIsNone DEF ResponsesAreRaw
  <2> QED BY <2>5, <2>6, <2>7, <2>8, <2>9 DEF IInv
<1> QED BY <1>4, <1>6, <1>7, <1>8

\* Every step keeps the invariant.
LEMMA StepInv ==
  ASSUME IInv, Next
  PROVE  IInv'
<1>1. TypeOK' /\ TypeOK
  BY StepType DEF IInv
<1>2. ASSUME NEW c \in Callers, Send(c) \/ Subscribe(c) \/ Unsubscribe(c)
      PROVE  IInv'
  BY <1>1, <1>2, SendStep, SubscribeStep, UnsubscribeStep
<1>3. ASSUME NEW r \in Callers, Serve(r) \/ Deliver(r)
      PROVE  IInv'
  BY <1>1, <1>3, ServeStep, DeliverStep
<1>4. data >= data /\ data + 1 >= data
  BY <1>1 DEF TypeOK, Version
<1>5. CASE OtherUpdate
  BY <1>1, <1>4, <1>5, EntryStep DEF OtherUpdate
<1>6. CASE Expire
  <2>1. entry.present
    BY <1>6 DEF Expire, IInv, EntryShape, NoEntry
  <2> QED BY <1>1, <1>4, <1>6, <2>1, EntryStep DEF Expire
<1>7. CASE CleanUp \/ ClearCache
  BY <1>1, <1>4, <1>7, EntryStep DEF CleanUp, ClearCache
<1> QED BY <1>2, <1>3, <1>5, <1>6, <1>7 DEF Next

\* The invariant holds at the start.
LEMMA InitInv == Init => IInv
<1> SUFFICES ASSUME Init PROVE IInv
  OBVIOUS
<1>1. TypeOK
  BY InitType
<1>2. /\ \A c \in Callers : caller[c] = Idle /\ req[c] = NoReq
      /\ entry = NoEntry /\ data = 0
  BY DEF Init
<1>3. EntryShape /\ CallerShape /\ AnswerShape
  BY <1>2 DEF EntryShape, CallerShape, AnswerShape, Idle, NoReq, NoEntry
<1>4. FlightAlive /\ ValidatorMatches /\ ResponsesAreRaw /\ OwnRequestIsCurrent
  BY <1>2 DEF FlightAlive, ValidatorMatches, ResponsesAreRaw, OwnRequestIsCurrent,
              Idle, NoReq, NoEntry
<1> QED BY <1>1, <1>3, <1>4 DEF IInv

\* The invariant.
THEOREM Inductive == Spec => []IInv
<1>1. IInv /\ [Next]_vars => IInv'
  <2>1. CASE IInv /\ Next
    BY <2>1, StepInv
  <2>2. CASE IInv /\ UNCHANGED vars
    BY <2>2 DEF vars, IInv, TypeOK, EntryShape, CallerShape, AnswerShape, FlightAlive,
                ValidatorMatches, ResponsesAreRaw, OwnRequestIsCurrent
  <2> QED BY <2>1, <2>2
<1> QED BY <1>1, InitInv, PTL DEF Spec

\* The cache leads to no request that has ended.
THEOREM NoDeadFlight == Spec => []FlightAlive
BY Inductive, PTL DEF IInv

\* An ETag is kept with the content it validates.
THEOREM ETagOfContent == Spec => []ValidatorMatches
BY Inductive, PTL DEF IInv

\* What is kept as the response of a request is a raw response.
THEOREM RawResponses == Spec => []ResponsesAreRaw
BY Inductive, PTL DEF IInv

\* Who sends the request is not given content older than its call.
THEOREM NoOlderThanTheCall == Spec => []OwnRequestIsCurrent
BY Inductive, PTL DEF IInv
=============================================================================
