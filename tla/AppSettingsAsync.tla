-------------------------- MODULE AppSettingsAsync --------------------------
(***************************************************************************)
(* What the configuration page of a function app loads in the background   *)
(* (client-react/src/pages/app/app-settings/AppSettingsDataLoader.tsx).    *)
(*                                                                         *)
(* When the page has loaded, been refreshed or saved, it asks the app to   *)
(* sync its triggers, and when that is over fetchAsyncData asks for the    *)
(* status of the functions host and the number of functions.  Both         *)
(* requests are repeated while ARM does not answer with status 200, every  *)
(* 3 seconds.  They are forced past the batch, so one that gets no answer  *)
(* rejects (makeArmRequest), and nothing catches that: its value is left   *)
(* as it is.  Each call of fetchAsyncData fills an object of its own,      *)
(* asyncDataLatest, and shows a copy of it with every result; the requests *)
(* of an earlier call go on.                                               *)
(*                                                                         *)
(* The app is a version number, that of the configuration it runs with.    *)
(***************************************************************************)
EXTENDS Naturals

CONSTANTS
  MaxFetches,           \* bound: the syncs, and so the calls of fetchAsyncData
  MaxRetries            \* maxRetries (3)

ASSUME MaxFetchesAssumption == MaxFetches \in Nat \ {0}
ASSUME MaxRetriesAssumption == MaxRetries \in Nat

VARIABLES
  version,              \* the configuration of the app
  syncs,                \* syncs of the triggers under way
  fetches,              \* number of calls of fetchAsyncData
  asyncDataLatest,      \* the object each of them fills
  loop,                 \* executeWithRetries, for each of them and each request
  asyncData             \* what the page shows

vars == <<version, syncs, fetches, asyncDataLatest, loop, asyncData>>

Fetch == 1 .. MaxFetches
Kind == {"functionsHostStatus", "functionsCount"}
Version == 1 .. MaxFetches

\* The attempts of a request: one to begin with, and one for each turn of the
\* loop, which makes one turn more than maxRetries.
MaxSends == MaxRetries + 2

Loading == [loadingState |-> "loading", value |-> 0]
Complete(v) == [loadingState |-> "complete", value |-> v]
Failed == [loadingState |-> "failed", value |-> 0]
NoLoop == [phase |-> "none", sends |-> 0, asked |-> 0]

AsyncValue == [loadingState : {"loading", "complete", "failed"}, value : {0} \cup Version]
Loop == [phase : {"none", "sent", "waiting", "done", "rejected"},
         sends : 0 .. MaxSends, asked : {0} \cup Version]

TypeOK ==
  /\ version \in Version
  /\ syncs \in 0 .. MaxFetches
  /\ fetches \in 0 .. MaxFetches
  /\ asyncDataLatest \in [Fetch -> [Kind -> AsyncValue]]
  /\ loop \in [Fetch -> [Kind -> Loop]]
  /\ asyncData \in [Kind -> AsyncValue]

\* fetchData has found a function app.
Init ==
  /\ version = 1
  /\ syncs = 1
  /\ fetches = 0
  /\ asyncDataLatest = [f \in Fetch |-> [k \in Kind |-> Loading]]
  /\ loop = [f \in Fetch |-> [k \in Kind |-> NoLoop]]
  /\ asyncData = [k \in Kind |-> Loading]
-----------------------------------------------------------------------------
\* onSubmit has saved the configuration; fireSyncTrigger is on its way.
Save ==
  /\ syncs + fetches < MaxFetches
  /\ version < MaxFetches
  /\ version' = version + 1
  /\ syncs' = syncs + 1
  /\ UNCHANGED <<fetches, asyncDataLatest, loop, asyncData>>

\* refreshAppSettings: the page loads again.
Refresh ==
  /\ syncs + fetches < MaxFetches
  /\ syncs' = syncs + 1
  /\ UNCHANGED <<version, fetches, asyncDataLatest, loop, asyncData>>

\* fetchAsyncData, when fireSyncTrigger is over, whatever its result.
FetchAsyncData ==
  /\ syncs > 0
  /\ fetches < MaxFetches
  /\ syncs' = syncs - 1
  /\ fetches' = fetches + 1
  /\ asyncDataLatest' = [asyncDataLatest EXCEPT ![fetches + 1] = [k \in Kind |-> Loading]]
  /\ loop' = [loop EXCEPT ![fetches + 1] =
                [k \in Kind |-> [phase |-> "sent", sends |-> 1, asked |-> version]]]
  /\ asyncData' = [k \in Kind |-> Loading]
  /\ UNCHANGED version

\* (The operators named ..._Bug are plausible mistakes, for checking that the
\* properties see them; nothing uses them.)
\* The page is given the object of the call as it was when the call began.
Finish_StaleBug(f, k, result) ==
  /\ loop' = [loop EXCEPT ![f][k].phase = "done"]
  /\ asyncDataLatest' = [asyncDataLatest EXCEPT ![f][k] = result]
  /\ asyncData' = [j \in Kind |-> IF j = k THEN result ELSE Loading]

\* The page keeps what it shows, of whatever call, and takes in the result.
Finish_MergeBug(f, k, result) ==
  /\ loop' = [loop EXCEPT ![f][k].phase = "done"]
  /\ asyncDataLatest' = [asyncDataLatest EXCEPT ![f][k] = result]
  /\ asyncData' = [asyncData EXCEPT ![k] = result]

\* The result of a request goes into the object of its call, and a copy of the
\* object to the page.
Finish(f, k, result) ==
  /\ loop' = [loop EXCEPT ![f][k].phase = "done"]
  /\ asyncDataLatest' = [asyncDataLatest EXCEPT ![f][k] = result]
  /\ asyncData' = asyncDataLatest'[f]

\* Status 200, with what the app has become since it was asked.
Answered(f, k) ==
  /\ loop[f][k].phase = "sent"
  /\ \E v \in loop[f][k].asked .. version : Finish(f, k, Complete(v))
  /\ UNCHANGED <<version, syncs, fetches>>

\* Another status: the loop makes another turn while attempts remain.
OtherStatus(f, k) ==
  /\ loop[f][k].phase = "sent"
  /\ \/ /\ loop[f][k].sends < MaxSends
        /\ loop' = [loop EXCEPT ![f][k].phase = "waiting"]
        /\ UNCHANGED <<asyncDataLatest, asyncData>>
     \/ /\ loop[f][k].sends = MaxSends
        /\ Finish(f, k, Failed)
  /\ UNCHANGED <<version, syncs, fetches>>

\* No answer, the connection being lost or a new token refused: the request
\* rejects and the loop ends there, without a result for the page.
Rejected(f, k) ==
  /\ loop[f][k].phase = "sent"
  /\ loop' = [loop EXCEPT ![f][k].phase = "rejected"]
  /\ UNCHANGED <<version, syncs, fetches, asyncDataLatest, asyncData>>

\* A call gives up when there is a later one.
SendAgain_AbandonBug(f, k) ==
  /\ loop[f][k].phase = "waiting"
  /\ IF f < fetches
       THEN loop' = [loop EXCEPT ![f][k].phase = "done"]
       ELSE loop' = [loop EXCEPT ![f][k].phase = "sent",
                                 ![f][k].sends = loop[f][k].sends + 1,
                                 ![f][k].asked = version]
  /\ UNCHANGED <<version, syncs, fetches, asyncDataLatest, asyncData>>

\* The 3 seconds of delay have passed.
SendAgain(f, k) ==
  /\ loop[f][k].phase = "waiting"
  /\ loop' = [loop EXCEPT ![f][k].phase = "sent",
                          ![f][k].sends = loop[f][k].sends + 1,
                          ![f][k].asked = version]
  /\ UNCHANGED <<version, syncs, fetches, asyncDataLatest, asyncData>>

Request(f, k) ==
  Answered(f, k) \/ OtherStatus(f, k) \/ Rejected(f, k) \/ SendAgain(f, k)

Next ==
  \/ Save \/ Refresh \/ FetchAsyncData
  \/ \E f \in Fetch, k \in Kind : Request(f, k)

Spec == Init /\ [][Next]_vars

\* A sync ends (it goes through the batch, which never rejects), a request is
\* answered or fails, and the timer of the delay runs.
FairSpec ==
  /\ Spec
  /\ WF_vars(FetchAsyncData)
  /\ \A f \in Fetch, k \in Kind : WF_vars(Request(f, k))
-----------------------------------------------------------------------------
UnderWay(f, k) == loop[f][k].phase \in {"sent", "waiting"}
NoResult(f, k) == UnderWay(f, k) \/ loop[f][k].phase = "rejected"

\* What the page shows as loading is what one call has no result of: the request
\* is under way, or it was rejected, which leaves its object loading for ever.  No
\* overlap of the calls makes the page say that something is loading of which
\* both calls have the result (AppSettingsDataLoader.tsx:298-332).
LoadingHasNoResult ==
  fetches > 0 => \E f \in 1 .. fetches :
    \A k \in Kind : asyncData[k].loadingState = "loading" => NoResult(f, k)

\* What the page shows together comes from one call: never the host status of one
\* with the function count of another (AppSettingsDataLoader.tsx:304-308).
OneCallShown ==
  fetches > 0 => \E f \in 1 .. fetches :
    \A k \in Kind : asyncData[k].loadingState # "loading" =>
                      asyncData[k] = asyncDataLatest[f][k]

\* The page shows an object whose request for k was rejected.
Abandoned(k) ==
  \E f \in 1 .. fetches : asyncData = asyncDataLatest[f] /\ loop[f][k].phase = "rejected"

\* Each of the two is shown or has failed in the end, unless the request of the
\* very call that is shown was rejected (AppSettingsDataLoader.tsx:63-78).
LoadingEnds ==
  \A k \in Kind : asyncData[k].loadingState = "loading" ~>
                    asyncData[k].loadingState # "loading" \/ Abandoned(k)

\* What is needed besides to make LoadingHasNoResult inductive: the object of a
\* call is loading what the call has no result of.
LatestShape ==
  \A f \in Fetch, k \in Kind :
    /\ f <= fetches => (asyncDataLatest[f][k].loadingState = "loading" <=> NoResult(f, k))
    /\ f > fetches => loop[f][k].phase = "none"

AttemptShape ==
  \A f \in Fetch, k \in Kind :
    /\ loop[f][k].phase = "waiting" => loop[f][k].sends < MaxSends
    /\ loop[f][k].phase = "sent" => loop[f][k].asked \in Version

IInv ==
  /\ TypeOK
  /\ LatestShape
  /\ AttemptShape
  /\ LoadingHasNoResult

\* "We limit retries to three" (AppSettingsDataLoader.tsx:300, 313).
RetryLimit == \A f \in Fetch, k \in Kind : loop[f][k].sends <= 1 + MaxRetries
=============================================================================
