----------------------- MODULE AppSettingsAsyncProofs -----------------------
(***************************************************************************)
(* Theorems about AppSettingsAsync, for any number of calls and retries.   *)
(***************************************************************************)
EXTENDS AppSettingsAsync, TLAPS

-----------------------------------------------------------------------------
(* Types.                                                                  *)

\* The numbers that occur.
LEMMA Numbers ==
  /\ MaxFetches \in Nat /\ MaxFetches >= 1 /\ 1 \in Version /\ Version \subseteq Nat
  /\ MaxSends \in Nat /\ MaxSends >= 2
BY MaxFetchesAssumption, MaxRetriesAssumption DEF Version, MaxSends

\* What the page shows of a request.
LEMMA AsyncValueType ==
  /\ Loading \in AsyncValue /\ Failed \in AsyncValue
  /\ \A v \in Version : Complete(v) \in AsyncValue
BY DEF Loading, Failed, Complete, AsyncValue

\* The loop of a request, and how it changes.
LEMMA LoopType ==
  /\ NoLoop \in Loop
  /\ \A v \in Version : [phase |-> "sent", sends |-> 1, asked |-> v] \in Loop
  /\ \A l \in Loop : /\ [l EXCEPT !.phase = "done"] \in Loop
                    /\ [l EXCEPT !.phase = "waiting"] \in Loop
                    /\ [l EXCEPT !.phase = "rejected"] \in Loop
<1>1. NoLoop \in Loop
  BY Numbers DEF NoLoop, Loop
<1>2. \A v \in Version : [phase |-> "sent", sends |-> 1, asked |-> v] \in Loop
  BY Numbers DEF Loop
<1>3. \A l \in Loop : /\ [l EXCEPT !.phase = "done"] \in Loop
                      /\ [l EXCEPT !.phase = "waiting"] \in Loop
                      /\ [l EXCEPT !.phase = "rejected"] \in Loop
  BY DEF Loop
<1> QED BY <1>1, <1>2, <1>3

\* The end of a request, as facts about the two functions it changes.
LEMMA FinishStep ==
  ASSUME TypeOK, NEW f \in Fetch, NEW k \in Kind, NEW result \in AsyncValue, Finish(f, k, result)
  PROVE  /\ loop' \in [Fetch -> [Kind -> Loop]]
         /\ asyncDataLatest' \in [Fetch -> [Kind -> AsyncValue]]
         /\ asyncData' \in [Kind -> AsyncValue]
         /\ asyncData' = asyncDataLatest'[f]
         /\ loop'[f][k].phase = "done"
         /\ asyncDataLatest'[f][k] = result
         /\ \A g \in Fetch, j \in Kind : <<g, j>> # <<f, k>> =>
              loop'[g][j] = loop[g][j] /\ asyncDataLatest'[g][j] = asyncDataLatest[g][j]
<1>1. PICK l : l = [loop[f][k] EXCEPT !.phase = "done"]
  OBVIOUS
<1>a. loop[f][k] \in Loop
  BY DEF TypeOK
<1>b. l.phase = "done"
  BY <1>1, <1>a DEF Loop
<1>2. l \in Loop /\ l.phase = "done"
  BY <1>1, <1>a, <1>b, LoopType
<1>3. loop' = [loop EXCEPT ![f] = [loop[f] EXCEPT ![k] = l]]
  BY <1>1 DEF Finish, TypeOK
<1>4. /\ loop' \in [Fetch -> [Kind -> Loop]]
      /\ loop'[f][k] = l
      /\ \A g \in Fetch, j \in Kind : <<g, j>> # <<f, k>> => loop'[g][j] = loop[g][j]
  BY <1>2, <1>3 DEF TypeOK
<1>5. /\ asyncDataLatest' \in [Fetch -> [Kind -> AsyncValue]]
      /\ asyncDataLatest'[f][k] = result
      /\ \A g \in Fetch, j \in Kind : <<g, j>> # <<f, k>> =>
           asyncDataLatest'[g][j] = asyncDataLatest[g][j]
  BY DEF Finish, TypeOK
<1>6. asyncData' = asyncDataLatest'[f] /\ asyncData' \in [Kind -> AsyncValue]
  BY <1>5 DEF Finish
<1> QED BY <1>2, <1>4, <1>5, <1>6

\* Another turn of the loop, as facts about loop.
LEMMA LoopStep ==
  ASSUME TypeOK, NEW f \in Fetch, NEW k \in Kind, NEW l \in Loop,
         loop' = [loop EXCEPT ![f] = [loop[f] EXCEPT ![k] = l]]
  PROVE  /\ loop' \in [Fetch -> [Kind -> Loop]]
         /\ loop'[f][k] = l
         /\ \A g \in Fetch, j \in Kind : <<g, j>> # <<f, k>> => loop'[g][j] = loop[g][j]
BY DEF TypeOK

\* A request waits for its delay.
Waits(f, k) == loop' = [loop EXCEPT ![f][k].phase = "waiting"]

LEMMA WaitingStep ==
  ASSUME TypeOK, NEW f \in Fetch, NEW k \in Kind, Waits(f, k)
  PROVE  /\ loop' \in [Fetch -> [Kind -> Loop]]
         /\ loop'[f][k].phase = "waiting" /\ loop'[f][k].sends = loop[f][k].sends
         /\ \A g \in Fetch, j \in Kind : <<g, j>> # <<f, k>> => loop'[g][j] = loop[g][j]
<1>1. PICK l : l = [loop[f][k] EXCEPT !.phase = "waiting"]
  OBVIOUS
<1>a. loop[f][k] \in Loop
  BY DEF TypeOK
<1>b. l.phase = "waiting" /\ l.sends = loop[f][k].sends
  BY <1>1, <1>a DEF Loop
<1>2. l \in Loop /\ l.phase = "waiting" /\ l.sends = loop[f][k].sends
  BY <1>1, <1>a, <1>b, LoopType
<1>3. loop' = [loop EXCEPT ![f] = [loop[f] EXCEPT ![k] = l]]
  BY <1>1 DEF TypeOK, Waits
<1>4. loop'[f][k] = l
  BY <1>2, <1>3, LoopStep
<1>5. /\ loop' \in [Fetch -> [Kind -> Loop]]
      /\ \A g \in Fetch, j \in Kind : <<g, j>> # <<f, k>> => loop'[g][j] = loop[g][j]
  BY <1>2, <1>3, LoopStep
<1> QED BY <1>2, <1>4, <1>5

\* A request is rejected.
LEMMA RejectedStep ==
  ASSUME TypeOK, NEW f \in Fetch, NEW k \in Kind, Rejected(f, k)
  PROVE  /\ loop' \in [Fetch -> [Kind -> Loop]]
         /\ loop'[f][k].phase = "rejected"
         /\ \A g \in Fetch, j \in Kind : <<g, j>> # <<f, k>> => loop'[g][j] = loop[g][j]
<1>1. PICK l : l = [loop[f][k] EXCEPT !.phase = "rejected"]
  OBVIOUS
<1>a. loop[f][k] \in Loop
  BY DEF TypeOK
<1>b. l.phase = "rejected"
  BY <1>1, <1>a DEF Loop
<1>2. l \in Loop /\ l.phase = "rejected"
  BY <1>1, <1>a, <1>b, LoopType
<1>3. loop' = [loop EXCEPT ![f] = [loop[f] EXCEPT ![k] = l]]
  BY <1>1 DEF TypeOK, Rejected
<1>4. loop'[f][k] = l
  BY <1>2, <1>3, LoopStep
<1>5. /\ loop' \in [Fetch -> [Kind -> Loop]]
      /\ \A g \in Fetch, j \in Kind : <<g, j>> # <<f, k>> => loop'[g][j] = loop[g][j]
  BY <1>2, <1>3, LoopStep
<1> QED BY <1>2, <1>4, <1>5

\* A request is sent again.
LEMMA SendAgainStep ==
  ASSUME TypeOK, AttemptShape, NEW f \in Fetch, NEW k \in Kind, SendAgain(f, k)
  PROVE  /\ loop' \in [Fetch -> [Kind -> Loop]]
         /\ loop'[f][k].phase = "sent" /\ loop'[f][k].asked = version
         /\ \A g \in Fetch, j \in Kind : <<g, j>> # <<f, k>> => loop'[g][j] = loop[g][j]
<1>1. PICK n : n = loop[f][k].sends + 1
  OBVIOUS
<1>2. n \in 0 .. MaxSends
  BY <1>1, Numbers DEF TypeOK, Loop, AttemptShape, SendAgain
<1>3. PICK l : l = [loop[f][k] EXCEPT !.phase = "sent", !.sends = n, !.asked = version]
  OBVIOUS
<1>a. loop[f][k] \in Loop /\ version \in {0} \cup Version
  BY DEF TypeOK
<1>4. l \in Loop /\ l.phase = "sent" /\ l.asked = version
  BY <1>2, <1>3, <1>a DEF Loop
<1>5. loop' = [loop EXCEPT ![f] = [loop[f] EXCEPT ![k] = l]]
  BY <1>1, <1>3 DEF TypeOK, SendAgain
<1> QED BY <1>4, <1>5, LoopStep

\* The start of fetchAsyncData, as facts about its call and the others.
LEMMA FetchStep ==
  ASSUME TypeOK, FetchAsyncData
  PROVE  /\ TypeOK'
         /\ fetches + 1 \in Fetch
         /\ \A k \in Kind : /\ loop'[fetches + 1][k].phase = "sent"
                            /\ loop'[fetches + 1][k].asked = version
                            /\ asyncDataLatest'[fetches + 1][k] = Loading
         /\ \A f \in Fetch : f # fetches + 1 =>
              loop'[f] = loop[f] /\ asyncDataLatest'[f] = asyncDataLatest[f]
<1>1. fetches + 1 \in Fetch /\ syncs' \in 0 .. MaxFetches /\ fetches' \in 0 .. MaxFetches
  BY Numbers DEF TypeOK, FetchAsyncData, Fetch
<1>2. PICK l : l = [phase |-> "sent", sends |-> 1, asked |-> version]
  OBVIOUS
<1>3. l \in Loop /\ l.phase = "sent" /\ l.asked = version
  BY <1>2, LoopType DEF TypeOK
<1>4. loop' = [loop EXCEPT ![fetches + 1] = [k \in Kind |-> l]]
  BY <1>2 DEF FetchAsyncData
<1>5. PICK n \in Fetch : n = fetches + 1
  BY <1>1
<1>6. /\ loop' \in [Fetch -> [Kind -> Loop]]
      /\ \A k \in Kind : loop'[n][k] = l
      /\ \A f \in Fetch : f # n => loop'[f] = loop[f]
  BY <1>3, <1>4, <1>5 DEF TypeOK
<1>7. /\ asyncDataLatest' \in [Fetch -> [Kind -> AsyncValue]]
      /\ \A k \in Kind : asyncDataLatest'[n][k] = Loading
      /\ \A f \in Fetch : f # n => asyncDataLatest'[f] = asyncDataLatest[f]
  BY <1>5, AsyncValueType DEF TypeOK, FetchAsyncData
<1>8. asyncData' \in [Kind -> AsyncValue] /\ version' \in Version
  BY AsyncValueType DEF TypeOK, FetchAsyncData
<1>9. TypeOK'
  BY <1>1, <1>6, <1>7, <1>8 DEF TypeOK
<1> QED BY <1>3, <1>5, <1>6, <1>7, <1>9

\* A status 200 ends the request with a version of the app.
LEMMA AnsweredStep ==
  ASSUME TypeOK, AttemptShape, NEW f \in Fetch, NEW k \in Kind, Answered(f, k)
  PROVE  \E result \in AsyncValue : /\ result.loadingState # "loading"
                                    /\ Finish(f, k, result)
<1>1. PICK v \in loop[f][k].asked .. version : Finish(f, k, Complete(v))
  BY DEF Answered
<1>2. loop[f][k].asked \in 1 .. MaxFetches /\ version \in 1 .. MaxFetches /\ MaxFetches \in Nat
  BY Numbers DEF Answered, AttemptShape, TypeOK, Version
<1>3. v \in Version
  BY <1>2 DEF Version
<1>4. Complete(v).loadingState # "loading"
  BY DEF Complete
<1> QED BY <1>1, <1>3, <1>4, AsyncValueType

\* Another status ends it when no attempt is left.
LEMMA OtherStatusStep ==
  ASSUME TypeOK, NEW f \in Fetch, NEW k \in Kind, OtherStatus(f, k)
  PROVE  \/ /\ Waits(f, k)
            /\ loop[f][k].sends < MaxSends
            /\ UNCHANGED <<asyncDataLatest, asyncData>>
         \/ \E result \in AsyncValue : /\ result.loadingState # "loading"
                                       /\ Finish(f, k, result)
<1>1. Failed.loadingState # "loading"
  BY DEF Failed
<1> QED BY <1>1, AsyncValueType DEF OtherStatus, Waits

\* Types are preserved.
LEMMA TypeStep == TypeOK /\ AttemptShape /\ [Next]_vars => TypeOK'
<1> SUFFICES ASSUME TypeOK, AttemptShape, [Next]_vars PROVE TypeOK'
  OBVIOUS
<1>1. CASE Save
  BY <1>1, Numbers DEF Save, TypeOK, Version
<1>2. CASE Refresh
  BY <1>2, Numbers DEF Refresh, TypeOK
<1>3. CASE FetchAsyncData
  BY <1>3, FetchStep
<1>4. ASSUME NEW f \in Fetch, NEW k \in Kind, Answered(f, k) PROVE TypeOK'
  <2>1. PICK result \in AsyncValue : Finish(f, k, result)
    BY <1>4, AnsweredStep
  <2> QED BY <1>4, <2>1, FinishStep DEF Answered, TypeOK
<1>5. ASSUME NEW f \in Fetch, NEW k \in Kind, OtherStatus(f, k) PROVE TypeOK'
  <2>1. CASE Waits(f, k) /\ UNCHANGED <<asyncDataLatest, asyncData>>
    BY <1>5, <2>1, WaitingStep DEF OtherStatus, TypeOK
  <2>2. ASSUME NEW result \in AsyncValue, Finish(f, k, result) PROVE TypeOK'
    BY <1>5, <2>2, FinishStep DEF OtherStatus, TypeOK
  <2> QED BY <1>5, <2>1, <2>2, OtherStatusStep
<1>6. ASSUME NEW f \in Fetch, NEW k \in Kind, SendAgain(f, k) PROVE TypeOK'
  <2>1. loop' \in [Fetch -> [Kind -> Loop]]
    BY <1>6, SendAgainStep
  <2> QED BY <1>6, <2>1 DEF SendAgain, TypeOK
<1>7. ASSUME NEW f \in Fetch, NEW k \in Kind, Rejected(f, k) PROVE TypeOK'
  <2>1. loop' \in [Fetch -> [Kind -> Loop]]
    BY <1>7, RejectedStep
  <2> QED BY <1>7, <2>1 DEF Rejected, TypeOK
<1>8. CASE UNCHANGED vars
  BY <1>8 DEF vars, TypeOK
<1> QED BY <1>1, <1>2, <1>3, <1>4, <1>5, <1>6, <1>7, <1>8 DEF Next, Request

-----------------------------------------------------------------------------
(* The inductive invariant.                                                *)

\* A request with an attempt under way belongs to a call that has begun.
LEMMA UnderWayBegun ==
  ASSUME TypeOK, LatestShape, NEW f \in Fetch, NEW k \in Kind, UnderWay(f, k)
  PROVE  f \in 1 .. fetches
BY Numbers DEF TypeOK, Fetch, LatestShape, UnderWay

\* The initial states.
LEMMA InitIInv == Init => IInv /\ OneCallShown
<1> SUFFICES ASSUME Init PROVE IInv /\ OneCallShown
  OBVIOUS
<1>1. TypeOK
  BY Numbers, AsyncValueType, LoopType DEF Init, TypeOK
<1>2. LatestShape
  <2>1. \A f \in Fetch, k \in Kind : f > 0 /\ loop[f][k].phase = "none"
    BY DEF Init, NoLoop, Fetch
  <2> QED BY <2>1, Numbers DEF Init, LatestShape, Fetch
<1>3. AttemptShape
  <2>1. \A f \in Fetch, k \in Kind : loop[f][k].phase = "none"
    BY DEF Init, NoLoop
  <2> QED BY <2>1 DEF AttemptShape
<1> QED BY <1>1, <1>2, <1>3 DEF IInv, LoadingHasNoResult, OneCallShown, Init

\* The end of a request preserves the invariant: what the page then shows as
\* loading is what the same call has under way.
LEMMA FinishInvariant ==
  ASSUME IInv, NEW f \in Fetch, NEW k \in Kind, UnderWay(f, k),
         NEW result \in AsyncValue, result.loadingState # "loading",
         Finish(f, k, result), UNCHANGED <<version, syncs, fetches>>
  PROVE  LatestShape' /\ AttemptShape' /\ LoadingHasNoResult' /\ OneCallShown'
<1> USE DEF IInv
<1>1. f \in 1 .. fetches /\ f <= fetches
  BY UnderWayBegun
<1>2. /\ asyncData' = asyncDataLatest'[f]
      /\ loop'[f][k].phase = "done"
      /\ asyncDataLatest'[f][k] = result
      /\ \A g \in Fetch, j \in Kind : <<g, j>> # <<f, k>> =>
           loop'[g][j] = loop[g][j] /\ asyncDataLatest'[g][j] = asyncDataLatest[g][j]
  BY FinishStep
<1>3. LatestShape'
  <2> SUFFICES ASSUME NEW g \in Fetch, NEW j \in Kind
               PROVE  /\ g <= fetches' =>
                           (asyncDataLatest'[g][j].loadingState = "loading" <=> NoResult(g, j)')
                      /\ g > fetches' => loop'[g][j].phase = "none"
    BY DEF LatestShape
  <2>1. CASE g = f /\ j = k
    <3>1. f \in Nat /\ fetches \in Nat
      BY DEF Fetch, TypeOK
    <3>2. fetches' = fetches /\ ~(g > fetches')
      BY <1>1, <2>1, <3>1
    <3> QED BY <1>2, <2>1, <3>2 DEF NoResult, UnderWay
  <2>2. CASE <<g, j>> # <<f, k>>
    BY <1>2, <2>2 DEF LatestShape, NoResult, UnderWay
  <2> QED BY <2>1, <2>2
<1>4. AttemptShape'
  <2> SUFFICES ASSUME NEW g \in Fetch, NEW j \in Kind
               PROVE  /\ loop'[g][j].phase = "waiting" => loop'[g][j].sends < MaxSends
                      /\ loop'[g][j].phase = "sent" => loop'[g][j].asked \in Version
    BY DEF AttemptShape
  <2>1. CASE g = f /\ j = k
    BY <1>2, <2>1
  <2>2. CASE <<g, j>> # <<f, k>>
    BY <1>2, <2>2 DEF AttemptShape
  <2> QED BY <2>1, <2>2
<1>5. LoadingHasNoResult'
  <2> SUFFICES ASSUME NEW j \in Kind, asyncData'[j].loadingState = "loading"
               PROVE  NoResult(f, j)'
    BY <1>1 DEF LoadingHasNoResult
  <2>1. j # k
    BY <1>2
  <2>2. loop'[f][j] = loop[f][j] /\ asyncDataLatest[f][j].loadingState = "loading"
    BY <1>2, <2>1
  <2> QED BY <1>1, <2>2 DEF LatestShape, NoResult, UnderWay
<1>6. OneCallShown'
  <2>1. f \in 1 .. fetches'
    BY <1>1 DEF Fetch, TypeOK
  <2> QED BY <1>2, <2>1 DEF OneCallShown
<1> QED BY <1>3, <1>4, <1>5, <1>6

\* A turn of the loop, or its end, that leaves the call without a result does too.
LEMMA TurnInvariant ==
  ASSUME IInv, OneCallShown, NEW f \in Fetch, NEW k \in Kind, UnderWay(f, k), NoResult(f, k)',
         loop'[f][k].phase = "waiting" => loop'[f][k].sends < MaxSends,
         loop'[f][k].phase = "sent" => loop'[f][k].asked \in Version,
         \A g \in Fetch, j \in Kind : <<g, j>> # <<f, k>> => loop'[g][j] = loop[g][j],
         UNCHANGED <<version, syncs, fetches, asyncDataLatest, asyncData>>
  PROVE  LatestShape' /\ AttemptShape' /\ LoadingHasNoResult' /\ OneCallShown'
<1> USE DEF IInv
<1>1. f \in 1 .. fetches /\ f <= fetches
  BY UnderWayBegun
<1>2. \A g \in Fetch, j \in Kind : NoResult(g, j)' <=> NoResult(g, j)
  BY DEF NoResult, UnderWay
<1>3. LatestShape'
  <2> SUFFICES ASSUME NEW g \in Fetch, NEW j \in Kind
               PROVE  /\ g <= fetches' =>
                           (asyncDataLatest'[g][j].loadingState = "loading" <=> NoResult(g, j)')
                      /\ g > fetches' => loop'[g][j].phase = "none"
    BY DEF LatestShape
  <2>1. g <= fetches => (asyncDataLatest[g][j].loadingState = "loading" <=> NoResult(g, j)')
    BY <1>2 DEF LatestShape
  <2>2. g > fetches => loop'[g][j].phase = "none"
    <3>1. f \in Nat /\ fetches \in Nat
      BY DEF Fetch, TypeOK
    <3>2. g > fetches => <<g, j>> # <<f, k>>
      BY <1>1, <3>1
    <3> QED BY <3>2 DEF LatestShape
  <2> QED BY <2>1, <2>2
<1>4. AttemptShape'
  <2> SUFFICES ASSUME NEW g \in Fetch, NEW j \in Kind
               PROVE  /\ loop'[g][j].phase = "waiting" => loop'[g][j].sends < MaxSends
                      /\ loop'[g][j].phase = "sent" => loop'[g][j].asked \in Version
    BY DEF AttemptShape
  <2>1. CASE g = f /\ j = k
    BY <2>1
  <2>2. CASE <<g, j>> # <<f, k>>
    BY <2>2 DEF AttemptShape
  <2> QED BY <2>1, <2>2
<1>5. LoadingHasNoResult'
  <2>1. \A g \in 1 .. fetches : g \in Fetch
    BY Numbers DEF Fetch, TypeOK
  <2> QED BY <1>2, <2>1 DEF LoadingHasNoResult
<1>6. OneCallShown'
  BY DEF OneCallShown
<1> QED BY <1>3, <1>4, <1>5, <1>6

\* A new call of fetchAsyncData has both requests under way.
LEMMA FetchInvariant ==
  ASSUME IInv, FetchAsyncData
  PROVE  LatestShape' /\ AttemptShape' /\ LoadingHasNoResult' /\ OneCallShown'
<1> USE DEF IInv
<1>1. PICK n \in Fetch : n = fetches + 1
  BY FetchStep
<1>2. /\ \A k \in Kind : /\ loop'[n][k].phase = "sent"
                         /\ loop'[n][k].asked = version
                         /\ asyncDataLatest'[n][k] = Loading
      /\ \A f \in Fetch : f # n => loop'[f] = loop[f] /\ asyncDataLatest'[f] = asyncDataLatest[f]
  BY <1>1, FetchStep
<1>3. fetches' = n /\ asyncData' = [k \in Kind |-> Loading] /\ fetches \in Nat /\ n \in Nat
  BY <1>1 DEF FetchAsyncData, TypeOK
<1>4. \A k \in Kind : NoResult(n, k)'
  BY <1>2 DEF NoResult, UnderWay
<1>a. n \in 1 .. fetches'
  BY <1>1, <1>3
<1>5. LatestShape'
  <2> SUFFICES ASSUME NEW g \in Fetch, NEW j \in Kind
               PROVE  /\ g <= fetches' =>
                           (asyncDataLatest'[g][j].loadingState = "loading" <=> NoResult(g, j)')
                      /\ g > fetches' => loop'[g][j].phase = "none"
    BY DEF LatestShape
  <2>1. CASE g = n
    <3>1. asyncDataLatest'[g][j].loadingState = "loading"
      BY <1>2, <2>1 DEF Loading
    <3>2. ~(g > fetches')
      BY <1>3, <2>1
    <3> QED BY <1>4, <2>1, <3>1, <3>2
  <2>2. CASE g # n
    <3>1. (g <= fetches' => g <= fetches) /\ (g > fetches' => g > fetches)
      BY <1>1, <1>3, <2>2 DEF Fetch
    <3> QED BY <1>2, <2>2, <3>1 DEF LatestShape, NoResult, UnderWay
  <2> QED BY <2>1, <2>2
<1>6. AttemptShape'
  <2> SUFFICES ASSUME NEW g \in Fetch, NEW j \in Kind
               PROVE  /\ loop'[g][j].phase = "waiting" => loop'[g][j].sends < MaxSends
                      /\ loop'[g][j].phase = "sent" => loop'[g][j].asked \in Version
    BY DEF AttemptShape
  <2>1. CASE g = n
    BY <1>2, <2>1 DEF TypeOK
  <2>2. CASE g # n
    BY <1>2, <2>2 DEF AttemptShape
  <2> QED BY <2>1, <2>2
<1>7. LoadingHasNoResult'
  BY <1>4, <1>a DEF LoadingHasNoResult
<1>8. OneCallShown'
  <2>1. \A k \in Kind : asyncData'[k].loadingState = "loading"
    BY <1>3 DEF Loading
  <2> QED BY <1>a, <2>1 DEF OneCallShown
<1> QED BY <1>5, <1>6, <1>7, <1>8

\* Every step preserves the invariant.
LEMMA StepIInv == IInv /\ OneCallShown /\ [Next]_vars => IInv' /\ OneCallShown'
<1> SUFFICES ASSUME IInv, OneCallShown, [Next]_vars PROVE IInv' /\ OneCallShown'
  OBVIOUS
<1> DEFINE Rest == LatestShape' /\ AttemptShape' /\ LoadingHasNoResult' /\ OneCallShown'
<1>0. TypeOK'
  BY TypeStep DEF IInv
<1>1. ASSUME UNCHANGED <<fetches, asyncDataLatest, loop, asyncData>> PROVE Rest
  BY <1>1 DEF IInv, LatestShape, AttemptShape, LoadingHasNoResult, OneCallShown, NoResult, UnderWay
<1>2. ASSUME FetchAsyncData PROVE Rest
  BY <1>2, FetchInvariant
<1>3. ASSUME NEW f \in Fetch, NEW k \in Kind, Answered(f, k) PROVE Rest
  <2>1. PICK result \in AsyncValue : result.loadingState # "loading" /\ Finish(f, k, result)
    BY <1>3, AnsweredStep DEF IInv
  <2>2. UnderWay(f, k) /\ UNCHANGED <<version, syncs, fetches>>
    BY <1>3 DEF Answered, UnderWay
  <2> QED BY <2>1, <2>2, FinishInvariant
<1>4. ASSUME NEW f \in Fetch, NEW k \in Kind, OtherStatus(f, k) PROVE Rest
  <2>1. UnderWay(f, k) /\ UNCHANGED <<version, syncs, fetches>>
    BY <1>4 DEF OtherStatus, UnderWay
  <2>2. CASE /\ Waits(f, k)
             /\ loop[f][k].sends < MaxSends
             /\ UNCHANGED <<asyncDataLatest, asyncData>>
    <3>1. /\ loop'[f][k].phase = "waiting" /\ loop'[f][k].sends = loop[f][k].sends
          /\ \A g \in Fetch, j \in Kind : <<g, j>> # <<f, k>> => loop'[g][j] = loop[g][j]
      BY <2>2, WaitingStep DEF IInv
    <3>2. NoResult(f, k)'
      BY <3>1 DEF NoResult, UnderWay
    <3> QED BY <2>1, <2>2, <3>1, <3>2, TurnInvariant
  <2>3. ASSUME NEW result \in AsyncValue, result.loadingState # "loading", Finish(f, k, result)
        PROVE  Rest
    BY <2>1, <2>3, FinishInvariant
  <2> QED BY <1>4, <2>2, <2>3, OtherStatusStep DEF IInv
<1>5. ASSUME NEW f \in Fetch, NEW k \in Kind, SendAgain(f, k) PROVE Rest
  <2>1. /\ loop'[f][k].phase = "sent" /\ loop'[f][k].asked = version
        /\ \A g \in Fetch, j \in Kind : <<g, j>> # <<f, k>> => loop'[g][j] = loop[g][j]
    BY <1>5, SendAgainStep DEF IInv
  <2>2. UnderWay(f, k) /\ NoResult(f, k)' /\ loop'[f][k].asked \in Version
    BY <1>5, <2>1 DEF SendAgain, NoResult, UnderWay, IInv, TypeOK
  <2>3. UNCHANGED <<version, syncs, fetches, asyncDataLatest, asyncData>>
    BY <1>5 DEF SendAgain
  <2> QED BY <2>1, <2>2, <2>3, TurnInvariant
<1>6. ASSUME NEW f \in Fetch, NEW k \in Kind, Rejected(f, k) PROVE Rest
  <2>1. /\ loop'[f][k].phase = "rejected"
        /\ \A g \in Fetch, j \in Kind : <<g, j>> # <<f, k>> => loop'[g][j] = loop[g][j]
    BY <1>6, RejectedStep DEF IInv
  <2>2. UnderWay(f, k) /\ NoResult(f, k)'
    BY <1>6, <2>1 DEF Rejected, NoResult, UnderWay
  <2>3. UNCHANGED <<version, syncs, fetches, asyncDataLatest, asyncData>>
    BY <1>6 DEF Rejected
  <2> QED BY <2>1, <2>2, <2>3, TurnInvariant
<1>7. ASSUME Save \/ Refresh \/ UNCHANGED vars PROVE Rest
  BY <1>1, <1>7 DEF Save, Refresh, vars
<1>8. Rest
  BY <1>2, <1>3, <1>4, <1>5, <1>6, <1>7 DEF Next, Request
<1> QED BY <1>0, <1>8 DEF IInv

-----------------------------------------------------------------------------
(* The theorems.                                                           *)

\* IInv and OneCallShown hold in every reachable state.
THEOREM Inductive == Spec => [](IInv /\ OneCallShown)
BY InitIInv, StepIInv, PTL DEF Spec

\* The variables keep their types: in particular no request is sent more than
\* MaxSends times (AppSettingsDataLoader.tsx:63-78).
THEOREM TypeCorrect == Spec => []TypeOK
<1>1. IInv => TypeOK
  BY DEF IInv
<1> QED BY <1>1, Inductive, PTL

\* What the page shows as loading is what one of its calls has no result of,
\* however many calls overlap: the request is under way, or it was rejected
\* (AppSettingsDataLoader.tsx:298-332, ArmHelper.ts:127-130).
THEOREM LoadingIsAccountedFor == Spec => []LoadingHasNoResult
<1>1. IInv => LoadingHasNoResult
  BY DEF IInv
<1> QED BY <1>1, Inductive, PTL

\* The page never mixes the results of two calls
\* (AppSettingsDataLoader.tsx:304-308, 317-321).
THEOREM NoMixture == Spec => []OneCallShown
BY Inductive, PTL
=============================================================================
