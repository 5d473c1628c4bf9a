------------------------------ MODULE ArmBatch ------------------------------
(***************************************************************************)
(* The batching of calls to the Azure Resource Manager in the React client *)
(* (client-react/src/ApiHelpers/ArmHelper.ts, rxjs 6).                     *)
(*                                                                         *)
(* A call is put in a buffer that is emptied by a timer or when it is full;*)
(* concatMap posts the buffered batches one at a time; the answers of a    *)
(* batch are matched with its requests by position; a batch that fails     *)
(* emits one value without an id, which rejects every waiting call, and as *)
(* no subscriber is left share() drops the buffer and the queued batches.  *)
(* A call with skipBatching is posted on its own.  Every POST is retried   *)
(* at most twice on status 401, with a token asked from the portal.        *)
(*                                                                         *)
(* Calls are numbered in the order in which they are issued.  A POST is    *)
(* identified by its sender: the batcher, or the call that skips batching. *)
(***************************************************************************)
EXTENDS Naturals, Sequences, SequencesExt

CONSTANTS
  MaxCalls,             \* bound: calls issued in a behaviour
  MaxBuffer,            \* maxBufferSize (20)
  CanRefresh            \* window.updateAuthToken is set

ASSUME MaxCallsAssumption == MaxCalls \in Nat
ASSUME MaxBufferAssumption == MaxBuffer \in Nat \ {0}
ASSUME CanRefreshAssumption == CanRefresh \in BOOLEAN

Calls == 1 .. MaxCalls
Batcher == 0
Sender == {Batcher} \cup Calls
MaxRetry == 2
Outcome == {"ok", "error"}

VARIABLES
  issued,               \* number of calls issued so far
  direct,               \* the calls issued with skipBatching
  status,               \* what the promise of each call has become
  buffer,               \* the open buffer of bufferTime
  queue,                \* batches waiting in concatMap
  post,                 \* the POST each sender has under way
  verdict,              \* what ARM has done with each request
  doubt                 \* calls whose POST was given up while on the wire

vars == <<issued, direct, status, buffer, queue, post, verdict, doubt>>

Post == [phase : {"none", "sent", "served", "token"},
         retry : 0 .. MaxRetry, reqs : Seq(Calls), replies : Seq(Outcome)]
NoPost == [phase |-> "none", retry |-> 0, reqs |-> <<>>, replies |-> <<>>]
Sent(reqs) == [phase |-> "sent", retry |-> 0, reqs |-> reqs, replies |-> <<>>]
Requested(p) == ToSet(post[p].reqs)

\* The calls subscribed to armObs$.
Waiters == {c \in Calls \ direct : status[c] = "waiting"}

TypeOK ==
  /\ issued \in 0 .. MaxCalls
  /\ direct \subseteq Calls
  /\ status \in [Calls -> {"idle", "waiting", "ok", "failed", "threw"}]
  /\ buffer \in Seq(Calls)
  /\ queue \in Seq(Seq(Calls))
  /\ post \in [Sender -> Post]
  /\ \A p \in Sender : post[p].phase = "token" => post[p].retry < MaxRetry
  /\ verdict \in [Calls -> {"none"} \cup Outcome]
  /\ doubt \subseteq Calls

Init ==
  /\ issued = 0
  /\ direct = {}
  /\ status = [c \in Calls |-> "idle"]
  /\ buffer = <<>>
  /\ queue = <<>>
  /\ post = [p \in Sender |-> NoPost]
  /\ verdict = [c \in Calls |-> "none"]
  /\ doubt = {}
-----------------------------------------------------------------------------
\* The operators named ..._Bug are plausible mistakes in the code, for checking
\* that the properties see them; nothing uses them.

\* The queue is served last in, first out.
Emit_LifoBug(batch) ==
  \/ /\ post[Batcher].phase = "none"
     /\ post' = [post EXCEPT ![Batcher] = Sent(batch)]
     /\ UNCHANGED queue
  \/ /\ post[Batcher].phase # "none"
     /\ queue' = <<batch>> \o queue
     /\ UNCHANGED post

\* bufferTime emits batch; concatMap posts it, or queues it behind the POST
\* under way.
Emit(batch) ==
  \/ /\ post[Batcher].phase = "none"
     /\ post' = [post EXCEPT ![Batcher] = Sent(batch)]
     /\ UNCHANGED queue
  \/ /\ post[Batcher].phase # "none"
     /\ queue' = Append(queue, batch)
     /\ UNCHANGED post

\* MakeArmCall puts call c in the buffer; a buffer that is full is emitted at
\* once.
Buffered(c) ==
  \/ /\ Len(buffer) + 1 < MaxBuffer
     /\ buffer' = Append(buffer, c)
     /\ UNCHANGED <<queue, post>>
  \/ /\ Len(buffer) + 1 >= MaxBuffer
     /\ buffer' = <<>>
     /\ Emit(Append(buffer, c))

\* MakeArmCall without skipBatching: the promise of the call subscribes to
\* armObs$, then its request goes through armSubject$.
IssueBatched ==
  /\ issued < MaxCalls
  /\ issued' = issued + 1
  /\ status' = [status EXCEPT ![issued + 1] = "waiting"]
  /\ Buffered(issued + 1)
  /\ UNCHANGED <<direct, verdict, doubt>>

\* MakeArmCall with skipBatching: the request is a POST of its own.
IssueDirect ==
  /\ issued < MaxCalls
  /\ issued' = issued + 1
  /\ direct' = direct \cup {issued + 1}
  /\ status' = [status EXCEPT ![issued + 1] = "waiting"]
  /\ post' = [post EXCEPT ![issued + 1] = Sent(<<issued + 1>>)]
  /\ UNCHANGED <<buffer, queue, verdict, doubt>>

\* The timer emits the buffer and keeps it.
FlushTimer_KeepBug ==
  /\ buffer # <<>>
  /\ Emit(buffer)
  /\ UNCHANGED <<issued, direct, status, buffer, verdict, doubt>>

\* The 100 ms timer of bufferTime; an empty buffer is filtered out.
FlushTimer ==
  /\ buffer # <<>>
  /\ buffer' = <<>>
  /\ Emit(buffer)
  /\ UNCHANGED <<issued, direct, status, verdict, doubt>>
-----------------------------------------------------------------------------
\* ARM executes the requests of a POST and has an answer for each, in the order
\* of the requests.
ArmServes(p) ==
  /\ post[p].phase = "sent"
  /\ \E good \in SUBSET Requested(p) :
       LET outcome(c) == IF c \in good THEN "ok" ELSE "error"
       IN  /\ verdict' = [c \in Calls |->
                            IF c \in Requested(p) THEN outcome(c) ELSE verdict[c]]
           /\ post' = [post EXCEPT
                         ![p].phase = "served",
                         ![p].replies = [i \in 1 .. Len(post[p].reqs) |->
                                           outcome(post[p].reqs[i])]]
  /\ UNCHANGED <<issued, direct, status, buffer, queue, doubt>>

\* ARM executes a request that the client has given up.
ArmServesLate(c) ==
  /\ c \in doubt
  /\ verdict[c] = "none"
  /\ \E o \in Outcome : verdict' = [verdict EXCEPT ![c] = o]
  /\ UNCHANGED <<issued, direct, status, buffer, queue, post, doubt>>
-----------------------------------------------------------------------------
\* The ids are shifted by one position.
Responses_ShiftBug(p) ==
  {[id |-> post[p].reqs[(i % Len(post[p].reqs)) + 1], outcome |-> post[p].replies[i]] :
     i \in 1 .. Len(post[p].replies)}

\* The answers of a POST, each with the id of the request at its position.
Responses(p) ==
  {[id |-> post[p].reqs[i], outcome |-> post[p].replies[i]] :
     i \in 1 .. Len(post[p].replies)}

\* The status of an answer is not looked at.
Delivered_StatusBug(p) ==
  [c \in Calls |-> IF \E r \in Responses(p) : r.id = c THEN "ok" ELSE status[c]]

\* The promise of every call that finds its id among the responses settles.
Delivered(p) ==
  [c \in Calls |->
     IF [id |-> c, outcome |-> "ok"] \in Responses(p) THEN "ok"
     ELSE IF [id |-> c, outcome |-> "error"] \in Responses(p) THEN "failed"
     ELSE status[c]]

\* The queue is forgotten when a batch has been answered.
NextBatch_StallBug ==
  /\ post' = [post EXCEPT ![Batcher] = NoPost]
  /\ UNCHANGED queue

\* When a batch has been answered concatMap posts the next one.
NextBatch ==
  \/ /\ queue = <<>>
     /\ post' = [post EXCEPT ![Batcher] = NoPost]
     /\ UNCHANGED queue
  \/ /\ queue # <<>>
     /\ post' = [post EXCEPT ![Batcher] = Sent(Head(queue))]
     /\ queue' = Tail(queue)

AnswerBatch ==
  /\ post[Batcher].phase = "served"
  /\ status' = Delivered(Batcher)
  /\ NextBatch
  /\ UNCHANGED <<issued, direct, buffer, verdict, doubt>>

AnswerDirect(c) ==
  /\ post[c].phase = "served"
  /\ status' = Delivered(c)
  /\ post' = [post EXCEPT ![c] = NoPost]
  /\ UNCHANGED <<issued, direct, buffer, queue, verdict, doubt>>
-----------------------------------------------------------------------------
\* Only the calls of the failed batch are rejected.
FailBatch_OwnBug ==
  /\ status' = [c \in Calls |-> IF c \in Requested(Batcher) THEN "failed" ELSE status[c]]
  /\ buffer' = <<>>
  /\ queue' = <<>>
  /\ post' = [post EXCEPT ![Batcher] = NoPost]

\* Every call is rejected, and the queued batches are still posted.
FailBatch_QueueBug ==
  /\ status' = [c \in Calls |-> IF c \in Waiters THEN "failed" ELSE status[c]]
  /\ UNCHANGED buffer
  /\ NextBatch

\* The batch under way fails: its error has no id, so every waiting call takes
\* it for its own and is rejected (the caller sees success: false); without a
\* subscriber the buffer and the queue of the pipeline are gone.
FailBatch ==
  /\ status' = [c \in Calls |-> IF c \in Waiters THEN "failed" ELSE status[c]]
  /\ buffer' = <<>>
  /\ queue' = <<>>
  /\ post' = [post EXCEPT ![Batcher] = NoPost]

\* A direct call ends with an error status, or its promise is rejected.
FailDirect(c, how) ==
  /\ status' = [status EXCEPT ![c] = how]
  /\ post' = [post EXCEPT ![c] = NoPost]
  /\ UNCHANGED <<buffer, queue>>

Fail(p, how) ==
  /\ \/ p = Batcher /\ FailBatch
     \/ p \in Calls /\ FailDirect(p, how)
  /\ UNCHANGED <<issued, direct, verdict>>

\* ARM refuses the token with status 401; the client asks for another one.
Unauthorized(p) ==
  /\ post[p].phase = "sent"
  /\ CanRefresh
  /\ post[p].retry < MaxRetry
  /\ post' = [post EXCEPT ![p].phase = "token"]
  /\ UNCHANGED <<issued, direct, status, buffer, queue, verdict, doubt>>

\* The portal sends the token; the same request is sent again.
TokenGranted(p) ==
  /\ post[p].phase = "token"
  /\ post' = [post EXCEPT ![p].phase = "sent", ![p].retry = post[p].retry + 1]
  /\ UNCHANGED <<issued, direct, status, buffer, queue, verdict, doubt>>

\* The portal refuses, or the page has no window.appsvc.env: makeArmRequest
\* throws.
TokenRefused(p) ==
  /\ post[p].phase = "token"
  /\ Fail(p, "threw")
  /\ UNCHANGED doubt

\* Status 401 that is not retried.
StillUnauthorized(p) ==
  /\ post[p].phase = "sent"
  /\ ~CanRefresh \/ post[p].retry = MaxRetry
  /\ Fail(p, "failed")
  /\ UNCHANGED doubt

\* Another status of 300 or more for the whole POST: whether its requests have
\* been, or will be, executed is unknown.
ErrorReply(p) ==
  /\ post[p].phase \in {"sent", "served"}
  /\ Fail(p, "failed")
  /\ doubt' = doubt \cup Requested(p)

\* A request whose connection broke is sent again.
NetworkError_ResendBug(p) ==
  /\ post[p].phase \in {"sent", "served"}
  /\ post' = [post EXCEPT ![p].phase = "sent", ![p].replies = <<>>]
  /\ UNCHANGED <<issued, direct, status, buffer, queue, verdict, doubt>>

\* axios rejects: no answer arrived.
NetworkError(p) ==
  /\ post[p].phase \in {"sent", "served"}
  /\ Fail(p, "threw")
  /\ doubt' = doubt \cup Requested(p)
-----------------------------------------------------------------------------
\* What ends the wait of sender p for ARM, and for the portal.
ArmReplies(p) ==
  \/ p = Batcher /\ AnswerBatch
  \/ p \in Calls /\ AnswerDirect(p)
  \/ Unauthorized(p)
  \/ StillUnauthorized(p)
  \/ ErrorReply(p)
  \/ NetworkError(p)

PortalReplies(p) == TokenGranted(p) \/ TokenRefused(p)

Next ==
  \/ IssueBatched
  \/ IssueDirect
  \/ FlushTimer
  \/ \E p \in Sender : ArmServes(p) \/ ArmReplies(p) \/ PortalReplies(p)
  \/ \E c \in Calls : ArmServesLate(c)

Spec == Init /\ [][Next]_vars

\* The timer fires; a request that ARM or the network has is answered or fails;
\* the portal answers a request for a token.  Nobody has to issue a call.
Fairness ==
  /\ WF_vars(FlushTimer)
  /\ \A p \in Sender : WF_vars(ArmReplies(p)) /\ WF_vars(PortalReplies(p))

FairSpec == Spec /\ Fairness
-----------------------------------------------------------------------------
\* No request is lost inside the client: the batched calls that wait are those
\* in the buffer, in the queue and in the POST of the batcher, and a direct call
\* waits exactly while it has a POST (ArmHelper.ts:40-86, a waiter left out of
\* the pipeline would never settle).
Members(batches) == UNION {ToSet(batches[i]) : i \in 1 .. Len(batches)}
Queued == Members(queue)

NoOrphan ==
  /\ Waiters = Requested(Batcher) \cup Queued \cup ToSet(buffer)
  /\ \A c \in Calls : (c \in direct /\ status[c] = "waiting") <=> post[c].phase # "none"

\* A caller is told success only if ARM executed its own request and answered
\* with success, and a request answered with success is reported as a failure
\* only when its answer was lost (ArmHelper.ts:74-76, ids are given back by
\* position).
OwnAnswer ==
  \A c \in Calls :
    /\ status[c] = "ok" => verdict[c] = "ok"
    /\ status[c] \in {"failed", "threw"} /\ verdict[c] = "ok" => c \in doubt

\* Batched requests are executed in the order of the calls: when ARM has executed
\* one, no earlier batched call still waits to be executed (concatMap,
\* ArmHelper.ts:43).
InOrder ==
  \A c, d \in Calls \ direct :
    c < d /\ verdict[d] # "none" /\ status[c] = "waiting" => verdict[c] # "none"

\* Batched calls settle in the order in which they were issued, a failure
\* included: none is settled while an earlier one waits (ArmHelper.ts:43,84).
SettledInOrder ==
  \A c, d \in Calls \ direct :
    c < d /\ status[d] \in {"ok", "failed", "threw"} => status[c] # "waiting"

\* A batch holds at most MaxBuffer requests, wherever it is (ArmHelper.ts:41).
BatchBound ==
  /\ Len(buffer) < MaxBuffer
  /\ Len(post[Batcher].reqs) <= MaxBuffer
  /\ \A i \in 1 .. Len(queue) : 0 < Len(queue[i]) /\ Len(queue[i]) <= MaxBuffer

\* What is needed besides to make these properties inductive: only issued calls
\* have a history; a request in a POST is executed exactly when ARM has served
\* the POST, and its answer is there at its position; a request in doubt is
\* settled; the pipeline holds the calls in the order in which they were issued.
History ==
  /\ \A c \in Calls : status[c] = "idle" <=> c > issued
  /\ \A c \in Calls : status[c] = "idle" => c \notin direct /\ verdict[c] = "none"
  /\ \A c \in doubt : status[c] \in {"failed", "threw"}
  /\ \A c \in Calls : verdict[c] # "none" /\ status[c] = "waiting" =>
       \E p \in Sender : post[p].phase = "served" /\ c \in Requested(p)

PostShape ==
  /\ \A p \in Sender : post[p].phase = "none" => post[p].reqs = <<>>
  /\ \A c \in Calls : post[c].phase # "none" => post[c].reqs = <<c>>
  /\ \A p \in Sender : post[p].phase \in {"sent", "token"} =>
       \A c \in Requested(p) : verdict[c] = "none"
  /\ \A p \in Sender : post[p].phase = "served" =>
       /\ Len(post[p].replies) = Len(post[p].reqs)
       /\ \A i \in 1 .. Len(post[p].reqs) : post[p].replies[i] = verdict[post[p].reqs[i]]

Precede(S, T) == \A c \in S, d \in T : c < d

PipelineOrder ==
  /\ Precede(Requested(Batcher), Queued \cup ToSet(buffer))
  /\ Precede(Queued, ToSet(buffer))
  /\ \A i, j \in 1 .. Len(queue) : i < j => Precede(ToSet(queue[i]), ToSet(queue[j]))
  /\ post[Batcher].phase = "none" => queue = <<>>

IInv ==
  /\ TypeOK
  /\ History
  /\ PostShape
  /\ PipelineOrder
  /\ NoOrphan
  /\ OwnAnswer
  /\ SettledInOrder

\* A request executed by ARM is never executed again, whatever is retried
\* (ArmHelper.ts:112-122).
AtMostOnce ==
  [][\A c \in Calls : verdict[c] # "none" => verdict'[c] = verdict[c]]_vars

\* ARM never starts on a request after its caller was told of a failure, unless
\* the request had left the browser: a call that fails because another batch
\* failed is not executed behind the caller's back (ArmHelper.ts:84-85).
NoPhantomExecution ==
  [][\A c \in Calls : verdict'[c] # verdict[c] => status[c] = "waiting" \/ c \in doubt]_vars

\* Every call issued is answered (ArmHelper.ts:134).
EveryCallSettles ==
  \A c \in Calls : status[c] = "waiting" ~> status[c] # "waiting"

\* The catch of makeArmRequest is not reached ("This shouldn't be hit since
\* we're telling axios to not throw on error", ArmHelper.ts:128): a direct call
\* would see it as a rejected promise.
CatchNotReached == \A c \in Calls : status[c] # "threw"

\* The pipeline implements the abstract view of a call.
Abstract == INSTANCE ArmCalls WITH
              Calls <- Calls, status <- status, verdict <- verdict, doubt <- doubt
ImplementsCalls == Abstract!Spec
=============================================================================
