--------------------------- MODULE ArmBatchProofs ---------------------------
(***************************************************************************)
(* Theorems about ArmBatch, for every number of calls and every size of    *)
(* the buffer.                                                             *)
(***************************************************************************)
EXTENDS ArmBatch, SequenceTheorems, TLAPS

-----------------------------------------------------------------------------
(* What the sequences of the pipeline contain.                             *)

\* An empty buffer contains no call.
LEMMA ToSetEmpty == ToSet(<<>>) = {}
BY DEF ToSet

\* A POST of one request contains that request.
LEMMA ToSetSingle == \A e : ToSet(<<e>>) = {e}
BY DEF ToSet

\* The members of a sequence are elements of the set it is over.
LEMMA ToSetType ==
  ASSUME NEW S, NEW s \in Seq(S)
  PROVE  /\ ToSet(s) \subseteq S
         /\ ToSet(s) = {s[i] : i \in 1 .. Len(s)}
BY DEF ToSet

\* Append adds one member (armSubject$.next puts a request in the buffer).
LEMMA ToSetAppend ==
  ASSUME NEW S, NEW s \in Seq(S), NEW e \in S
  PROVE  ToSet(Append(s, e)) = ToSet(s) \cup {e}
<1>1. /\ Append(s, e) \in Seq(S)
      /\ Len(s) \in Nat
      /\ Len(Append(s, e)) = Len(s) + 1
  OBVIOUS
<1>2. \A i \in 1 .. Len(s) + 1 : Append(s, e)[i] = IF i = Len(s) + 1 THEN e ELSE s[i]
  OBVIOUS
<1>3. ToSet(Append(s, e)) = {Append(s, e)[i] : i \in 1 .. Len(s) + 1}
  BY <1>1, ToSetType
<1>4. ToSet(s) = {s[i] : i \in 1 .. Len(s)}
  BY ToSetType
<1>5. 1 .. Len(s) + 1 = (1 .. Len(s)) \cup {Len(s) + 1}
  BY <1>1
<1>6. \A i \in 1 .. Len(s) : i # Len(s) + 1
  BY <1>1
<1> QED
  BY <1>2, <1>3, <1>4, <1>5, <1>6

\* Queueing a batch adds its requests to those queued.
LEMMA MembersAppend ==
  ASSUME NEW q \in Seq(Seq(Calls)), NEW b \in Seq(Calls)
  PROVE  Members(Append(q, b)) = Members(q) \cup ToSet(b)
<1>1. /\ Len(q) \in Nat
      /\ Len(Append(q, b)) = Len(q) + 1
      /\ \A i \in 1 .. Len(q) : Append(q, b)[i] = q[i]
      /\ Append(q, b)[Len(q) + 1] = b
  BY AppendProperties
<1>2. 1 .. Len(q) + 1 = (1 .. Len(q)) \cup {Len(q) + 1}
  BY <1>1
<1> QED BY <1>1, <1>2 DEF Members

\* The queue holds the requests of its first batch and those of the others.
LEMMA MembersTail ==
  ASSUME NEW q \in Seq(Seq(Calls)), q # <<>>
  PROVE  /\ Members(q) = ToSet(Head(q)) \cup Members(Tail(q))
         /\ \A i \in 1 .. Len(Tail(q)) : i + 1 \in 1 .. Len(q) /\ Tail(q)[i] = q[i + 1]
         /\ 1 \in 1 .. Len(q) /\ Head(q) = q[1]
<1>1. /\ Len(q) \in Nat \ {0}
      /\ Len(Tail(q)) = Len(q) - 1
      /\ \A i \in 1 .. Len(Tail(q)) : Tail(q)[i] = q[i + 1]
      /\ Head(q) = q[1]
  BY HeadTailProperties, EmptySeq
<1>2. \A i \in 1 .. Len(Tail(q)) : i + 1 \in 1 .. Len(q)
  BY <1>1
<1>3. \A i \in 1 .. Len(q) : i = 1 \/ (i - 1 \in 1 .. Len(Tail(q)) /\ Tail(q)[i - 1] = q[i])
  BY <1>1
<1>4. 1 \in 1 .. Len(q)
  BY <1>1
<1>5. Members(q) \subseteq ToSet(Head(q)) \cup Members(Tail(q))
  BY <1>1, <1>3 DEF Members
<1>6. ToSet(Head(q)) \cup Members(Tail(q)) \subseteq Members(q)
  BY <1>1, <1>2, <1>4 DEF Members
<1> QED BY <1>1, <1>2, <1>4, <1>5, <1>6

\* An empty queue holds no request.
LEMMA MembersEmpty == Members(<<>>) = {}
BY DEF Members

-----------------------------------------------------------------------------
(* Types.                                                                  *)

\* NoPost and a POST just sent are POSTs.
LEMMA PostType ==
  ASSUME NEW reqs \in Seq(Calls)
  PROVE  NoPost \in Post /\ Sent(reqs) \in Post
BY EmptySeq DEF Post, NoPost, Sent, MaxRetry

\* Emitting a batch keeps the types of the queue and of the POSTs.
LEMMA EmitType ==
  ASSUME TypeOK, NEW batch \in Seq(Calls), Emit(batch)
  PROVE  /\ queue' \in Seq(Seq(Calls))
         /\ post' \in [Sender -> Post]
         /\ \A p \in Sender : post'[p].phase = "token" => post'[p].retry < MaxRetry
<1>1. CASE post[Batcher].phase = "none"
  <2>1. post' = [post EXCEPT ![Batcher] = Sent(batch)] /\ queue' = queue
    BY <1>1 DEF Emit
  <2>2. Sent(batch) \in Post /\ Sent(batch).phase = "sent"
    BY PostType DEF Sent
  <2> QED BY <2>1, <2>2 DEF TypeOK, Sender
<1>2. CASE post[Batcher].phase # "none"
  <2>1. \A S : \A q \in Seq(S), e \in S : Append(q, e) \in Seq(S)
    OBVIOUS
  <2>2. queue' = Append(queue, batch) /\ post' = post
    BY <1>2 DEF Emit
  <2> QED BY <2>1, <2>2 DEF TypeOK
<1> QED BY <1>1, <1>2

\* Settling the calls that found an answer keeps the type of status.
LEMMA DeliveredType ==
  ASSUME TypeOK, NEW p \in Sender, status' = Delivered(p)
  PROVE  status' \in [Calls -> {"idle", "waiting", "ok", "failed", "threw"}]
BY DEF TypeOK, Delivered

\* The batcher is not a call.
LEMMA BatcherNotCall == Batcher \notin Calls
BY MaxCallsAssumption DEF Batcher, Calls

\* A failure keeps the types.
LEMMA FailType ==
  ASSUME TypeOK, NEW p \in Sender, NEW how \in {"failed", "threw"}, Fail(p, how),
         doubt' \subseteq Calls
  PROVE  TypeOK'
<1>1. NoPost \in Post /\ NoPost.phase = "none"
  BY PostType, EmptySeq DEF NoPost
<1>2. CASE p = Batcher
  <2>1. FailBatch /\ UNCHANGED <<issued, direct, verdict>>
    BY <1>2, BatcherNotCall DEF Fail
  <2>2. \A S : <<>> \in Seq(S)
    OBVIOUS
  <2>3. buffer' \in Seq(Calls) /\ queue' \in Seq(Seq(Calls))
    BY <2>1, <2>2 DEF FailBatch
  <2> QED BY <1>1, <1>2, <2>1, <2>3 DEF TypeOK, FailBatch
<1>3. CASE p \in Calls
  <2>1. FailDirect(p, how) /\ UNCHANGED <<issued, direct, verdict>>
    BY <1>3, BatcherNotCall DEF Fail
  <2> QED BY <1>1, <1>3, <2>1 DEF TypeOK, FailDirect
<1> QED BY <1>2, <1>3 DEF Sender

-----------------------------------------------------------------------------
\* The initial state has the types.
LEMMA InitType == Init => TypeOK
<1>1. NoPost \in Post /\ NoPost.phase = "none"
  BY PostType, EmptySeq DEF NoPost
<1>2. \A S : <<>> \in Seq(S)
  OBVIOUS
<1> QED BY <1>1, <1>2, MaxCallsAssumption DEF Init, TypeOK, Outcome

\* Every step keeps the types.
LEMMA StepType ==
  ASSUME TypeOK, Next
  PROVE  TypeOK'
<1>1. CASE IssueBatched
  <2>1. issued + 1 \in Calls
    BY <1>1, MaxCallsAssumption DEF IssueBatched, TypeOK, Calls
  <2>2. Append(buffer, issued + 1) \in Seq(Calls)
    BY <2>1 DEF TypeOK
  <2>3. buffer' \in Seq(Calls)
    BY <1>1, <2>2, EmptySeq DEF IssueBatched, Buffered, TypeOK
  <2>4. /\ queue' \in Seq(Seq(Calls))
        /\ post' \in [Sender -> Post]
        /\ \A p \in Sender : post'[p].phase = "token" => post'[p].retry < MaxRetry
    BY <1>1, <2>2, EmitType DEF IssueBatched, Buffered, TypeOK
  <2> QED BY <1>1, <2>1, <2>3, <2>4 DEF IssueBatched, TypeOK, Calls
<1>2. CASE IssueDirect
  <2>1. issued + 1 \in Calls
    BY <1>2, MaxCallsAssumption DEF IssueDirect, TypeOK, Calls
  <2>2. <<issued + 1>> \in Seq(Calls)
    BY <2>1
  <2>3. Sent(<<issued + 1>>) \in Post /\ Sent(<<issued + 1>>).phase = "sent"
    BY <2>2, PostType DEF Sent
  <2>4. issued' \in 0 .. MaxCalls
    BY <1>2, <2>1 DEF IssueDirect, Calls
  <2>5. direct' \subseteq Calls
    BY <1>2, <2>1 DEF IssueDirect, TypeOK
  <2>6. status' \in [Calls -> {"idle", "waiting", "ok", "failed", "threw"}]
    BY <1>2 DEF IssueDirect, TypeOK
  <2>7. /\ post' \in [Sender -> Post]
        /\ \A p \in Sender : post'[p].phase = "token" => post'[p].retry < MaxRetry
    BY <1>2, <2>3 DEF IssueDirect, TypeOK
  <2> QED BY <1>2, <2>4, <2>5, <2>6, <2>7 DEF IssueDirect, TypeOK
<1>3. CASE FlushTimer
  BY <1>3, EmitType, EmptySeq DEF FlushTimer, TypeOK
<1>4. ASSUME NEW p \in Sender, ArmServes(p)
      PROVE  TypeOK'
  <2>1. PICK good \in SUBSET Requested(p) : ArmServes(p)!2!(good)
    BY <1>4 DEF ArmServes
  <2>2. verdict' \in [Calls -> {"none"} \cup Outcome]
    BY <2>1 DEF TypeOK, Outcome
  <2>3. [i \in 1 .. Len(post[p].reqs) |-> IF post[p].reqs[i] \in good THEN "ok" ELSE "error"]
          \in Seq(Outcome)
    <3>1. Len(post[p].reqs) \in Nat
      BY DEF TypeOK, Post
    <3> QED BY <3>1 DEF Outcome
  <2>4. /\ post' \in [Sender -> Post]
        /\ \A q \in Sender : post'[q].phase = "token" => post'[q].retry < MaxRetry
    BY <2>1, <2>3 DEF TypeOK, Post
  <2> QED BY <1>4, <2>2, <2>4 DEF ArmServes, TypeOK
<1>5. ASSUME NEW p \in Sender, ArmReplies(p)
      PROVE  TypeOK'
  <2>0. NoPost \in Post /\ NoPost.phase = "none"
    BY PostType, EmptySeq DEF NoPost
  <2>1. CASE p = Batcher /\ AnswerBatch
    <3>1. status' \in [Calls -> {"idle", "waiting", "ok", "failed", "threw"}]
      BY <2>1, DeliveredType DEF AnswerBatch
    <3>2. CASE queue = <<>>
      BY <2>0, <2>1, <3>1, <3>2 DEF AnswerBatch, NextBatch, TypeOK
    <3>3. CASE queue # <<>>
      <4>1. Head(queue) \in Seq(Calls) /\ Tail(queue) \in Seq(Seq(Calls))
        BY <3>3, HeadTailProperties DEF TypeOK
      <4>2. Sent(Head(queue)) \in Post /\ Sent(Head(queue)).phase = "sent"
        BY <4>1, PostType DEF Sent
      <4> QED BY <2>1, <3>1, <3>3, <4>1, <4>2 DEF AnswerBatch, NextBatch, TypeOK
    <3> QED BY <3>2, <3>3
  <2>2. CASE p \in Calls /\ AnswerDirect(p)
    BY <2>0, <2>2, DeliveredType DEF AnswerDirect, TypeOK
  <2>3. CASE Unauthorized(p)
    BY <2>3 DEF Unauthorized, TypeOK, Post
  <2>4. Requested(p) \subseteq Calls
    BY ToSetType DEF TypeOK, Requested, Post
  <2>5. CASE StillUnauthorized(p)
    BY <2>5, FailType DEF StillUnauthorized, TypeOK
  <2>6. CASE ErrorReply(p)
    BY <2>4, <2>6, FailType DEF ErrorReply, TypeOK
  <2>7. CASE NetworkError(p)
    BY <2>4, <2>7, FailType DEF NetworkError, TypeOK
  <2> QED BY <1>5, <2>1, <2>2, <2>3, <2>5, <2>6, <2>7 DEF ArmReplies
<1>6. ASSUME NEW p \in Sender, PortalReplies(p)
      PROVE  TypeOK'
  <2>1. CASE TokenGranted(p)
    <3>1. post[p].retry + 1 \in 0 .. MaxRetry
      <4>1. post[p] \in Post /\ post[p].retry < MaxRetry
        BY <2>1 DEF TokenGranted, TypeOK
      <4>2. post[p].retry \in 0 .. MaxRetry
        BY <4>1 DEF Post
      <4> QED BY <4>1, <4>2 DEF MaxRetry
    <3>2. /\ post' \in [Sender -> Post]
          /\ \A q \in Sender : post'[q].phase = "token" => post'[q].retry < MaxRetry
      BY <2>1, <3>1 DEF TokenGranted, TypeOK, Post
    <3> QED BY <2>1, <3>2 DEF TokenGranted, TypeOK
  <2>2. CASE TokenRefused(p)
    BY <2>2, FailType DEF TokenRefused, TypeOK
  <2> QED BY <1>6, <2>1, <2>2 DEF PortalReplies
<1>7. ASSUME NEW c \in Calls, ArmServesLate(c)
      PROVE  TypeOK'
  BY <1>7 DEF ArmServesLate, TypeOK
<1> QED BY <1>1, <1>2, <1>3, <1>4, <1>5, <1>6, <1>7 DEF Next

\* Type correctness: the variables keep their types in every behaviour, the
\* bound of two token refreshes of makeArmRequest included.
THEOREM TypeCorrect == Spec => []TypeOK
<1>1. Init => TypeOK
  BY InitType
<1>2. TypeOK /\ [Next]_vars => TypeOK'
  <2>1. CASE Next
    BY <2>1, StepType
  <2>2. CASE UNCHANGED vars
    BY <2>2 DEF vars, TypeOK
  <2> QED BY <2>1, <2>2
<1> QED BY <1>1, <1>2, PTL DEF Spec

-----------------------------------------------------------------------------
(* The pipeline.                                                           *)

\* A batch emitted joins the pipeline behind all that is there, and leaves the
\* POSTs under way alone.
LEMMA EmitStep ==
  ASSUME TypeOK, PostShape, PipelineOrder,
         NEW batch \in Seq(Calls), Emit(batch),
         Precede(Requested(Batcher) \cup Queued, ToSet(batch)),
         \A c \in ToSet(batch) : verdict[c] = "none",
         verdict' = verdict
  PROVE  /\ (Requested(Batcher) \cup Queued)' = Requested(Batcher) \cup Queued \cup ToSet(batch)
         /\ Precede(Requested(Batcher), Queued)'
         /\ \A i, j \in 1 .. Len(queue') :
              i < j => Precede(ToSet(queue'[i]), ToSet(queue'[j]))
         /\ post'[Batcher].phase # "none"
         /\ \A p \in Sender : p # Batcher \/ post[p].phase # "none" => post'[p] = post[p]
         /\ PostShape'
<1>1. CASE post[Batcher].phase = "none"
  <2>1. post' = [post EXCEPT ![Batcher] = Sent(batch)] /\ queue' = queue
    BY <1>1 DEF Emit
  <2>2. queue = <<>> /\ post[Batcher].reqs = <<>>
    BY <1>1 DEF PipelineOrder, PostShape, Sender
  <2>3. Queued = {} /\ Queued' = {} /\ Requested(Batcher) = {}
    BY <2>1, <2>2, MembersEmpty, ToSetEmpty DEF Queued, Requested
  <2>4. post'[Batcher] = Sent(batch)
    BY <2>1 DEF TypeOK, Sender
  <2>5. Requested(Batcher)' = ToSet(batch)
    BY <2>4 DEF Requested, Sent
  <2>6. \A p \in Sender : p # Batcher => post'[p] = post[p]
    BY <2>1 DEF TypeOK
  <2>7. PostShape'
    <3>1. \A c \in Calls : c # Batcher /\ c \in Sender
      BY BatcherNotCall DEF Sender
    <3>2. /\ post'[Batcher].phase = "sent"
          /\ \A p \in Sender : p # Batcher => Requested(p)' = Requested(p)
      BY <2>4, <2>6 DEF Sent, Requested
    <3> QED BY <2>5, <2>6, <3>1, <3>2 DEF PostShape
  <2>8. /\ \A i, j \in 1 .. Len(queue') :
              i < j => Precede(ToSet(queue'[i]), ToSet(queue'[j]))
    BY <2>1 DEF PipelineOrder
  <2> QED BY <1>1, <2>3, <2>4, <2>5, <2>6, <2>7, <2>8 DEF Sent, Precede
<1>2. CASE post[Batcher].phase # "none"
  <2>1. post' = post /\ queue' = Append(queue, batch)
    BY <1>2 DEF Emit
  <2>2. queue \in Seq(Seq(Calls))
    BY DEF TypeOK
  <2>3. Queued' = Queued \cup ToSet(batch)
    BY <2>1, <2>2, MembersAppend DEF Queued
  <2>4. Requested(Batcher)' = Requested(Batcher)
    BY <2>1 DEF Requested
  <2>5. Precede(Requested(Batcher), Queued)'
    BY <2>3, <2>4 DEF PipelineOrder, Precede
  <2>6. ASSUME NEW i \in 1 .. Len(queue'), NEW j \in 1 .. Len(queue'), i < j
        PROVE  Precede(ToSet(queue'[i]), ToSet(queue'[j]))
    <3>1. /\ Len(queue) \in Nat
          /\ Len(queue') = Len(queue) + 1
          /\ \A k \in 1 .. Len(queue) : queue'[k] = queue[k]
          /\ queue'[Len(queue) + 1] = batch
      BY <2>1, <2>2, AppendProperties
    <3>2. i \in 1 .. Len(queue) /\ (j \in 1 .. Len(queue) \/ j = Len(queue) + 1)
      BY <2>6, <3>1
    <3>3. ToSet(queue[i]) \subseteq Queued
      BY <3>2 DEF Queued, Members
    <3>4. CASE j \in 1 .. Len(queue)
      BY <2>6, <3>1, <3>2, <3>4 DEF PipelineOrder
    <3>5. CASE j = Len(queue) + 1
      <4>1. queue'[i] = queue[i] /\ queue'[j] = batch
        BY <3>1, <3>2, <3>5
      <4> QED BY <3>3, <4>1 DEF Precede
    <3> QED BY <3>2, <3>4, <3>5
  <2>7. PostShape'
    BY <2>1 DEF PostShape, Requested
  <2> QED BY <1>2, <2>1, <2>3, <2>4, <2>5, <2>6, <2>7
<1> QED BY <1>1, <1>2

\* The calls of the pipeline wait, and were issued before any call to come.
LEMMA PipelineWaits ==
  ASSUME IInv
  PROVE  /\ \A c \in Requested(Batcher) \cup Queued \cup ToSet(buffer) :
              c \in Calls /\ c \notin direct /\ status[c] = "waiting" /\ c <= issued
         /\ \A c \in Queued \cup ToSet(buffer) : verdict[c] = "none"
         /\ \A p \in Sender : \A c \in Requested(p) : c \in Calls /\ status[c] = "waiting"
         /\ \A p \in Calls : \A c \in Requested(p) : c = p /\ p \in direct
<1>1. \A c \in Requested(Batcher) \cup Queued \cup ToSet(buffer) :
        c \in Calls /\ c \notin direct /\ status[c] = "waiting"
  BY DEF IInv, NoOrphan, Waiters
<1>2. \A c \in Calls : status[c] = "waiting" => c <= issued
  BY DEF IInv, History, TypeOK, Calls
<1>3. ASSUME NEW p \in Calls, NEW c \in Requested(p)
      PROVE  c = p /\ p \in direct /\ status[p] = "waiting"
  <2>1. post[p].phase # "none" /\ post[p].reqs = <<p>>
    BY <1>3, ToSetEmpty DEF IInv, PostShape, Requested, Sender
  <2> QED BY <1>3, <2>1, ToSetSingle DEF IInv, NoOrphan, Requested
<1>4. ASSUME NEW c \in Queued \cup ToSet(buffer)
      PROVE  verdict[c] = "none"
  <2>1. SUFFICES ASSUME verdict[c] # "none" PROVE FALSE
    OBVIOUS
  <2>2. PICK p \in Sender : post[p].phase = "served" /\ c \in Requested(p)
    BY <1>1, <1>4, <2>1 DEF IInv, History
  <2>3. p = Batcher
    BY <1>1, <1>3, <1>4, <2>2 DEF Sender
  <2>4. c < c /\ c \in Nat
    BY <1>1, <1>4, <2>2, <2>3 DEF IInv, PipelineOrder, Precede, Calls
  <2> QED BY <2>4
<1> QED BY <1>1, <1>2, <1>3, <1>4 DEF Sender

\* A call put in the buffer joins the pipeline, in the buffer or in a batch.
LEMMA BufferedStep ==
  ASSUME IInv, NEW c \in Calls, c = issued + 1, Buffered(c), verdict' = verdict
  PROVE  /\ (Requested(Batcher) \cup Queued \cup ToSet(buffer))'
              = Requested(Batcher) \cup Queued \cup ToSet(buffer) \cup {c}
         /\ \A p \in Sender : p # Batcher \/ post[p].phase # "none" => post'[p] = post[p]
         /\ PostShape'
         /\ PipelineOrder'
<1>1. /\ TypeOK /\ PostShape /\ PipelineOrder
      /\ buffer \in Seq(Calls) /\ issued \in Nat
  BY DEF IInv, TypeOK
<1>2. \A d \in Requested(Batcher) \cup Queued \cup ToSet(buffer) : d \in Nat /\ d < c
  BY <1>1, PipelineWaits DEF Calls
<1>3. verdict[c] = "none" /\ \A d \in ToSet(buffer) : verdict[d] = "none"
  <2>1. c > issued
    BY <1>1
  <2>2. verdict[c] = "none"
    BY <2>1 DEF IInv, History
  <2> QED BY <2>2, PipelineWaits
<1>4. Append(buffer, c) \in Seq(Calls) /\ ToSet(Append(buffer, c)) = ToSet(buffer) \cup {c}
  BY <1>1, ToSetAppend
<1>5. Precede(Requested(Batcher) \cup Queued, ToSet(Append(buffer, c)))
  BY <1>1, <1>2, <1>4 DEF PipelineOrder, Precede
<1>6. CASE buffer' = Append(buffer, c) /\ UNCHANGED <<queue, post>>
  <2>1. Requested(Batcher)' = Requested(Batcher) /\ Queued' = Queued
    BY <1>6 DEF Requested, Queued
  <2>2. PipelineOrder'
    BY <1>1, <1>4, <1>5, <1>6, <2>1 DEF PipelineOrder, Precede
  <2>3. PostShape'
    BY <1>1, <1>6 DEF PostShape, Requested
  <2> QED BY <1>4, <1>6, <2>1, <2>2, <2>3
<1>7. CASE buffer' = <<>> /\ Emit(Append(buffer, c))
  <2>1. /\ (Requested(Batcher) \cup Queued)' = Requested(Batcher) \cup Queued \cup ToSet(buffer) \cup {c}
        /\ Precede(Requested(Batcher), Queued)'
        /\ \A i, j \in 1 .. Len(queue') :
              i < j => Precede(ToSet(queue'[i]), ToSet(queue'[j]))
        /\ post'[Batcher].phase # "none"
        /\ \A p \in Sender : p # Batcher \/ post[p].phase # "none" => post'[p] = post[p]
        /\ PostShape'
    BY <1>1, <1>3, <1>4, <1>5, <1>7, EmitStep
  <2>2. ToSet(buffer)' = {}
    BY <1>7, ToSetEmpty
  <2>3. PipelineOrder'
    BY <2>1, <2>2 DEF PipelineOrder, Precede
  <2> QED BY <2>1, <2>2, <2>3
<1> QED BY <1>6, <1>7 DEF Buffered

-----------------------------------------------------------------------------
(* Each action keeps the inductive invariant.                              *)

\* Issuing a batched call.
LEMMA IssueBatchedStep ==
  ASSUME IInv, IssueBatched
  PROVE  IInv'
<1> DEFINE c == issued + 1
<1>1. /\ TypeOK /\ History /\ PostShape /\ PipelineOrder
      /\ NoOrphan /\ OwnAnswer /\ SettledInOrder
  BY DEF IInv
<1>2. c \in Calls /\ issued \in Nat /\ c > issued
  BY <1>1, MaxCallsAssumption DEF IssueBatched, TypeOK, Calls
<1>3. status[c] = "idle" /\ c \notin direct /\ verdict[c] = "none" /\ c \notin doubt
  BY <1>1, <1>2 DEF History, TypeOK
<1>4. /\ issued' = c
      /\ status' = [status EXCEPT ![c] = "waiting"]
      /\ Buffered(c)
      /\ direct' = direct /\ verdict' = verdict /\ doubt' = doubt
  BY DEF IssueBatched
<1>5. /\ status'[c] = "waiting"
      /\ \A d \in Calls : d # c => status'[d] = status[d]
  BY <1>1, <1>2, <1>4 DEF TypeOK
<1> HIDE DEF c
<1>6. TypeOK'
  BY <1>1, StepType DEF Next
<1>7. /\ (Requested(Batcher) \cup Queued \cup ToSet(buffer))'
           = Requested(Batcher) \cup Queued \cup ToSet(buffer) \cup {c}
      /\ \A p \in Sender : p # Batcher \/ post[p].phase # "none" => post'[p] = post[p]
      /\ PostShape'
      /\ PipelineOrder'
  BY <1>2, <1>4, BufferedStep DEF c
<1>8. History'
  <2>1. \A d \in Calls : status'[d] = "idle" <=> d > issued'
    <3>1. \A d \in Calls : d > issued' <=> d > issued /\ d # c
      BY <1>2, <1>4 DEF c, Calls
    <3> QED BY <1>1, <1>3, <1>5, <3>1 DEF History
  <2>2. \A d \in Calls : status'[d] = "idle" => d \notin direct' /\ verdict'[d] = "none"
    BY <1>1, <1>4, <1>5 DEF History
  <2>3. \A d \in doubt' : status'[d] \in {"failed", "threw"}
    BY <1>1, <1>3, <1>4, <1>5 DEF History, TypeOK
  <2>4. \A d \in Calls : verdict'[d] # "none" /\ status'[d] = "waiting" =>
          \E p \in Sender : post'[p].phase = "served" /\ d \in Requested(p)'
    <3>1. SUFFICES ASSUME NEW d \in Calls, verdict'[d] # "none", status'[d] = "waiting"
                   PROVE  \E p \in Sender : post'[p].phase = "served" /\ d \in Requested(p)'
      OBVIOUS
    <3>2. d # c /\ verdict[d] # "none" /\ status[d] = "waiting"
      BY <1>3, <1>4, <1>5, <3>1
    <3>3. PICK p \in Sender : post[p].phase = "served" /\ d \in Requested(p)
      BY <1>1, <3>2 DEF History
    <3>4. post'[p] = post[p]
      BY <1>7, <3>3
    <3> QED BY <3>3, <3>4 DEF Requested
  <2> QED BY <2>1, <2>2, <2>3, <2>4 DEF History
<1>9. NoOrphan'
  <2>1. Waiters' = Waiters \cup {c}
    BY <1>2, <1>3, <1>4, <1>5 DEF Waiters
  <2>2. \A d \in Calls : post'[d] = post[d]
    BY <1>7, BatcherNotCall DEF Sender
  <2> QED BY <1>1, <1>3, <1>4, <1>5, <1>7, <2>1, <2>2 DEF NoOrphan
<1>10. OwnAnswer'
  BY <1>1, <1>4, <1>5 DEF OwnAnswer
<1>11. SettledInOrder'
  <2>1. \A d \in Calls : status[d] \in {"ok", "failed", "threw"} => ~(c < d)
    BY <1>1, <1>2 DEF History, c, Calls
  <2> QED BY <1>1, <1>4, <1>5, <2>1 DEF SettledInOrder
<1> QED BY <1>6, <1>7, <1>8, <1>9, <1>10, <1>11 DEF IInv

\* Issuing a direct call.
LEMMA IssueDirectStep ==
  ASSUME IInv, IssueDirect
  PROVE  IInv'
<1> DEFINE c == issued + 1
<1>1. /\ TypeOK /\ History /\ PostShape /\ PipelineOrder
      /\ NoOrphan /\ OwnAnswer /\ SettledInOrder
  BY DEF IInv
<1>2. c \in Calls /\ issued \in Nat /\ c > issued
  BY <1>1, MaxCallsAssumption DEF IssueDirect, TypeOK, Calls
<1>3. status[c] = "idle" /\ c \notin direct /\ verdict[c] = "none" /\ c \notin doubt
  BY <1>1, <1>2 DEF History, TypeOK
<1>4. /\ issued' = c
      /\ status' = [status EXCEPT ![c] = "waiting"]
      /\ post' = [post EXCEPT ![c] = Sent(<<c>>)]
      /\ direct' = direct \cup {c} /\ buffer' = buffer /\ queue' = queue
      /\ verdict' = verdict /\ doubt' = doubt
  BY DEF IssueDirect
<1>5. /\ status'[c] = "waiting"
      /\ \A d \in Calls : d # c => status'[d] = status[d]
  BY <1>1, <1>2, <1>4 DEF TypeOK
<1> HIDE DEF c
<1>6. TypeOK'
  BY <1>1, StepType DEF Next
<1>7. /\ c \in Sender /\ c # Batcher /\ Batcher \in Sender
      /\ post[c].phase = "none"
  BY <1>1, <1>2, <1>3, BatcherNotCall DEF NoOrphan, Sender
<1>8. /\ post'[c] = Sent(<<c>>)
      /\ \A p \in Sender : p # c => post'[p] = post[p]
  BY <1>1, <1>4, <1>7 DEF TypeOK
<1>9. /\ ToSet(post'[c].reqs) = {c}
      /\ \A p \in Sender : p # c => Requested(p)' = Requested(p)
      /\ Queued' = Queued /\ ToSet(buffer)' = ToSet(buffer)
  <2>1. ToSet(post'[c].reqs) = {c}
    BY <1>8, ToSetSingle DEF Sent
  <2>2. \A p \in Sender : p # c => Requested(p)' = Requested(p)
    BY <1>8 DEF Requested
  <2> QED BY <1>4, <2>1, <2>2 DEF Requested, Queued
<1>10. PostShape'
  <2>1. \A p \in Calls : p \in Sender
    BY DEF Sender
  <2>2. post'[c].phase = "sent" /\ post'[c].reqs = <<c>>
    BY <1>8 DEF Sent
  <2>3. \A p \in Sender : post'[p].phase = "none" => post'[p].reqs = <<>>
    BY <1>1, <1>8, <2>2 DEF PostShape
  <2>4. \A d \in Calls : post'[d].phase # "none" => post'[d].reqs = <<d>>
    BY <1>1, <1>8, <2>1, <2>2 DEF PostShape
  <2>5. ASSUME NEW p \in Sender, post'[p].phase \in {"sent", "token"},
               NEW d \in Requested(p)'
        PROVE  verdict'[d] = "none"
    <3>1. CASE p = c
      BY <1>3, <1>4, <1>9, <2>5, <3>1 DEF Requested
    <3>2. CASE p # c
      BY <1>1, <1>4, <1>8, <1>9, <2>5, <3>2 DEF PostShape
    <3> QED BY <3>1, <3>2
  <2>6. ASSUME NEW p \in Sender, post'[p].phase = "served"
        PROVE  /\ Len(post'[p].replies) = Len(post'[p].reqs)
               /\ \A i \in 1 .. Len(post'[p].reqs) :
                    post'[p].replies[i] = verdict'[post'[p].reqs[i]]
    <3>1. p # c /\ post'[p] = post[p]
      BY <1>8, <2>2, <2>6
    <3> QED BY <1>1, <1>4, <2>6, <3>1 DEF PostShape
  <2> QED BY <2>3, <2>4, <2>5, <2>6 DEF PostShape
<1>11. PipelineOrder'
  BY <1>1, <1>4, <1>7, <1>8, <1>9 DEF PipelineOrder
<1>12. History'
  <2>1. \A d \in Calls : status'[d] = "idle" <=> d > issued'
    <3>1. \A d \in Calls : d > issued' <=> d > issued /\ d # c
      BY <1>2, <1>4 DEF c, Calls
    <3> QED BY <1>1, <1>3, <1>5, <3>1 DEF History
  <2>2. \A d \in Calls : status'[d] = "idle" => d \notin direct' /\ verdict'[d] = "none"
    BY <1>1, <1>4, <1>5 DEF History
  <2>3. \A d \in doubt' : status'[d] \in {"failed", "threw"}
    BY <1>1, <1>3, <1>4, <1>5 DEF History, TypeOK
  <2>4. ASSUME NEW d \in Calls, verdict'[d] # "none", status'[d] = "waiting"
        PROVE  \E p \in Sender : post'[p].phase = "served" /\ d \in Requested(p)'
    <3>1. verdict[d] # "none" /\ status[d] = "waiting"
      BY <1>3, <1>4, <1>5, <2>4
    <3>2. PICK p \in Sender : post[p].phase = "served" /\ d \in Requested(p)
      BY <1>1, <2>4, <3>1 DEF History
    <3> QED BY <1>7, <1>8, <1>9, <3>2
  <2> QED BY <2>1, <2>2, <2>3, <2>4 DEF History
<1>13. NoOrphan'
  <2>1. Waiters' = Waiters
    BY <1>2, <1>3, <1>4, <1>5 DEF Waiters
  <2>2. ASSUME NEW d \in Calls
        PROVE  (d \in direct' /\ status'[d] = "waiting") <=> post'[d].phase # "none"
    BY <1>1, <1>4, <1>5, <1>8 DEF NoOrphan, Sender, Sent
  <2> QED BY <1>1, <1>7, <1>9, <2>1, <2>2 DEF NoOrphan
<1>14. OwnAnswer'
  BY <1>1, <1>4, <1>5 DEF OwnAnswer
<1>15. SettledInOrder'
  BY <1>1, <1>4, <1>5 DEF SettledInOrder
<1> QED BY <1>6, <1>10, <1>11, <1>12, <1>13, <1>14, <1>15 DEF IInv

\* The timer of the buffer.
LEMMA FlushTimerStep ==
  ASSUME IInv, FlushTimer
  PROVE  IInv'
<1>1. /\ TypeOK /\ History /\ PostShape /\ PipelineOrder
      /\ NoOrphan /\ OwnAnswer /\ SettledInOrder
  BY DEF IInv
<1>2. /\ buffer' = <<>> /\ Emit(buffer)
      /\ UNCHANGED <<issued, direct, status, verdict, doubt>>
  BY DEF FlushTimer
<1>3. TypeOK'
  BY <1>1, StepType DEF Next
<1>4. buffer \in Seq(Calls) /\ \A d \in ToSet(buffer) : verdict[d] = "none"
  BY <1>1, PipelineWaits DEF TypeOK
<1>5. Precede(Requested(Batcher) \cup Queued, ToSet(buffer))
  BY <1>1 DEF PipelineOrder, Precede
<1>6. /\ (Requested(Batcher) \cup Queued)' = Requested(Batcher) \cup Queued \cup ToSet(buffer)
      /\ Precede(Requested(Batcher), Queued)'
      /\ \A i, j \in 1 .. Len(queue') :
              i < j => Precede(ToSet(queue'[i]), ToSet(queue'[j]))
      /\ post'[Batcher].phase # "none"
      /\ \A p \in Sender : p # Batcher \/ post[p].phase # "none" => post'[p] = post[p]
      /\ PostShape'
  BY <1>1, <1>2, <1>4, <1>5, EmitStep
<1>7. ToSet(buffer)' = {}
  BY <1>2, ToSetEmpty
<1>8. PipelineOrder'
  BY <1>6, <1>7 DEF PipelineOrder, Precede
<1>9. History'
  <2>1. ASSUME NEW d \in Calls, verdict'[d] # "none", status'[d] = "waiting"
        PROVE  \E p \in Sender : post'[p].phase = "served" /\ d \in Requested(p)'
    <3>1. PICK p \in Sender : post[p].phase = "served" /\ d \in Requested(p)
      BY <1>1, <1>2, <2>1 DEF History
    <3>2. post'[p] = post[p]
      BY <1>6, <3>1
    <3> QED BY <3>1, <3>2 DEF Requested
  <2> QED BY <1>1, <1>2, <2>1 DEF History
<1>10. NoOrphan'
  <2>1. Waiters' = Waiters
    BY <1>2 DEF Waiters
  <2>2. \A d \in Calls : post'[d] = post[d]
    BY <1>6, BatcherNotCall DEF Sender
  <2> QED BY <1>1, <1>2, <1>6, <1>7, <2>1, <2>2 DEF NoOrphan
<1>11. OwnAnswer' /\ SettledInOrder'
  BY <1>1, <1>2 DEF OwnAnswer, SettledInOrder
<1> QED BY <1>3, <1>6, <1>8, <1>9, <1>10, <1>11 DEF IInv

\* A step that changes neither the requests of a POST nor any history: a refused
\* or a renewed token.
LEMMA PhaseStep ==
  ASSUME IInv, NEW p \in Sender,
         post[p].phase \in {"sent", "token"},
         \/ post' = [post EXCEPT ![p].phase = "token"]
         \/ post' = [post EXCEPT ![p].phase = "sent", ![p].retry = post[p].retry + 1],
         UNCHANGED <<issued, direct, status, buffer, queue, verdict, doubt>>,
         TypeOK'
  PROVE  IInv'
<1>1. /\ TypeOK /\ History /\ PostShape /\ PipelineOrder
      /\ NoOrphan /\ OwnAnswer /\ SettledInOrder
  BY DEF IInv
<1>2. /\ post'[p].phase \in {"sent", "token"}
      /\ \A q \in Sender : post'[q].reqs = post[q].reqs
      /\ \A q \in Sender : q # p => post'[q] = post[q]
  <2>1. post \in [Sender -> Post] /\ post[p] \in Post
    BY <1>1 DEF TypeOK
  <2>2. CASE post' = [post EXCEPT ![p].phase = "token"]
    <3>1. post'[p] = [post[p] EXCEPT !.phase = "token"]
      BY <2>1, <2>2
    <3>2. post'[p].phase = "token" /\ post'[p].reqs = post[p].reqs
      BY <2>1, <3>1 DEF Post
    <3> QED BY <2>1, <2>2, <3>2
  <2>3. CASE post' = [post EXCEPT ![p].phase = "sent", ![p].retry = post[p].retry + 1]
    <3>1. post'[p] = [post[p] EXCEPT !.phase = "sent", !.retry = post[p].retry + 1]
      BY <2>1, <2>3
    <3>2. post'[p].phase = "sent" /\ post'[p].reqs = post[p].reqs
      BY <2>1, <3>1 DEF Post
    <3> QED BY <2>1, <2>3, <3>2
  <2> QED BY <2>2, <2>3
<1>3. /\ \A q \in Sender : Requested(q)' = Requested(q)
      /\ Queued' = Queued
  BY <1>2 DEF Requested, Queued
<1>4. Batcher \in Sender /\ \A c \in Calls : c \in Sender
  BY DEF Sender
<1>5. History'
  BY <1>1, <1>2, <1>3 DEF History
<1>6. PostShape'
  BY <1>1, <1>2, <1>3, <1>4 DEF PostShape
<1>7. PipelineOrder'
  BY <1>1, <1>2, <1>3, <1>4 DEF PipelineOrder
<1>8. NoOrphan'
  <2>1. Waiters' = Waiters
    BY DEF Waiters
  <2> QED BY <1>1, <1>2, <1>3, <1>4, <2>1 DEF NoOrphan
<1>9. OwnAnswer' /\ SettledInOrder'
  BY <1>1 DEF OwnAnswer, SettledInOrder
<1> QED BY <1>5, <1>6, <1>7, <1>8, <1>9 DEF IInv

\* No request is in two POSTs.
LEMMA DisjointPosts ==
  ASSUME IInv, NEW p \in Sender, NEW q \in Sender, p # q
  PROVE  Requested(p) \cap Requested(q) = {}
<1>1. \A c \in Requested(Batcher) : c \notin direct
  BY PipelineWaits
<1>2. \A r \in Calls : \A c \in Requested(r) : c = r /\ r \in direct
  BY PipelineWaits
<1> QED BY <1>1, <1>2 DEF Sender

\* ARM serves a POST.
LEMMA ArmServesStep ==
  ASSUME IInv, NEW p \in Sender, ArmServes(p)
  PROVE  IInv'
<1>1. /\ TypeOK /\ History /\ PostShape /\ PipelineOrder
      /\ NoOrphan /\ OwnAnswer /\ SettledInOrder
  BY DEF IInv
<1>2. TypeOK'
  BY <1>1, StepType DEF Next
<1>3. PICK good \in SUBSET Requested(p) : ArmServes(p)!2!(good)
  BY DEF ArmServes
<1> DEFINE outcome(c) == IF c \in good THEN "ok" ELSE "error"
<1>4. /\ post[p].phase = "sent"
      /\ UNCHANGED <<issued, direct, status, buffer, queue, doubt>>
      /\ \A c \in Calls : verdict'[c] = IF c \in Requested(p) THEN outcome(c) ELSE verdict[c]
  BY <1>3 DEF ArmServes
<1>5. /\ post'[p].phase = "served" /\ post'[p].reqs = post[p].reqs
      /\ post'[p].replies = [i \in 1 .. Len(post[p].reqs) |-> outcome(post[p].reqs[i])]
  BY <1>1, <1>3 DEF TypeOK, Post
<1>6. \A q \in Sender : q # p => post'[q] = post[q]
  BY <1>1, <1>3 DEF TypeOK
<1> HIDE DEF outcome
<1>7. /\ \A q \in Sender : Requested(q)' = Requested(q)
      /\ Queued' = Queued
  BY <1>4, <1>5, <1>6 DEF Requested, Queued
<1>8. Batcher \in Sender /\ \A c \in Calls : c \in Sender
  BY DEF Sender
<1>9. \A c \in Requested(p) : c \in Calls /\ status[c] = "waiting"
  BY PipelineWaits
<1>10. \A q \in Sender : q # p => \A c \in Requested(q) : verdict'[c] = verdict[c]
  BY <1>4, PipelineWaits, DisjointPosts
<1>11. History'
  <2>1. \A c \in Calls : status'[c] = "idle" => c \notin direct' /\ verdict'[c] = "none"
    BY <1>1, <1>4, <1>9 DEF History
  <2>2. ASSUME NEW c \in Calls, verdict'[c] # "none", status'[c] = "waiting"
        PROVE  \E q \in Sender : post'[q].phase = "served" /\ c \in Requested(q)'
    <3>1. CASE c \in Requested(p)
      BY <1>5, <1>7, <3>1
    <3>2. CASE c \notin Requested(p)
      BY <1>1, <1>4, <1>6, <1>7, <2>2, <3>2 DEF History
    <3> QED BY <3>1, <3>2
  <2> QED BY <1>1, <1>4, <2>1, <2>2 DEF History
<1>12. PostShape'
  <2>1. \A q \in Sender : post'[q].phase = "none" => post'[q].reqs = <<>>
    BY <1>1, <1>5, <1>6 DEF PostShape
  <2>2. \A c \in Calls : post'[c].phase # "none" => post'[c].reqs = <<c>>
    BY <1>1, <1>4, <1>5, <1>6, <1>8 DEF PostShape
  <2>3. ASSUME NEW q \in Sender, post'[q].phase \in {"sent", "token"}, NEW c \in Requested(q)'
        PROVE  verdict'[c] = "none"
    BY <1>1, <1>5, <1>6, <1>7, <1>10, <2>3 DEF PostShape
  <2>4. ASSUME NEW q \in Sender, post'[q].phase = "served"
        PROVE  /\ Len(post'[q].replies) = Len(post'[q].reqs)
               /\ \A i \in 1 .. Len(post'[q].reqs) :
                    post'[q].replies[i] = verdict'[post'[q].reqs[i]]
    <3>1. post[q].reqs \in Seq(Calls)
      BY <1>1 DEF TypeOK, Post
    <3>2. \A i \in 1 .. Len(post[q].reqs) : post[q].reqs[i] \in Requested(q)
      BY <3>1, ToSetType DEF Requested
    <3>3. CASE q = p
      <4>1. Len(post'[p].replies) = Len(post[p].reqs)
        BY <1>5, <3>1, <3>3
      <4> QED BY <1>4, <1>5, <1>9, <3>2, <3>3, <4>1
    <3>4. CASE q # p
      BY <1>1, <1>6, <1>10, <2>4, <3>2, <3>4 DEF PostShape
    <3> QED BY <3>3, <3>4
  <2> QED BY <2>1, <2>2, <2>3, <2>4 DEF PostShape
<1>13. PipelineOrder'
  BY <1>1, <1>4, <1>5, <1>6, <1>7, <1>8 DEF PipelineOrder
<1>14. NoOrphan'
  <2>1. Waiters' = Waiters
    BY <1>4 DEF Waiters
  <2> QED BY <1>1, <1>4, <1>5, <1>6, <1>7, <1>8, <2>1 DEF NoOrphan
<1>15. OwnAnswer' /\ SettledInOrder'
  BY <1>1, <1>4, <1>9 DEF OwnAnswer, SettledInOrder
<1> QED BY <1>2, <1>11, <1>12, <1>13, <1>14, <1>15 DEF IInv

\* ARM serves a request given up.
LEMMA ArmServesLateStep ==
  ASSUME IInv, NEW c \in Calls, ArmServesLate(c)
  PROVE  IInv'
<1>1. /\ TypeOK /\ History /\ PostShape /\ PipelineOrder
      /\ NoOrphan /\ OwnAnswer /\ SettledInOrder
  BY DEF IInv
<1>2. TypeOK'
  BY <1>1, StepType DEF Next
<1>3. /\ c \in doubt /\ \A d \in Calls : d # c => verdict'[d] = verdict[d]
      /\ UNCHANGED <<issued, direct, status, buffer, queue, post, doubt>>
  BY <1>1 DEF ArmServesLate, TypeOK
<1>4. status[c] \in {"failed", "threw"}
  BY <1>1, <1>3 DEF History
<1>5. \A p \in Sender : Requested(p)' = Requested(p) /\ c \notin Requested(p)
  BY <1>3, <1>4, PipelineWaits DEF Requested
<1>6. Queued' = Queued /\ Waiters' = Waiters
  BY <1>3 DEF Queued, Waiters
<1>7. History'
  <2>1. \A d \in Calls : status[d] \in {"idle", "waiting"} => verdict'[d] = verdict[d]
    BY <1>3, <1>4
  <2> QED BY <1>1, <1>3, <1>5, <2>1 DEF History
<1>8. PostShape'
  <2>1. \A p \in Sender : \A d \in Requested(p) : verdict'[d] = verdict[d]
    BY <1>3, <1>5, PipelineWaits
  <2>2. \A p \in Sender : \A i \in 1 .. Len(post[p].reqs) : post[p].reqs[i] \in Requested(p)
    BY <1>1, ToSetType DEF Requested, TypeOK, Post
  <2> QED BY <1>1, <1>3, <1>5, <2>1, <2>2 DEF PostShape
<1>9. PipelineOrder' /\ NoOrphan'
  BY <1>1, <1>3, <1>5, <1>6 DEF PipelineOrder, NoOrphan, Sender
<1>10. OwnAnswer' /\ SettledInOrder'
  BY <1>1, <1>3, <1>4 DEF OwnAnswer, SettledInOrder
<1> QED BY <1>2, <1>7, <1>8, <1>9, <1>10 DEF IInv

\* What the callers of an answered POST are told: what ARM did with their own
\* requests.
LEMMA DeliveredOwn ==
  ASSUME IInv, NEW p \in Sender, post[p].phase = "served"
  PROVE  /\ \A c \in Requested(p) : verdict[c] \in Outcome
         /\ \A c \in Calls :
              Delivered(p)[c] = IF c \notin Requested(p) THEN status[c]
                                ELSE IF verdict[c] = "ok" THEN "ok" ELSE "failed"
<1>1. /\ post[p].reqs \in Seq(Calls) /\ post[p].replies \in Seq(Outcome)
      /\ Len(post[p].replies) = Len(post[p].reqs)
      /\ \A i \in 1 .. Len(post[p].reqs) : post[p].replies[i] = verdict[post[p].reqs[i]]
  BY DEF IInv, PostShape, TypeOK, Post
<1>2. Requested(p) = {post[p].reqs[i] : i \in 1 .. Len(post[p].reqs)}
  BY <1>1, ToSetType DEF Requested
<1>3. \A i \in 1 .. Len(post[p].reqs) : post[p].replies[i] \in Outcome
  BY <1>1, ElementOfSeq
<1>4. \A c \in Requested(p) : verdict[c] \in Outcome
  BY <1>1, <1>2, <1>3
<1>5. \A c, o : [id |-> c, outcome |-> o] \in Responses(p) <=> c \in Requested(p) /\ o = verdict[c]
  <2>1. Responses(p) = {[id |-> post[p].reqs[i], outcome |-> verdict[post[p].reqs[i]]] :
                          i \in 1 .. Len(post[p].reqs)}
    BY <1>1 DEF Responses
  <2>2. Responses(p) = {[id |-> d, outcome |-> verdict[d]] : d \in Requested(p)}
    BY <1>2, <2>1
  <2>3. \A c, o, d, v : [id |-> c, outcome |-> o] = [id |-> d, outcome |-> v] => c = d /\ o = v
    <3>1. SUFFICES ASSUME NEW c, NEW o, NEW d, NEW v,
                          [id |-> c, outcome |-> o] = [id |-> d, outcome |-> v]
                   PROVE  c = d /\ o = v
      OBVIOUS
    <3>2. /\ [id |-> c, outcome |-> o].id = c /\ [id |-> c, outcome |-> o].outcome = o
          /\ [id |-> d, outcome |-> v].id = d /\ [id |-> d, outcome |-> v].outcome = v
      OBVIOUS
    <3> QED BY <3>1, <3>2
  <2> QED BY <2>2, <2>3
<1> QED BY <1>4, <1>5 DEF Delivered, Outcome

\* A direct call is answered.
LEMMA AnswerDirectStep ==
  ASSUME IInv, NEW c \in Calls, AnswerDirect(c)
  PROVE  IInv'
<1>1. /\ TypeOK /\ History /\ PostShape /\ PipelineOrder
      /\ NoOrphan /\ OwnAnswer /\ SettledInOrder
  BY DEF IInv
<1>2. c \in Sender /\ Batcher \in Sender /\ c # Batcher
  BY BatcherNotCall DEF Sender
<1>3. TypeOK'
  <2>1. Next
    BY <1>2 DEF Next, ArmReplies
  <2> QED BY <1>1, <2>1, StepType
<1>4. /\ post[c].phase = "served"
      /\ UNCHANGED <<issued, direct, buffer, queue, verdict, doubt>>
      /\ status' = Delivered(c)
      /\ post' = [post EXCEPT ![c] = NoPost]
  BY DEF AnswerDirect
<1>5. post'[c] = NoPost /\ \A q \in Sender : q # c => post'[q] = post[q]
  BY <1>1, <1>2, <1>4 DEF TypeOK
<1>6. Requested(c) = {c} /\ c \in direct /\ status[c] = "waiting"
  BY <1>1, <1>2, <1>4, ToSetSingle DEF PostShape, NoOrphan, Requested
<1>7. /\ status'[c] = IF verdict[c] = "ok" THEN "ok" ELSE "failed"
      /\ \A d \in Calls : d # c => status'[d] = status[d]
      /\ verdict[c] \in Outcome
  BY <1>2, <1>4, <1>6, DeliveredOwn
<1>8. /\ \A q \in Sender : q # c => Requested(q)' = Requested(q)
      /\ Queued' = Queued
  BY <1>4, <1>5 DEF Requested, Queued
<1>9. History'
  <2>1. ASSUME NEW d \in Calls, verdict'[d] # "none", status'[d] = "waiting"
        PROVE  \E q \in Sender : post'[q].phase = "served" /\ d \in Requested(q)'
    <3>1. d # c /\ verdict[d] # "none" /\ status[d] = "waiting"
      BY <1>4, <1>7, <2>1
    <3>2. PICK q \in Sender : post[q].phase = "served" /\ d \in Requested(q)
      BY <1>1, <3>1 DEF History
    <3>3. q # c
      BY <1>6, <3>1, <3>2
    <3> QED BY <1>5, <1>8, <3>2, <3>3
  <2>2. \A d \in doubt' : status'[d] \in {"failed", "threw"}
    BY <1>1, <1>4, <1>6, <1>7 DEF History, TypeOK
  <2> QED BY <1>1, <1>4, <1>6, <1>7, <2>1, <2>2 DEF History
<1>10. PostShape'
  <2>1. post'[c].phase = "none" /\ post'[c].reqs = <<>>
    BY <1>5 DEF NoPost
  <2> QED BY <1>1, <1>4, <1>5, <1>8, <2>1, BatcherNotCall DEF PostShape, Sender
<1>11. PipelineOrder'
  BY <1>1, <1>2, <1>4, <1>5, <1>8 DEF PipelineOrder
<1>12. NoOrphan'
  <2>1. Waiters' = Waiters
    BY <1>4, <1>6, <1>7 DEF Waiters
  <2>2. ASSUME NEW d \in Calls
        PROVE  (d \in direct' /\ status'[d] = "waiting") <=> post'[d].phase # "none"
    BY <1>1, <1>4, <1>5, <1>7 DEF NoOrphan, NoPost, Sender
  <2> QED BY <1>1, <1>2, <1>4, <1>8, <2>1, <2>2 DEF NoOrphan
<1>13. OwnAnswer'
  BY <1>1, <1>4, <1>6, <1>7 DEF OwnAnswer
<1>14. SettledInOrder'
  BY <1>1, <1>4, <1>6, <1>7 DEF SettledInOrder
<1> QED BY <1>3, <1>9, <1>10, <1>11, <1>12, <1>13, <1>14 DEF IInv

\* The next batch is posted, or none is left.
LEMMA NextBatchStep ==
  ASSUME IInv, NextBatch, verdict' = verdict, buffer' = buffer
  PROVE  /\ Queued = Requested(Batcher)' \cup Queued'
         /\ \A p \in Sender : p # Batcher => post'[p] = post[p]
         /\ post'[Batcher].phase \in {"none", "sent"}
         /\ PostShape' /\ PipelineOrder'
<1>1. TypeOK /\ PostShape /\ PipelineOrder
  BY DEF IInv
<1>2. Batcher \in Sender /\ \A c \in Calls : c \in Sender /\ c # Batcher
  BY BatcherNotCall DEF Sender
<1>3. \A c \in Queued : verdict[c] = "none"
  BY PipelineWaits
<1>4. \A p \in Sender : p # Batcher => post'[p] = post[p] /\ Requested(p)' = Requested(p)
  BY <1>1, <1>2 DEF NextBatch, TypeOK, Requested
<1>5. CASE queue = <<>>
  <2>1. post'[Batcher] = NoPost /\ queue' = queue
    BY <1>1, <1>2, <1>5 DEF NextBatch, TypeOK
  <2>2. Requested(Batcher)' = {} /\ Queued = {} /\ Queued' = {}
    BY <1>5, <2>1, MembersEmpty, ToSetEmpty DEF Requested, NoPost, Queued
  <2>3. PipelineOrder'
    BY <1>1, <1>5, <2>1, <2>2 DEF PipelineOrder, Precede
  <2>4. PostShape'
    <3>1. post'[Batcher].phase = "none" /\ post'[Batcher].reqs = <<>>
      BY <2>1 DEF NoPost
    <3> QED BY <1>1, <1>2, <1>4, <3>1 DEF PostShape
  <2> QED BY <1>4, <2>1, <2>2, <2>3, <2>4 DEF NoPost
<1>6. CASE queue # <<>>
  <2>1. queue \in Seq(Seq(Calls)) /\ post'[Batcher] = Sent(Head(queue)) /\ queue' = Tail(queue)
    BY <1>1, <1>2, <1>6 DEF NextBatch, TypeOK
  <2>2. /\ Queued = ToSet(Head(queue)) \cup Queued'
        /\ \A i \in 1 .. Len(queue') : i + 1 \in 1 .. Len(queue) /\ queue'[i] = queue[i + 1]
        /\ 1 \in 1 .. Len(queue) /\ Head(queue) = queue[1]
    BY <1>6, <2>1, MembersTail DEF Queued
  <2>3. Requested(Batcher)' = ToSet(Head(queue))
    BY <2>1 DEF Requested, Sent
  <2>4. Precede(Requested(Batcher), Queued)'
    <3>1. SUFFICES ASSUME NEW c \in ToSet(Head(queue)), NEW d \in Queued'
                   PROVE  c < d
      BY <2>3 DEF Precede
    <3>2. PICK i \in 1 .. Len(queue') : d \in ToSet(queue'[i])
      BY DEF Queued, Members
    <3>3. d \in ToSet(queue[i + 1]) /\ c \in ToSet(queue[1]) /\ 1 < i + 1
      BY <2>2, <3>2
    <3> QED BY <1>1, <2>2, <3>3 DEF PipelineOrder, Precede
  <2>5. Precede(Requested(Batcher) \cup Queued, ToSet(buffer))'
    BY <1>1, <2>2, <2>3 DEF PipelineOrder, Precede
  <2>6. ASSUME NEW i \in 1 .. Len(queue'), NEW j \in 1 .. Len(queue'), i < j
        PROVE  Precede(ToSet(queue'[i]), ToSet(queue'[j]))
    <3>1. i + 1 < j + 1
      BY <2>6
    <3> QED BY <1>1, <2>2, <3>1 DEF PipelineOrder
  <2>7. post'[Batcher].phase = "sent"
    BY <2>1 DEF Sent
  <2>8. PipelineOrder'
    BY <2>4, <2>5, <2>6, <2>7 DEF PipelineOrder, Precede
  <2>9. PostShape'
    <3>1. \A c \in Requested(Batcher)' : verdict'[c] = "none"
      BY <1>3, <2>2, <2>3
    <3> QED BY <1>1, <1>2, <1>4, <2>7, <3>1 DEF PostShape
  <2> QED BY <1>4, <2>2, <2>3, <2>7, <2>8, <2>9
<1> QED BY <1>5, <1>6

\* A batch is answered.
LEMMA AnswerBatchStep ==
  ASSUME IInv, AnswerBatch
  PROVE  IInv'
<1>1. /\ TypeOK /\ History /\ PostShape /\ PipelineOrder
      /\ NoOrphan /\ OwnAnswer /\ SettledInOrder
  BY DEF IInv
<1>2. Batcher \in Sender /\ \A c \in Calls : c \in Sender /\ c # Batcher
  BY BatcherNotCall DEF Sender
<1>3. TypeOK'
  <2>1. Next
    BY <1>2 DEF Next, ArmReplies
  <2> QED BY <1>1, <2>1, StepType
<1>4. /\ post[Batcher].phase = "served" /\ NextBatch
      /\ UNCHANGED <<issued, direct, buffer, verdict, doubt>>
      /\ status' = Delivered(Batcher)
  BY DEF AnswerBatch
<1>5. /\ Queued = Requested(Batcher)' \cup Queued'
      /\ \A p \in Sender : p # Batcher => post'[p] = post[p]
      /\ PostShape' /\ PipelineOrder'
  BY <1>4, NextBatchStep
<1>6. /\ \A d \in Calls : d \in Requested(Batcher) =>
           status'[d] = IF verdict[d] = "ok" THEN "ok" ELSE "failed"
      /\ \A d \in Calls : d \notin Requested(Batcher) => status'[d] = status[d]
      /\ \A d \in Requested(Batcher) : verdict[d] \in Outcome
  BY <1>2, <1>4, DeliveredOwn
<1>7. \A d \in Requested(Batcher) : d \in Calls /\ status[d] = "waiting" /\ d \notin direct
  BY PipelineWaits
<1>8. \A d \in Requested(Batcher) : d \notin Queued /\ d \notin ToSet(buffer)
  <2>1. \A d \in Requested(Batcher) : ~(d < d)
    BY <1>7 DEF Calls
  <2> QED BY <1>1, <2>1 DEF PipelineOrder, Precede
<1>9. History'
  <2>1. ASSUME NEW d \in Calls, verdict'[d] # "none", status'[d] = "waiting"
        PROVE  \E q \in Sender : post'[q].phase = "served" /\ d \in Requested(q)'
    <3>1. d \notin Requested(Batcher) /\ verdict[d] # "none" /\ status[d] = "waiting"
      BY <1>4, <1>6, <2>1
    <3>2. PICK q \in Sender : post[q].phase = "served" /\ d \in Requested(q)
      BY <1>1, <3>1 DEF History
    <3>3. post'[q] = post[q]
      BY <1>5, <3>1, <3>2
    <3> QED BY <3>2, <3>3 DEF Requested
  <2>2. \A d \in doubt' : status'[d] \in {"failed", "threw"}
    BY <1>1, <1>4, <1>6, <1>7 DEF History, TypeOK
  <2> QED BY <1>1, <1>4, <1>6, <1>7, <2>1, <2>2 DEF History
<1>10. NoOrphan'
  <2>1. Waiters' = Waiters \ Requested(Batcher)
    BY <1>4, <1>6 DEF Waiters
  <2>2. Waiters' = Queued \cup ToSet(buffer)
    BY <1>1, <1>8, <2>1 DEF NoOrphan
  <2>3. \A d \in Calls : (d \in direct' /\ status'[d] = "waiting") <=> post'[d].phase # "none"
    BY <1>1, <1>2, <1>4, <1>5, <1>6, <1>7 DEF NoOrphan
  <2> QED BY <1>4, <1>5, <2>2, <2>3 DEF NoOrphan
<1>11. OwnAnswer'
  BY <1>1, <1>4, <1>6, <1>7 DEF OwnAnswer
<1>12. SettledInOrder'
  <2>1. SUFFICES ASSUME NEW c \in Calls \ direct, NEW d \in Calls \ direct, c < d,
                        status'[d] \in {"ok", "failed", "threw"}, status'[c] = "waiting"
                 PROVE  FALSE
    BY <1>4 DEF SettledInOrder
  <2>2. c \notin Requested(Batcher) /\ status[c] = "waiting"
    BY <1>6, <2>1
  <2>3. c \in Queued \cup ToSet(buffer)
    BY <1>1, <2>2 DEF NoOrphan, Waiters
  <2>4. CASE d \in Requested(Batcher)
    BY <1>1, <2>1, <2>3, <2>4 DEF PipelineOrder, Precede, Calls
  <2>5. CASE d \notin Requested(Batcher)
    BY <1>1, <1>6, <2>1, <2>2, <2>5 DEF SettledInOrder
  <2> QED BY <2>4, <2>5
<1> QED BY <1>3, <1>5, <1>9, <1>10, <1>11, <1>12 DEF IInv

\* A POST fails: the batch takes every waiting call with it, a direct call only
\* itself.  doubt gains requests of the POST, all of them if ARM has served it.
LEMMA FailStep ==
  ASSUME IInv, NEW p \in Sender, NEW how \in {"failed", "threw"}, Fail(p, how),
         post[p].phase # "none",
         doubt \subseteq doubt', doubt' \subseteq doubt \cup Requested(p),
         post[p].phase = "served" => Requested(p) \subseteq doubt',
         TypeOK'
  PROVE  IInv'
<1>1. /\ TypeOK /\ History /\ PostShape /\ PipelineOrder
      /\ NoOrphan /\ OwnAnswer /\ SettledInOrder
  BY DEF IInv
<1>2. UNCHANGED <<issued, direct, verdict>>
  BY DEF Fail
<1>3. Batcher \in Sender /\ \A c \in Calls : c \in Sender /\ c # Batcher
  BY BatcherNotCall DEF Sender
<1>4. \A c \in Requested(p) : c \in Calls /\ status[c] = "waiting"
  BY PipelineWaits
<1>5. \A c \in Requested(p) : verdict[c] # "none" => c \in doubt'
  BY <1>1 DEF PostShape, TypeOK, Post
<1>6. CASE p = Batcher
  <2>1. /\ status' = [c \in Calls |-> IF c \in Waiters THEN "failed" ELSE status[c]]
        /\ buffer' = <<>> /\ queue' = <<>>
        /\ post' = [post EXCEPT ![Batcher] = NoPost]
    BY <1>3, <1>6 DEF Fail, FailBatch
  <2>2. /\ post'[Batcher].phase = "none" /\ post'[Batcher].reqs = <<>>
        /\ \A q \in Sender : q # Batcher => post'[q] = post[q] /\ Requested(q)' = Requested(q)
    BY <1>1, <1>3, <2>1 DEF TypeOK, NoPost, Requested
  <2>3. Requested(Batcher)' = {} /\ Queued' = {} /\ ToSet(buffer)' = {}
    BY <2>1, <2>2, MembersEmpty, ToSetEmpty DEF Requested, Queued
  <2>4. PostShape'
    BY <1>1, <1>2, <1>3, <2>2 DEF PostShape
  <2>5. PipelineOrder'
    <3>1. Len(queue') = 0
      BY <2>1
    <3> QED BY <2>1, <2>3, <3>1 DEF PipelineOrder, Precede
  <2>6. /\ \A c \in Calls : c \in Waiters => status'[c] = "failed"
        /\ \A c \in Calls : c \notin Waiters => status'[c] = status[c]
        /\ Waiters' = {}
    BY <1>2, <2>1 DEF Waiters
  <2>7. NoOrphan'
    <3>1. \A c \in Calls : c \in direct => c \notin Waiters
      BY DEF Waiters
    <3> QED BY <1>1, <1>2, <1>3, <2>2, <2>3, <2>6, <3>1 DEF NoOrphan, Waiters
  <2>8. History'
    <3>1. ASSUME NEW d \in Calls, verdict'[d] # "none", status'[d] = "waiting"
          PROVE  \E q \in Sender : post'[q].phase = "served" /\ d \in Requested(q)'
      <4>1. d \notin Waiters /\ status[d] = "waiting"
        BY <2>6, <3>1
      <4>2. PICK q \in Sender : post[q].phase = "served" /\ d \in Requested(q)
        BY <1>1, <1>2, <3>1, <4>1 DEF History
      <4>3. q # Batcher
        BY <1>1, <4>1, <4>2 DEF NoOrphan
      <4> QED BY <2>2, <4>2, <4>3
    <3>2. \A d \in doubt' : status'[d] \in {"failed", "threw"}
      <4>1. Requested(p) \subseteq Waiters
        BY <1>1, <1>6 DEF NoOrphan
      <4>2. \A d \in doubt : d \notin Waiters /\ d \in Calls
        BY <1>1 DEF History, Waiters, TypeOK
      <4> QED BY <1>1, <1>4, <2>6, <4>1, <4>2 DEF History
    <3>3. \A d \in Calls : status'[d] = "idle" <=> status[d] = "idle"
      BY <2>6 DEF Waiters
    <3> QED BY <1>1, <1>2, <3>1, <3>2, <3>3 DEF History
  <2>9. OwnAnswer'
    <3>1. ASSUME NEW d \in Calls, d \in Waiters, verdict[d] = "ok"
          PROVE  d \in doubt'
      <4>1. PICK q \in Sender : post[q].phase = "served" /\ d \in Requested(q)
        BY <1>1, <3>1 DEF History, Waiters
      <4>2. q = Batcher
        BY <3>1, <4>1, PipelineWaits DEF Sender, Waiters
      <4> QED BY <1>5, <1>6, <3>1, <4>1, <4>2
    <3> QED BY <1>1, <1>2, <2>6, <3>1 DEF OwnAnswer
  <2>10. SettledInOrder'
    <3>1. \A c \in Calls \ direct : status'[c] # "waiting"
      BY <2>6 DEF Waiters
    <3> QED BY <1>2, <3>1 DEF SettledInOrder
  <2> QED BY <2>4, <2>5, <2>7, <2>8, <2>9, <2>10 DEF IInv
<1>7. CASE p \in Calls
  <2>1. /\ status' = [status EXCEPT ![p] = how]
        /\ post' = [post EXCEPT ![p] = NoPost]
        /\ UNCHANGED <<buffer, queue>>
    BY <1>3, <1>7 DEF Fail, FailDirect
  <2>2. /\ post'[p].phase = "none" /\ post'[p].reqs = <<>>
        /\ \A q \in Sender : q # p => post'[q] = post[q] /\ Requested(q)' = Requested(q)
    BY <1>1, <2>1 DEF TypeOK, NoPost, Requested
  <2>3. /\ status'[p] = how
        /\ \A c \in Calls : c # p => status'[c] = status[c]
    BY <1>1, <1>7, <2>1 DEF TypeOK
  <2>4. p \in direct /\ status[p] = "waiting" /\ Requested(p) = {p}
    BY <1>1, <1>7, ToSetSingle DEF NoOrphan, PostShape, Requested
  <2>5. PostShape'
    BY <1>1, <1>2, <1>3, <2>2 DEF PostShape
  <2>6. Queued' = Queued /\ Requested(Batcher)' = Requested(Batcher)
    BY <1>3, <1>7, <2>1, <2>2 DEF Queued
  <2>7. PipelineOrder'
    BY <1>1, <1>3, <1>7, <2>1, <2>2, <2>6 DEF PipelineOrder
  <2>8. NoOrphan'
    <3>1. Waiters' = Waiters
      BY <1>2, <2>3, <2>4 DEF Waiters
    <3>2. \A c \in Calls : (c \in direct' /\ status'[c] = "waiting") <=> post'[c].phase # "none"
      BY <1>1, <1>2, <1>3, <2>2, <2>3 DEF NoOrphan
    <3> QED BY <1>1, <2>1, <2>6, <3>1, <3>2 DEF NoOrphan
  <2>9. History'
    <3>1. ASSUME NEW d \in Calls, verdict'[d] # "none", status'[d] = "waiting"
          PROVE  \E q \in Sender : post'[q].phase = "served" /\ d \in Requested(q)'
      <4>1. d # p /\ verdict[d] # "none" /\ status[d] = "waiting"
        BY <1>2, <2>3, <3>1
      <4>2. PICK q \in Sender : post[q].phase = "served" /\ d \in Requested(q)
        BY <1>1, <4>1 DEF History
      <4> QED BY <2>2, <2>4, <4>1, <4>2
    <3>2. \A d \in doubt' : status'[d] \in {"failed", "threw"}
      BY <1>1, <2>3, <2>4 DEF History, TypeOK
    <3> QED BY <1>1, <1>2, <2>3, <2>4, <3>1, <3>2 DEF History
  <2>10. OwnAnswer'
    BY <1>1, <1>2, <1>5, <2>3, <2>4 DEF OwnAnswer
  <2>11. SettledInOrder'
    BY <1>1, <1>2, <2>3, <2>4 DEF SettledInOrder
  <2> QED BY <2>5, <2>7, <2>8, <2>9, <2>10, <2>11 DEF IInv
<1> QED BY <1>6, <1>7 DEF Sender

-----------------------------------------------------------------------------
(* The inductive invariant.                                                *)

\* A POST that fails, in one of the four ways it can.
LEMMA FailureCases ==
  ASSUME IInv, NEW p \in Sender,
         TokenRefused(p) \/ StillUnauthorized(p) \/ ErrorReply(p) \/ NetworkError(p)
  PROVE  \E how \in {"failed", "threw"}, lost \in SUBSET Requested(p) :
           /\ Fail(p, how)
           /\ post[p].phase # "none"
           /\ doubt' = doubt \cup lost
           /\ post[p].phase = "served" => lost = Requested(p)
<1>1. CASE TokenRefused(p)
  <2>1. /\ Fail(p, "threw") /\ post[p].phase \in {"sent", "token"}
        /\ doubt' = doubt \cup {}
    BY <1>1 DEF TokenRefused
  <2>2. {} \in SUBSET Requested(p)
    OBVIOUS
  <2> QED BY <2>1, <2>2
<1>2. CASE StillUnauthorized(p)
  <2>1. /\ Fail(p, "failed") /\ post[p].phase \in {"sent", "token"}
        /\ doubt' = doubt \cup {}
    BY <1>2 DEF StillUnauthorized
  <2>2. {} \in SUBSET Requested(p)
    OBVIOUS
  <2> QED BY <2>1, <2>2
<1>3. CASE ErrorReply(p)
  <2>1. /\ Fail(p, "failed") /\ post[p].phase # "none"
        /\ doubt' = doubt \cup Requested(p)
    BY <1>3 DEF ErrorReply
  <2>2. Requested(p) \in SUBSET Requested(p)
    OBVIOUS
  <2> QED BY <2>1, <2>2
<1>4. CASE NetworkError(p)
  <2>1. /\ Fail(p, "threw") /\ post[p].phase # "none"
        /\ doubt' = doubt \cup Requested(p)
    BY <1>4 DEF NetworkError
  <2>2. Requested(p) \in SUBSET Requested(p)
    OBVIOUS
  <2> QED BY <2>1, <2>2
<1> QED BY <1>1, <1>2, <1>3, <1>4

\* Every step keeps the inductive invariant.
LEMMA StepInv ==
  ASSUME IInv, Next
  PROVE  IInv'
<1>1. TypeOK'
  BY StepType DEF IInv
<1>2. ASSUME NEW p \in Sender,
             TokenRefused(p) \/ StillUnauthorized(p) \/ ErrorReply(p) \/ NetworkError(p)
      PROVE  IInv'
  <2>1. PICK how \in {"failed", "threw"}, lost \in SUBSET Requested(p) :
           /\ Fail(p, how)
           /\ post[p].phase # "none"
           /\ doubt' = doubt \cup lost
           /\ post[p].phase = "served" => lost = Requested(p)
    BY <1>2, FailureCases
  <2>2. /\ doubt \subseteq doubt' /\ doubt' \subseteq doubt \cup Requested(p)
        /\ post[p].phase = "served" => Requested(p) \subseteq doubt'
    BY <2>1
  <2> QED BY <1>1, <2>1, <2>2, FailStep
<1>3. ASSUME NEW p \in Sender, Unauthorized(p)
      PROVE  IInv'
  BY <1>1, <1>3, PhaseStep DEF Unauthorized
<1>4. ASSUME NEW p \in Sender, TokenGranted(p)
      PROVE  IInv'
  <2>1. /\ post[p].phase \in {"sent", "token"}
        /\ post' = [post EXCEPT ![p].phase = "sent", ![p].retry = post[p].retry + 1]
        /\ UNCHANGED <<issued, direct, status, buffer, queue, verdict, doubt>>
    BY <1>4 DEF TokenGranted
  <2> QED BY <1>1, <2>1, PhaseStep
<1>5. ASSUME NEW p \in Sender, ArmReplies(p) \/ PortalReplies(p)
      PROVE  IInv'
  <2>1. CASE AnswerBatch
    BY <2>1, AnswerBatchStep
  <2>2. CASE p \in Calls /\ AnswerDirect(p)
    BY <2>2, AnswerDirectStep
  <2>3. CASE TokenRefused(p) \/ StillUnauthorized(p) \/ ErrorReply(p) \/ NetworkError(p)
    BY <1>2, <2>3
  <2>4. CASE Unauthorized(p) \/ TokenGranted(p)
    BY <1>3, <1>4, <2>4
  <2> QED BY <1>5, <2>1, <2>2, <2>3, <2>4 DEF ArmReplies, PortalReplies
<1>6. CASE IssueBatched
  BY <1>6, IssueBatchedStep
<1>7. CASE IssueDirect
  BY <1>7, IssueDirectStep
<1>8. CASE FlushTimer
  BY <1>8, FlushTimerStep
<1>9. ASSUME NEW p \in Sender, ArmServes(p)
      PROVE  IInv'
  BY <1>9, ArmServesStep
<1>10. ASSUME NEW c \in Calls, ArmServesLate(c)
       PROVE  IInv'
  BY <1>10, ArmServesLateStep
<1> QED BY <1>5, <1>6, <1>7, <1>8, <1>9, <1>10 DEF Next

\* The inductive invariant holds initially.
LEMMA InitInv == Init => IInv
<1> SUFFICES ASSUME Init PROVE IInv
  OBVIOUS
<1>1. TypeOK
  BY InitType
<1>2. /\ \A p \in Sender : post[p].phase = "none" /\ post[p].reqs = <<>>
      /\ \A p \in Sender : Requested(p) = {}
      /\ Queued = {} /\ ToSet(buffer) = {} /\ Len(queue) = 0
  BY MembersEmpty, ToSetEmpty DEF Init, NoPost, Requested, Queued
<1>3. Batcher \in Sender /\ \A c \in Calls : c \in Sender
  BY DEF Sender
<1>4. History
  BY DEF Init, History, Calls
<1>5. PostShape /\ PipelineOrder
  BY <1>2, <1>3 DEF Init, PostShape, PipelineOrder, Precede
<1>6. NoOrphan
  BY <1>2, <1>3 DEF Init, NoOrphan, Waiters
<1>7. OwnAnswer /\ SettledInOrder
  BY DEF Init, OwnAnswer, SettledInOrder
<1> QED BY <1>1, <1>4, <1>5, <1>6, <1>7 DEF IInv

\* The inductive invariant holds in every behaviour.
THEOREM Inductive == Spec => []IInv
<1>1. IInv /\ [Next]_vars => IInv'
  <2>1. CASE Next
    BY <2>1, StepInv
  <2>2. CASE UNCHANGED vars
    BY <2>2 DEF vars, IInv, TypeOK, History, PostShape, PipelineOrder, NoOrphan,
                OwnAnswer, SettledInOrder, Requested, Queued, Waiters
  <2> QED BY <2>1, <2>2
<1> QED BY <1>1, InitInv, PTL DEF Spec

\* No batched call is ever lost by the pipeline: every waiting call is in the
\* buffer, in a queued batch or in a POST under way.
THEOREM CallsNotLost == Spec => []NoOrphan
BY Inductive, PTL DEF IInv

\* Each caller is told the outcome of its own request.
THEOREM AnswersAreOwn == Spec => []OwnAnswer
BY Inductive, PTL DEF IInv

\* Batched calls settle in the order of the calls.
THEOREM SettleOrder == Spec => []SettledInOrder
BY Inductive, PTL DEF IInv

\* A batch that is emitted has a size within the bound, and so have those before it.
LEMMA EmitBound ==
  ASSUME TypeOK, BatchBound, NEW batch \in Seq(Calls),
         0 < Len(batch), Len(batch) <= MaxBuffer, Emit(batch)
  PROVE  /\ Len(post'[Batcher].reqs) <= MaxBuffer
         /\ \A i \in 1 .. Len(queue') : 0 < Len(queue'[i]) /\ Len(queue'[i]) <= MaxBuffer
<1>1. CASE post[Batcher].phase = "none"
  <2>1. post'[Batcher] = Sent(batch) /\ queue' = queue
    BY <1>1 DEF Emit, TypeOK, Sender
  <2> QED BY <2>1 DEF Sent, BatchBound
<1>2. CASE post[Batcher].phase # "none"
  <2>1. post' = post /\ queue' = Append(queue, batch)
    BY <1>2 DEF Emit
  <2>2. /\ Len(queue) \in Nat
        /\ Len(queue') = Len(queue) + 1
        /\ \A i \in 1 .. Len(queue) : queue'[i] = queue[i]
        /\ queue'[Len(queue) + 1] = batch
    BY <2>1, AppendProperties DEF TypeOK
  <2>3. \A i \in 1 .. Len(queue') : i \in 1 .. Len(queue) \/ i = Len(queue) + 1
    BY <2>2
  <2> QED BY <2>1, <2>2, <2>3 DEF BatchBound
<1> QED BY <1>1, <1>2

\* A POST that is not the batcher's, or that goes on with its requests, and a buffer
\* and a queue that stay, keep the bound.
LEMMA SameBound ==
  ASSUME BatchBound, buffer' = buffer, queue' = queue,
         post'[Batcher].reqs = post[Batcher].reqs
  PROVE  BatchBound'
BY DEF BatchBound

\* Every step keeps the bound on the size of the batches.
LEMMA StepBound ==
  ASSUME TypeOK, BatchBound, Next
  PROVE  BatchBound'
<1> USE MaxBufferAssumption
<1>1. /\ Batcher \in Sender /\ Batcher \notin Calls
      /\ DOMAIN post = Sender /\ buffer \in Seq(Calls) /\ queue \in Seq(Seq(Calls))
      /\ \A p \in Sender : post[p] \in Post
  BY BatcherNotCall DEF TypeOK, Sender
<1>2. ASSUME NEW c \in Calls, Buffered(c)
      PROVE  BatchBound'
  <2>1. /\ Append(buffer, c) \in Seq(Calls)
        /\ Len(Append(buffer, c)) = Len(buffer) + 1 /\ Len(buffer) \in Nat
        /\ Len(buffer) < MaxBuffer
    BY <1>1, AppendProperties DEF BatchBound
  <2>2. CASE Len(buffer) + 1 < MaxBuffer
    BY <1>2, <2>1, <2>2 DEF Buffered, BatchBound
  <2>3. CASE Len(buffer) + 1 >= MaxBuffer
    <3>1. buffer' = <<>> /\ Emit(Append(buffer, c))
      BY <1>2, <2>3 DEF Buffered
    <3>2. Len(Append(buffer, c)) <= MaxBuffer /\ 0 < Len(Append(buffer, c))
      BY <2>1
    <3>3. Len(buffer') < MaxBuffer
      BY <3>1
    <3> QED BY <2>1, <3>1, <3>2, <3>3, EmitBound DEF BatchBound
  <2> QED BY <2>1, <2>2, <2>3
<1>3. CASE IssueBatched
  <2>1. issued + 1 \in Calls
    BY <1>3, MaxCallsAssumption DEF IssueBatched, TypeOK, Calls
  <2> QED BY <1>2, <1>3, <2>1 DEF IssueBatched
<1>4. CASE IssueDirect
  <2>1. issued + 1 # Batcher
    BY DEF TypeOK, Batcher
  <2>2. post'[Batcher] = post[Batcher]
    BY <1>1, <1>4, <2>1 DEF IssueDirect
  <2> QED BY <1>4, <2>2, SameBound DEF IssueDirect
<1>5. CASE FlushTimer
  <2>1. 0 < Len(buffer) /\ Len(buffer) <= MaxBuffer
    BY <1>1, <1>5 DEF FlushTimer, BatchBound
  <2>2. buffer' = <<>> /\ Emit(buffer)
    BY <1>5 DEF FlushTimer
  <2>3. Len(buffer') < MaxBuffer
    BY <2>2
  <2> QED BY <1>1, <2>1, <2>2, <2>3, EmitBound DEF BatchBound
<1>6. ASSUME NEW p \in Sender, ArmServes(p) \/ Unauthorized(p) \/ TokenGranted(p)
      PROVE  BatchBound'
  <2>1. post'[Batcher].reqs = post[Batcher].reqs
    <3>1. CASE ArmServes(p)
      BY <1>1, <3>1 DEF ArmServes, Post
    <3>2. CASE Unauthorized(p)
      BY <1>1, <3>2 DEF Unauthorized, Post
    <3>3. CASE TokenGranted(p)
      BY <1>1, <3>3 DEF TokenGranted, Post
    <3> QED BY <1>6, <3>1, <3>2, <3>3
  <2> QED BY <1>6, <2>1, SameBound DEF ArmServes, Unauthorized, TokenGranted
<1>7. CASE AnswerBatch
  <2>1. buffer' = buffer /\ NextBatch
    BY <1>7 DEF AnswerBatch
  <2>2. CASE queue = <<>>
    <3>1. post'[Batcher] = NoPost /\ queue' = queue
      BY <1>1, <2>1, <2>2 DEF NextBatch
    <3> QED BY <2>1, <3>1 DEF BatchBound, NoPost
  <2>3. CASE queue # <<>>
    <3>1. post'[Batcher] = Sent(Head(queue)) /\ queue' = Tail(queue)
      BY <1>1, <2>1, <2>3 DEF NextBatch
    <3>2. /\ Len(queue) \in Nat /\ Len(queue) > 0 /\ Head(queue) = queue[1]
          /\ Len(queue') = Len(queue) - 1
          /\ \A i \in 1 .. Len(queue') : queue'[i] = queue[i + 1]
      BY <1>1, <2>3, <3>1, HeadTailProperties
    <3>3. \A i \in 1 .. Len(queue') : i + 1 \in 1 .. Len(queue)
      BY <3>2
    <3> QED BY <2>1, <3>1, <3>2, <3>3 DEF BatchBound, Sent
  <2> QED BY <2>2, <2>3
<1>8. ASSUME NEW c \in Calls, AnswerDirect(c)
      PROVE  BatchBound'
  <2>1. post'[Batcher] = post[Batcher]
    BY <1>1, <1>8 DEF AnswerDirect
  <2> QED BY <1>8, <2>1, SameBound DEF AnswerDirect
<1>9. ASSUME NEW p \in Sender, NEW how, Fail(p, how)
      PROVE  BatchBound'
  <2>1. CASE FailBatch
    <3>1. buffer' = <<>> /\ queue' = <<>> /\ post'[Batcher] = NoPost
      BY <1>1, <2>1 DEF FailBatch
    <3> QED BY <3>1 DEF BatchBound, NoPost
  <2>2. CASE p \in Calls /\ FailDirect(p, how)
    <3>1. post'[Batcher] = post[Batcher]
      BY <1>1, <2>2 DEF FailDirect
    <3> QED BY <2>2, <3>1, SameBound DEF FailDirect
  <2> QED BY <1>9, <2>1, <2>2 DEF Fail
<1>10. ASSUME NEW p \in Sender, ArmReplies(p) \/ PortalReplies(p)
       PROVE  BatchBound'
  <2>1. CASE TokenRefused(p) \/ StillUnauthorized(p) \/ ErrorReply(p) \/ NetworkError(p)
    BY <1>9, <2>1 DEF TokenRefused, StillUnauthorized, ErrorReply, NetworkError
  <2> QED BY <1>6, <1>7, <1>8, <1>10, <2>1 DEF ArmReplies, PortalReplies
<1>11. ASSUME NEW c \in Calls, ArmServesLate(c)
       PROVE  BatchBound'
  BY <1>11, SameBound DEF ArmServesLate
<1> QED BY <1>3, <1>4, <1>5, <1>6, <1>10, <1>11 DEF Next

\* No batch is larger than the service takes, wherever it is.
THEOREM BatchesBounded == Spec => []BatchBound
<1>1. Init => BatchBound
  BY MaxBufferAssumption DEF Init, BatchBound, NoPost, Sender
<1>2. TypeOK /\ BatchBound /\ [Next]_vars => BatchBound'
  <2>1. CASE Next
    BY <2>1, StepBound
  <2>2. CASE UNCHANGED vars
    BY <2>2 DEF vars, BatchBound
  <2> QED BY <2>1, <2>2
<1> QED BY <1>1, <1>2, TypeCorrect, PTL DEF Spec

\* ARM executes batched requests in the order of the calls.
THEOREM ExecutionOrder == Spec => []InOrder
<1>1. IInv => InOrder
  <2>1. SUFFICES ASSUME IInv, NEW c \in Calls \ direct, NEW d \in Calls \ direct,
                        c < d, verdict[d] # "none", status[c] = "waiting"
                 PROVE  verdict[c] # "none"
    BY DEF InOrder
  <2>2. status[d] = "waiting"
    BY <2>1 DEF IInv, SettledInOrder, History, TypeOK
  <2>3. PICK p \in Sender : post[p].phase = "served" /\ d \in Requested(p)
    BY <2>1, <2>2 DEF IInv, History
  <2>4. p = Batcher
    BY <2>1, <2>3, PipelineWaits DEF Sender
  <2>5. c \in Requested(Batcher) \cup Queued \cup ToSet(buffer)
    BY <2>1 DEF IInv, NoOrphan, Waiters
  <2>6. c \in Requested(Batcher)
    BY <2>1, <2>3, <2>4, <2>5 DEF IInv, PipelineOrder, Precede, Calls
  <2>7. \A i \in 1 .. Len(post[Batcher].reqs) :
          /\ post[Batcher].replies[i] = verdict[post[Batcher].reqs[i]]
          /\ post[Batcher].replies[i] \in Outcome
    <3>1. /\ post[Batcher].replies \in Seq(Outcome)
          /\ Len(post[Batcher].replies) = Len(post[Batcher].reqs)
      BY <2>1, <2>3, <2>4 DEF IInv, PostShape, TypeOK, Post
    <3> QED BY <2>1, <2>3, <2>4, <3>1, ElementOfSeq DEF IInv, PostShape
  <2>8. Requested(Batcher) = {post[Batcher].reqs[i] : i \in 1 .. Len(post[Batcher].reqs)}
    BY <2>1, <2>3, <2>4, ToSetType DEF Requested, IInv, TypeOK, Post
  <2> QED BY <2>6, <2>7, <2>8 DEF Outcome
<1> QED BY <1>1, Inductive, PTL

\* ARM executes a request at most once.
THEOREM ExecutedAtMostOnce == Spec => AtMostOnce
<1>1. IInv /\ [Next]_vars =>
        [\A c \in Calls : verdict[c] # "none" => verdict'[c] = verdict[c]]_vars
  <2>1. SUFFICES ASSUME IInv, Next, NEW c \in Calls, verdict[c] # "none"
                 PROVE  verdict'[c] = verdict[c]
    OBVIOUS
  <2>2. ASSUME NEW p \in Sender, ArmServes(p)
        PROVE  verdict'[c] = verdict[c]
    BY <2>1, <2>2 DEF ArmServes, IInv, PostShape
  <2>3. ASSUME NEW d \in Calls, ArmServesLate(d)
        PROVE  verdict'[c] = verdict[c]
    BY <2>1, <2>3 DEF ArmServesLate, IInv, TypeOK
  <2> QED BY <2>1, <2>2, <2>3
      DEF Next, IssueBatched, IssueDirect, FlushTimer, ArmReplies, PortalReplies,
          AnswerBatch, AnswerDirect, Unauthorized, TokenGranted, TokenRefused,
          StillUnauthorized, ErrorReply, NetworkError, Fail
<1> QED BY <1>1, Inductive, PTL DEF Spec, AtMostOnce

\* ARM starts on a request only while its caller waits, or when it was given up
\* on the wire.
THEOREM NoPhantom == Spec => NoPhantomExecution
<1>1. IInv /\ [Next]_vars =>
        [\A c \in Calls : verdict'[c] # verdict[c] => status[c] = "waiting" \/ c \in doubt]_vars
  <2>1. SUFFICES ASSUME IInv, Next, NEW c \in Calls, verdict'[c] # verdict[c]
                 PROVE  status[c] = "waiting" \/ c \in doubt
    OBVIOUS
  <2>2. ASSUME NEW p \in Sender, ArmServes(p)
        PROVE  status[c] = "waiting"
    <3>1. c \in Requested(p)
      BY <2>1, <2>2 DEF ArmServes
    <3> QED BY <2>1, <3>1, PipelineWaits
  <2>3. ASSUME NEW d \in Calls, ArmServesLate(d)
        PROVE  c \in doubt
    BY <2>1, <2>3 DEF ArmServesLate, IInv, TypeOK
  <2> QED BY <2>1, <2>2, <2>3
      DEF Next, IssueBatched, IssueDirect, FlushTimer, ArmReplies, PortalReplies,
          AnswerBatch, AnswerDirect, Unauthorized, TokenGranted, TokenRefused,
          StillUnauthorized, ErrorReply, NetworkError, Fail
<1> QED BY <1>1, Inductive, PTL DEF Spec, NoPhantomExecution

-----------------------------------------------------------------------------
(* ArmBatch implements ArmCalls.                                           *)

\* Issuing a call is the Issue of the abstract view.
LEMMA IssueRefines ==
  ASSUME IInv, IssueBatched \/ IssueDirect
  PROVE  Abstract!Issue
<1>1. issued + 1 \in Calls /\ status[issued + 1] = "idle"
  BY MaxCallsAssumption DEF IInv, TypeOK, History, IssueBatched, IssueDirect, Calls
<1>2. /\ status' = [status EXCEPT ![issued + 1] = "waiting"]
      /\ UNCHANGED <<verdict, doubt>>
  BY DEF IssueBatched, IssueDirect
<1> QED BY <1>1, <1>2 DEF Abstract!Issue

\* ARM executes requests as in the abstract view.
LEMMA ServeRefines ==
  ASSUME IInv, NEW p \in Sender, ArmServes(p)
  PROVE  Abstract!Execute
<1>1. PICK good \in SUBSET Requested(p) : ArmServes(p)!2!(good)
  BY DEF ArmServes
<1>2. Requested(p) \in SUBSET Calls /\ good \in SUBSET Calls
  BY PipelineWaits
<1>3. \A c \in Requested(p) : verdict[c] = "none" /\ status[c] = "waiting"
  BY PipelineWaits DEF ArmServes, IInv, PostShape
<1>4. verdict' = [c \in Calls |-> IF c \notin Requested(p) THEN verdict[c]
                                  ELSE IF c \in good THEN "ok" ELSE "error"]
  BY <1>1
<1>5. \E g \in SUBSET Calls, done \in SUBSET Calls :
        /\ \A c \in done : verdict[c] = "none" /\ (status[c] = "waiting" \/ c \in doubt)
        /\ verdict' = [c \in Calls |-> IF c \notin done THEN verdict[c]
                                       ELSE IF c \in g THEN "ok" ELSE "error"]
  BY <1>2, <1>3, <1>4
<1>6. UNCHANGED <<status, doubt>>
  BY DEF ArmServes
<1> QED BY <1>5, <1>6 DEF Abstract!Execute

\* A request executed late is in doubt.
LEMMA ServeLateRefines ==
  ASSUME IInv, NEW c \in Calls, ArmServesLate(c)
  PROVE  Abstract!Execute
<1>1. PICK o \in Outcome : verdict' = [verdict EXCEPT ![c] = o]
  BY DEF ArmServesLate
<1> DEFINE good == IF o = "ok" THEN {c} ELSE {}
<1>2. verdict' = [d \in Calls |-> IF d \notin {c} THEN verdict[d]
                                  ELSE IF d \in good THEN "ok" ELSE "error"]
  BY <1>1 DEF IInv, TypeOK, Outcome
<1>3. good \in SUBSET Calls /\ {c} \in SUBSET Calls
  OBVIOUS
<1>4. /\ \A d \in {c} : verdict[d] = "none" /\ (status[d] = "waiting" \/ d \in doubt)
      /\ UNCHANGED <<status, doubt>>
  BY DEF ArmServesLate
<1> HIDE DEF good
<1>5. \E g \in SUBSET Calls, done \in SUBSET Calls :
        /\ \A d \in done : verdict[d] = "none" /\ (status[d] = "waiting" \/ d \in doubt)
        /\ verdict' = [d \in Calls |-> IF d \notin done THEN verdict[d]
                                       ELSE IF d \in g THEN "ok" ELSE "error"]
  BY <1>2, <1>3, <1>4
<1> QED BY <1>4, <1>5 DEF Abstract!Execute

\* An answered POST tells its callers what ARM did.
LEMMA AnswerRefines ==
  ASSUME IInv, NEW p \in Sender, post[p].phase = "served", status' = Delivered(p),
         UNCHANGED <<verdict, doubt>>
  PROVE  Abstract!Answer
<1>1. Requested(p) \in SUBSET Calls /\ \A c \in Requested(p) : status[c] = "waiting"
  BY PipelineWaits
<1>2. \A c \in Requested(p) : verdict[c] \in Outcome
  BY DeliveredOwn
<1>3. status' = [c \in Calls |-> IF c \notin Requested(p) THEN status[c]
                                 ELSE IF verdict[c] = "ok" THEN "ok" ELSE "failed"]
  BY DeliveredOwn DEF Delivered
<1>4. Outcome = Abstract!Outcome
  BY DEF Outcome, Abstract!Outcome
<1> QED BY <1>1, <1>2, <1>3, <1>4 DEF Abstract!Answer

\* A POST that fails gives up its own requests, and those never sent.
LEMMA FailRefines ==
  ASSUME IInv, NEW p \in Sender, NEW how \in {"failed", "threw"}, Fail(p, how),
         post[p].phase # "none",
         NEW sent \in SUBSET Requested(p), doubt' = doubt \cup sent,
         post[p].phase = "served" => sent = Requested(p)
  PROVE  Abstract!GiveUp
<1>1. /\ UNCHANGED verdict
      /\ Batcher \in Sender /\ \A c \in Calls : c \in Sender /\ c # Batcher
  BY BatcherNotCall DEF Fail, Sender
<1>2. CASE p = Batcher
  <2>1. status' = [c \in Calls |-> IF c \in Waiters THEN "failed" ELSE status[c]]
    BY <1>1, <1>2 DEF Fail, FailBatch
  <2>2. Waiters \in SUBSET Calls /\ \A c \in Waiters : status[c] = "waiting"
    BY DEF Waiters
  <2>3. sent \subseteq Waiters /\ sent \in SUBSET Calls
    BY <1>2, <2>2 DEF IInv, NoOrphan
  <2>4. ASSUME NEW c \in Waiters \ sent
        PROVE  verdict[c] = "none"
    <3>1. SUFFICES ASSUME verdict[c] # "none" PROVE FALSE
      OBVIOUS
    <3>2. PICK q \in Sender : post[q].phase = "served" /\ c \in Requested(q)
      BY <2>2, <2>4, <3>1 DEF IInv, History
    <3>3. q = Batcher
      BY <2>4, <3>2, PipelineWaits DEF Sender, Waiters
    <3> QED BY <1>2, <2>4, <3>2, <3>3
  <2>5. "failed" \in {"failed", "threw"}
    OBVIOUS
  <2> QED BY <1>1, <2>1, <2>2, <2>3, <2>4, <2>5 DEF Abstract!GiveUp
<1>3. CASE p \in Calls
  <2>1. status' = [status EXCEPT ![p] = how]
    BY <1>1, <1>3 DEF Fail, FailDirect
  <2>2. status' = [c \in Calls |-> IF c \in {p} THEN how ELSE status[c]]
    BY <2>1 DEF IInv, TypeOK
  <2>3. Requested(p) = {p} /\ status[p] = "waiting"
    BY <1>3, ToSetSingle DEF IInv, NoOrphan, PostShape, Requested
  <2>4. ASSUME NEW c \in {p} \ sent
        PROVE  verdict[c] = "none"
    <3>1. post[p].phase # "served" /\ c = p
      BY <2>3, <2>4
    <3>2. post[p].phase \in {"sent", "token"}
      BY <1>3, <3>1 DEF IInv, TypeOK, Post
    <3> QED BY <2>3, <3>1, <3>2 DEF IInv, PostShape
  <2>5. {p} \in SUBSET Calls /\ sent \in SUBSET Calls /\ sent \subseteq {p}
    BY <1>3, <2>3
  <2> QED BY <1>1, <2>2, <2>3, <2>4, <2>5 DEF Abstract!GiveUp
<1> QED BY <1>2, <1>3 DEF Sender

\* Every step of the pipeline is a step of the abstract view, or changes nothing
\* of it.
LEMMA StepRefines ==
  ASSUME IInv, Next
  PROVE  Abstract!Next \/ UNCHANGED Abstract!vars
<1>1. CASE IssueBatched \/ IssueDirect
  BY <1>1, IssueRefines DEF Abstract!Next
<1>2. CASE FlushTimer
  BY <1>2 DEF FlushTimer, Abstract!vars
<1>3. ASSUME NEW p \in Sender, ArmServes(p)
      PROVE  Abstract!Next
  BY <1>3, ServeRefines DEF Abstract!Next
<1>4. ASSUME NEW c \in Calls, ArmServesLate(c)
      PROVE  Abstract!Next
  BY <1>4, ServeLateRefines DEF Abstract!Next
<1>5. ASSUME NEW p \in Sender, Unauthorized(p) \/ TokenGranted(p)
      PROVE  UNCHANGED Abstract!vars
  BY <1>5 DEF Unauthorized, TokenGranted, Abstract!vars
<1>6. ASSUME NEW p \in Sender,
             TokenRefused(p) \/ StillUnauthorized(p) \/ ErrorReply(p) \/ NetworkError(p)
      PROVE  Abstract!Next
  <2>1. PICK how \in {"failed", "threw"}, lost \in SUBSET Requested(p) :
           /\ Fail(p, how)
           /\ post[p].phase # "none"
           /\ doubt' = doubt \cup lost
           /\ post[p].phase = "served" => lost = Requested(p)
    BY <1>6, FailureCases
  <2>2. Abstract!GiveUp
    BY <2>1, FailRefines
  <2> QED BY <2>2 DEF Abstract!Next
<1>7. CASE AnswerBatch
  BY <1>7, AnswerRefines DEF AnswerBatch, Abstract!Next, Sender
<1>8. ASSUME NEW c \in Calls, AnswerDirect(c)
      PROVE  Abstract!Next
  BY <1>8, AnswerRefines DEF AnswerDirect, Abstract!Next, Sender
<1> QED BY <1>1, <1>2, <1>3, <1>4, <1>5, <1>6, <1>7, <1>8
    DEF Next, ArmReplies, PortalReplies

\* The pipeline keeps the promises of MakeArmCall: ArmBatch implements ArmCalls.
THEOREM Refinement == Spec => ImplementsCalls
<1>1. Init => Abstract!Init
  BY DEF Init, Abstract!Init
<1>2. IInv /\ [Next]_vars => [Abstract!Next]_(Abstract!vars)
  <2>1. CASE Next
    BY <2>1, StepRefines
  <2>2. CASE UNCHANGED vars
    BY <2>2 DEF vars, Abstract!vars
  <2> QED BY <2>1, <2>2
<1> QED BY <1>1, <1>2, Inductive, PTL DEF Spec, ImplementsCalls, Abstract!Spec
=============================================================================
