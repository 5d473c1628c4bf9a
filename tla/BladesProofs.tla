---------------------------- MODULE BladesProofs ----------------------------
(***************************************************************************)
(* Theorems about Session, for any number of tokens, inputs, failures and  *)
(* reads; about Console, for any characters, any directory and any length  *)
(* of the line, of the history and of the list of files; and about the     *)
(* composition of the blades, which inherits what is proved of each.       *)
(***************************************************************************)
EXTENDS MCBlades, FeatureComponentProofs, ConfigurationProofs, AppsTreeProofs,
        SequenceTheorems, FiniteSetTheorems

-----------------------------------------------------------------------------
(* Session.                                                                *)

\* A sequence without one of its elements.
LEMMA RemoveAtType ==
  ASSUME NEW S, NEW s \in Seq(S), NEW i \in 1 .. Len(s)
  PROVE  RemoveAt(s, i) \in Seq(S) /\ Len(RemoveAt(s, i)) = Len(s) - 1
<1>1. \A j \in 1 .. Len(s) : s[j] \in S
  BY ElementOfSeq
<1>2. SubSeq(s, 1, i - 1) \in Seq(S) /\ Len(SubSeq(s, 1, i - 1)) = i - 1
  <2>1. \A j \in 1 .. i - 1 : s[j] \in S
    BY <1>1
  <2> QED BY <2>1, SubSeqProperties
<1>3. SubSeq(s, i + 1, Len(s)) \in Seq(S) /\ Len(SubSeq(s, i + 1, Len(s))) = Len(s) - i
  <2>1. \A j \in i + 1 .. Len(s) : s[j] \in S
    BY <1>1
  <2> QED BY <2>1, SubSeqProperties
<1>4. /\ RemoveAt(s, i) \in Seq(S)
      /\ Len(RemoveAt(s, i)) = Len(SubSeq(s, 1, i - 1)) + Len(SubSeq(s, i + 1, Len(s)))
  BY <1>2, <1>3, ConcatProperties DEF RemoveAt
<1>5. (i - 1) + (Len(s) - i) = Len(s) - 1
  OBVIOUS
<1> QED BY <1>2, <1>3, <1>4, <1>5, Zenon

LEMMA SessionBounds ==
  /\ MaxTokens \in Nat \ {0}
  /\ MaxInputsSent \in Nat /\ MaxFailures \in Nat /\ MaxReads \in Nat
BY SessionBoundsAssumption

\* A message of the shell is added to those under way.
LEMMA SendType ==
  ASSUME SessionTypeOK, issued' \in Token \ {0},
         NEW verb \in {"send-startup-info", "send-token2", "send-inputs"}, Send(verb)
  PROVE  /\ inbox' \in Seq(Message) /\ Len(inbox') = Len(inbox) + 1
         /\ \A j \in 1 .. Len(inbox) : inbox'[j] = inbox[j]
         /\ inbox'[Len(inbox) + 1].verb = verb /\ inbox'[Len(inbox) + 1].token = issued'
BY DEF SessionTypeOK, Send, Message

LEMMA SessionInitInv == SessionInit => SessionIInv
<1> SUFFICES ASSUME SessionInit PROVE SessionIInv
  OBVIOUS
<1> USE SessionBounds
<1>1. SessionTypeOK
  <2>1. 1 \in Token \ {0} /\ 0 \in Token /\ 0 \in 0 .. MaxInputsSent /\ 0 \in 0 .. MaxFailures
    BY DEF Token
  <2>2. inbox \in Seq(Message) /\ reads \in Seq(Token) /\ Len(reads) <= MaxReads
    BY DEF SessionInit
  <2> QED BY <2>1, <2>2 DEF SessionInit, SessionTypeOK
<1>2. 1 .. Len(inbox) = {}
  BY DEF SessionInit
<1> QED BY <1>1, <1>2 DEF SessionInit, SessionIInv, StartupFirst

\* A new token.
LEMMA IssueTokenStep ==
  ASSUME SessionIInv, IssueToken
  PROVE  SessionIInv'
<1> USE SessionBounds
<1>1. issued' \in Token \ {0} /\ issued' = issued + 1
  BY DEF SessionIInv, SessionTypeOK, IssueToken, Token
<1>2. CASE ~started
  <2>1. UNCHANGED inbox
    BY <1>2 DEF IssueToken
  <2> QED BY <1>1, <1>2, <2>1
    DEF IssueToken, SessionIInv, SessionTypeOK, StartupFirst, TokenOnItsWay, Carries
<1>3. CASE started
  <2>1. Send("send-token2")
    BY <1>3 DEF IssueToken
  <2>2. /\ inbox' \in Seq(Message) /\ Len(inbox') = Len(inbox) + 1
        /\ \A j \in 1 .. Len(inbox) : inbox'[j] = inbox[j]
        /\ inbox'[Len(inbox) + 1].verb = "send-token2"
        /\ inbox'[Len(inbox) + 1].token = issued'
    BY <1>1, <2>1, SendType DEF SessionIInv
  <2>3. Len(inbox) \in Nat
    BY DEF SessionIInv, SessionTypeOK
  <2>4. SessionTypeOK'
    BY <1>1, <2>2 DEF IssueToken, SessionIInv, SessionTypeOK
  <2>5. TokenOnItsWay'
    BY <2>2, <2>3 DEF TokenOnItsWay, Carries
  <2>6. StartupFirst'
    <3>1. StartupFirst /\ started' = started /\ startupToken' = startupToken
      BY DEF IssueToken, SessionIInv
    <3>2. \A j \in 1 .. Len(inbox') : j \in 1 .. Len(inbox) \/ j = Len(inbox) + 1
      BY <2>2, <2>3
    <3>3. \A i \in 1 .. Len(inbox') : Carries(inbox'[i]) => started' /\ inbox'[i].token # 0
      BY <1>1, <1>3, <2>2, <3>1, <3>2 DEF StartupFirst
    <3>4. startupToken' # 0 =>
            started' /\ \A i \in 1 .. Len(inbox') : inbox'[i].verb # "send-startup-info"
      BY <2>2, <3>1, <3>2 DEF StartupFirst
    <3>5. startupToken = 0 =>
            \E i \in 1 .. Len(inbox') :
              /\ inbox'[i].verb = "send-startup-info"
              /\ \A j \in 1 .. Len(inbox') : j # i =>
                   /\ inbox'[j].verb # "send-startup-info"
                   /\ j < i => ~Carries(inbox'[j])
      <4> SUFFICES ASSUME startupToken = 0
                   PROVE  \E i \in 1 .. Len(inbox') :
                            /\ inbox'[i].verb = "send-startup-info"
                            /\ \A j \in 1 .. Len(inbox') : j # i =>
                                 /\ inbox'[j].verb # "send-startup-info"
                                 /\ j < i => ~Carries(inbox'[j])
        OBVIOUS
      <4>1. PICK i \in 1 .. Len(inbox) :
              /\ inbox[i].verb = "send-startup-info"
              /\ \A j \in 1 .. Len(inbox) : j # i =>
                   inbox[j].verb # "send-startup-info" /\ (j < i => ~Carries(inbox[j]))
        BY <1>3, <3>1 DEF StartupFirst
      <4>2. i \in 1 .. Len(inbox') /\ ~(Len(inbox) + 1 < i)
        BY <2>2, <2>3
      <4> QED BY <2>2, <3>2, <4>1, <4>2
    <3> QED BY <3>1, <3>3, <3>4, <3>5 DEF StartupFirst
  <2> QED BY <1>3, <2>4, <2>5, <2>6 DEF IssueToken, SessionIInv
<1> QED BY <1>2, <1>3

\* The startup information is sent.
LEMMA SendStartupInfoStep ==
  ASSUME SessionIInv, SendStartupInfo
  PROVE  SessionIInv'
<1>1. issued' \in Token \ {0} /\ issued' = issued
  BY DEF SessionIInv, SessionTypeOK, SendStartupInfo
<1>2. /\ inbox' \in Seq(Message) /\ Len(inbox') = Len(inbox) + 1
      /\ \A j \in 1 .. Len(inbox) : inbox'[j] = inbox[j]
      /\ inbox'[Len(inbox) + 1].verb = "send-startup-info"
      /\ inbox'[Len(inbox) + 1].token = issued'
  BY <1>1, SendType DEF SessionIInv, SendStartupInfo
<1>3. Len(inbox) \in Nat
  BY DEF SessionIInv, SessionTypeOK
<1>4. SessionTypeOK'
  BY <1>1, <1>2 DEF SendStartupInfo, SessionIInv, SessionTypeOK
<1>5. TokenOnItsWay'
  BY <1>2, <1>3 DEF TokenOnItsWay, Carries
<1>6. \A i \in 1 .. Len(inbox) : ~Carries(inbox[i])
  BY DEF SendStartupInfo, SessionIInv, StartupFirst
<1>7. StartupFirst'
  BY <1>1, <1>2, <1>3, <1>6 DEF SendStartupInfo, SessionIInv, StartupFirst, Carries, Token
<1> QED BY <1>4, <1>5, <1>7 DEF SendStartupInfo, SessionIInv

\* Other inputs are sent.
LEMMA SendInputsStep ==
  ASSUME SessionIInv, SendInputs
  PROVE  SessionIInv'
<1>1. issued' \in Token \ {0} /\ issued' = issued
  BY DEF SessionIInv, SessionTypeOK, SendInputs
<1>2. /\ inbox' \in Seq(Message) /\ Len(inbox') = Len(inbox) + 1
      /\ \A j \in 1 .. Len(inbox) : inbox'[j] = inbox[j]
      /\ inbox'[Len(inbox) + 1].verb = "send-inputs"
  BY <1>1, SendType DEF SessionIInv, SendInputs
<1>3. Len(inbox) \in Nat
  BY DEF SessionIInv, SessionTypeOK
<1>4. SessionTypeOK'
  BY <1>1, <1>2, SessionBounds DEF SendInputs, SessionIInv, SessionTypeOK
<1>5. started => TokenOnItsWay'
  BY <1>1, <1>2, <1>3 DEF SendInputs, SessionIInv, TokenOnItsWay, Carries
<1>6. StartupFirst'
  BY <1>2, <1>3 DEF SendInputs, SessionIInv, StartupFirst, Carries
<1> QED BY <1>4, <1>5, <1>6 DEF SendInputs, SessionIInv

\* A message is received.
LEMMA ReceiveMessageStep ==
  ASSUME SessionIInv, ReceiveMessage
  PROVE  SessionIInv'
<1> DEFINE m == Head(inbox)
<1>1. /\ inbox' \in Seq(Message) /\ Len(inbox') = Len(inbox) - 1
      /\ \A j \in 1 .. Len(inbox') : inbox'[j] = inbox[j + 1]
      /\ m = inbox[1] /\ m \in Message
  BY HeadTailProperties DEF ReceiveMessage, SessionIInv, SessionTypeOK
<1>2. Len(inbox) \in Nat \ {0} /\ 1 \in 1 .. Len(inbox)
  BY EmptySeq DEF ReceiveMessage, SessionIInv, SessionTypeOK
<1>3. /\ startupToken' \in Token
      /\ reads' \in Seq(Token) /\ Len(reads') <= MaxReads
      /\ startupToken' # startupToken /\ ~ended => reads' # <<>>
      /\ reads' = <<>> => reads = <<>>
  <2>0. /\ startupToken \in Token /\ m.token \in Token
        /\ reads \in Seq(Token) /\ Len(reads) \in Nat /\ Len(reads) < MaxReads /\ MaxReads \in Nat
    BY <1>1, SessionBounds DEF ReceiveMessage, SessionIInv, SessionTypeOK, Message
  <2>1. startupToken' \in Token
    BY <2>0 DEF ReceiveMessage
  <2>2. CASE Emit /\ ~ended
    <3>1. reads' = Append(reads, startupToken')
      BY <2>2 DEF Emit
    <3>2. reads' \in Seq(Token) /\ Len(reads') = Len(reads) + 1
      BY <2>0, <2>1, <3>1
    <3> QED BY <2>0, <2>1, <3>2
  <2>3. CASE Emit /\ ended
    BY <2>0, <2>1, <2>3 DEF Emit
  <2>4. CASE UNCHANGED <<startupToken, reads>>
    BY <2>0, <2>4
  <2>5. Emit \/ UNCHANGED <<startupToken, reads>>
    BY DEF ReceiveMessage
  <2> QED BY <2>2, <2>3, <2>4, <2>5
<1>4. SessionTypeOK'
  BY <1>1, <1>3 DEF ReceiveMessage, SessionIInv, SessionTypeOK
<1>5. \A j \in 1 .. Len(inbox) : j # 1 => j - 1 \in 1 .. Len(inbox') /\ inbox'[j - 1] = inbox[j]
  BY <1>1, <1>2
<1>6. StartupFirst'
  <2>1. \A i \in 1 .. Len(inbox') : Carries(inbox'[i]) => started /\ inbox'[i].token # 0
    BY <1>1, <1>2 DEF SessionIInv, StartupFirst
  <2>2. startupToken' # 0 =>
          started /\ \A i \in 1 .. Len(inbox') : inbox'[i].verb # "send-startup-info"
    <3>1. CASE startupToken # 0
      BY <1>1, <1>2, <3>1 DEF SessionIInv, StartupFirst
    <3>2. CASE startupToken = 0 /\ startupToken' # 0
      <4>1. m.verb = "send-startup-info"
        BY <3>2 DEF ReceiveMessage
      <4>2. started
        BY <1>1, <1>2, <4>1 DEF SessionIInv, StartupFirst, Carries
      <4>3. PICK i \in 1 .. Len(inbox) : \A j \in 1 .. Len(inbox) :
              j # i => inbox[j].verb # "send-startup-info"
        BY <3>2, <4>2 DEF SessionIInv, StartupFirst
      <4> QED BY <1>1, <1>2, <4>1, <4>2, <4>3
    <3> QED BY <3>1, <3>2
  <2>3. started /\ startupToken' = 0 =>
          \E i \in 1 .. Len(inbox') :
            /\ inbox'[i].verb = "send-startup-info"
            /\ \A j \in 1 .. Len(inbox') : j # i =>
                 /\ inbox'[j].verb # "send-startup-info"
                 /\ j < i => ~Carries(inbox'[j])
    <3> SUFFICES ASSUME started, startupToken' = 0
                 PROVE  \E i \in 1 .. Len(inbox') :
                          /\ inbox'[i].verb = "send-startup-info"
                          /\ \A j \in 1 .. Len(inbox') : j # i =>
                               /\ inbox'[j].verb # "send-startup-info"
                               /\ j < i => ~Carries(inbox'[j])
      OBVIOUS
    <3>1. startupToken = 0 /\ m.verb # "send-startup-info"
      <4>1. m.verb = "send-startup-info" => m.token # 0
        BY <1>1, <1>2 DEF SessionIInv, StartupFirst, Carries
      <4> QED BY <4>1 DEF ReceiveMessage
    <3>2. PICK i \in 1 .. Len(inbox) :
            /\ inbox[i].verb = "send-startup-info"
            /\ \A j \in 1 .. Len(inbox) : j # i =>
                 inbox[j].verb # "send-startup-info" /\ (j < i => ~Carries(inbox[j]))
      BY <3>1 DEF SessionIInv, StartupFirst
    <3>3. i # 1
      BY <1>1, <3>1, <3>2
    <3>4. i - 1 \in 1 .. Len(inbox') /\ inbox'[i - 1] = inbox[i]
      BY <1>5, <3>3
    <3>5. \A j \in 1 .. Len(inbox') : j # i - 1 =>
            inbox'[j].verb # "send-startup-info" /\ (j < i - 1 => ~Carries(inbox'[j]))
      <4> TAKE j \in 1 .. Len(inbox')
      <4> HAVE j # i - 1
      <4>1. j + 1 \in 1 .. Len(inbox) /\ j + 1 # i /\ inbox'[j] = inbox[j + 1]
        BY <1>1, <1>2
      <4>2. j < i - 1 => j + 1 < i
        BY <1>1, <1>2
      <4> QED BY <3>2, <4>1, <4>2
    <3> QED BY <3>2, <3>4, <3>5
  <2>4. started' = started
    BY DEF ReceiveMessage
  <2> QED BY <2>1, <2>2, <2>3, <2>4 DEF StartupFirst
<1>7. started => TokenOnItsWay'
  <2> SUFFICES ASSUME started PROVE TokenOnItsWay'
    OBVIOUS
  <2>0. issued' = issued
    BY DEF ReceiveMessage
  <2>2. CASE \E i \in 1 .. Len(inbox') : Carries(inbox'[i])
    <3>1. \E i \in 1 .. Len(inbox) : Carries(inbox[i])
      BY <1>1, <1>2, <2>2
    <3>2. PICK i \in 1 .. Len(inbox) :
            /\ Carries(inbox[i]) /\ inbox[i].token = issued
            /\ \A j \in 1 .. Len(inbox) : Carries(inbox[j]) => j <= i
      BY <3>1 DEF SessionIInv, TokenOnItsWay
    <3>3. i # 1
      <4>1. PICK k \in 1 .. Len(inbox') : Carries(inbox'[k])
        BY <2>2
      <4>2. k + 1 \in 1 .. Len(inbox) /\ inbox[k + 1] = inbox'[k]
        BY <1>1, <1>2
      <4> QED BY <1>2, <3>2, <4>1, <4>2
    <3>4. i - 1 \in 1 .. Len(inbox') /\ inbox'[i - 1] = inbox[i]
      BY <1>5, <3>3
    <3>5. \A j \in 1 .. Len(inbox') : Carries(inbox'[j]) => j <= i - 1
      BY <1>1, <1>2, <3>2
    <3> QED BY <2>0, <2>2, <3>2, <3>4, <3>5 DEF TokenOnItsWay
  <2>3. CASE \A i \in 1 .. Len(inbox') : ~Carries(inbox'[i])
    <3>1. \A i \in 1 .. Len(inbox) : Carries(inbox[i]) => i = 1
      BY <1>5, <2>3
    <3>2. startupToken' = issued
      <4>1. CASE Carries(m)
        <5>1. m.token = issued
          BY <1>1, <1>2, <3>1, <4>1 DEF SessionIInv, TokenOnItsWay
        <5>2. m.token # 0
          BY <1>1, <1>2, <4>1 DEF SessionIInv, StartupFirst
        <5>3. m.verb = "send-token2" => startupToken # 0
          <6> SUFFICES ASSUME m.verb = "send-token2", startupToken = 0 PROVE FALSE
            OBVIOUS
          <6>1. PICK i \in 1 .. Len(inbox) :
                  /\ inbox[i].verb = "send-startup-info"
                  /\ \A j \in 1 .. Len(inbox) : j # i => (j < i => ~Carries(inbox[j]))
            BY DEF SessionIInv, StartupFirst
          <6>2. i = 1
            BY <3>1, <6>1 DEF Carries
          <6> QED BY <1>1, <6>1, <6>2
        <5> QED BY <4>1, <5>1, <5>2, <5>3 DEF ReceiveMessage, Carries
      <4>2. CASE ~Carries(m)
        <5>1. \A i \in 1 .. Len(inbox) : ~Carries(inbox[i])
          BY <1>1, <3>1, <4>2
        <5>2. startupToken = issued
          BY <5>1 DEF SessionIInv, TokenOnItsWay
        <5> QED BY <4>2, <5>2 DEF ReceiveMessage, Carries
      <4> QED BY <4>1, <4>2
    <3> QED BY <2>0, <2>3, <3>2 DEF TokenOnItsWay
  <2> QED BY <2>2, <2>3
<1>8. host = "portal" /\ ~ended /\ reads' = <<>> /\ startupToken' # 0 => copied = startupToken'
  BY <1>3 DEF ReceiveMessage, SessionIInv
<1>9. host = "portal" /\ poll # "asked"
  BY <1>2 DEF ReceiveMessage, SessionIInv, SessionTypeOK
<1> QED BY <1>4, <1>6, <1>7, <1>8, <1>9 DEF ReceiveMessage, SessionIInv

\* A read ends, or fails.
LEMMA ReadStep ==
  ASSUME SessionIInv, NEW i \in 1 .. MaxReads, ReadEnds(i) \/ SubscriptionsFail(i)
  PROVE  SessionIInv'
<1>1. i \in 1 .. Len(reads) /\ reads' = RemoveAt(reads, i)
  BY DEF ReadEnds, TextsRead, SubscriptionsRead, SubscriptionsFail
<1>2. reads \in Seq(Token) /\ Len(reads) \in Nat /\ Len(reads) <= MaxReads
  BY DEF SessionIInv, SessionTypeOK
<1>3. reads' \in Seq(Token) /\ Len(reads') = Len(reads) - 1
  BY <1>1, <1>2, RemoveAtType
<1>4. reads[i] \in Token /\ MaxReads \in Nat
  BY <1>1, <1>2, ElementOfSeq, SessionBounds
<1>5. Len(reads') <= MaxReads /\ Len(reads') < Len(reads)
  BY <1>2, <1>3, <1>4
<1>6. SessionTypeOK'
  BY <1>3, <1>4, <1>5, SessionBounds
  DEF ReadEnds, TextsRead, SubscriptionsRead, SubscriptionsFail, CountFailure, SessionIInv,
      SessionTypeOK
<1>7. UNCHANGED <<host, issued, inbox, started, startupToken, ended, poll>>
  BY DEF ReadEnds, TextsRead, SubscriptionsRead, SubscriptionsFail
<1>8. StartupFirst' /\ (started => TokenOnItsWay')
  BY <1>7 DEF SessionIInv, StartupFirst, TokenOnItsWay, Carries
<1>9. host = "portal" => copied' = startupToken
  BY DEF ReadEnds, TextsRead, SubscriptionsRead, SubscriptionsFail
<1>10. poll = "asked" => host = "alone" /\ Len(reads') < MaxReads
  BY <1>2, <1>3, <1>4 DEF SessionIInv
<1> QED BY <1>6, <1>7, <1>8, <1>9, <1>10 DEF SessionIInv

\* The requests for the token of a client that is alone, and the end of the stream.
LEMMA OtherSessionStep ==
  ASSUME SessionIInv, TextsFail \/ AskForToken \/ TokenAnswered \/ TokenFails
  PROVE  SessionIInv'
<1> USE SessionBounds
<1>1. UNCHANGED <<host, issued, inbox, started, startupToken, copied>>
  BY DEF TextsFail, AskForToken, TokenAnswered, TokenFails
<1>2. StartupFirst' /\ (started => TokenOnItsWay')
  BY <1>1 DEF SessionIInv, StartupFirst, TokenOnItsWay, Carries
<1>3. /\ reads' \in Seq(Token) /\ Len(reads') <= MaxReads
      /\ poll' = "asked" => host = "alone" /\ Len(reads') < MaxReads
  <2>1. 0 \in Token /\ issued \in Token
    BY DEF SessionIInv, SessionTypeOK, Token
  <2>2. CASE TextsFail
    BY <2>2 DEF TextsFail, SessionIInv, SessionTypeOK
  <2>3. CASE AskForToken
    BY <2>3 DEF AskForToken, SessionIInv, SessionTypeOK
  <2>4. CASE TokenAnswered \/ TokenFails
    <3>1. PICK t \in Token : SetToken(t)
      BY <2>1, <2>4 DEF TokenAnswered, TokenFails
    <3>2. Len(reads) < MaxReads /\ reads \in Seq(Token) /\ Len(reads) \in Nat
      BY <2>4 DEF TokenAnswered, TokenFails, SessionIInv, SessionTypeOK
    <3>3. Append(reads, t) \in Seq(Token) /\ Len(Append(reads, t)) = Len(reads) + 1
      BY <3>2
    <3> QED BY <2>4, <3>1, <3>2, <3>3 DEF TokenAnswered, TokenFails, SetToken
  <2> QED BY <2>2, <2>3, <2>4
<1>4. SessionTypeOK'
  <2>1. /\ ended' \in BOOLEAN /\ poll' \in {"idle", "asked"}
        /\ inputsSent' = inputsSent
    BY DEF TextsFail, AskForToken, TokenAnswered, TokenFails, CountFailure, SessionIInv,
           SessionTypeOK
  <2>2. failures' = failures \/ CountFailure
    BY DEF TextsFail, AskForToken, TokenAnswered, TokenFails
  <2>3. failures' \in 0 .. MaxFailures
    BY <2>2 DEF CountFailure, SessionIInv, SessionTypeOK
  <2> QED BY <1>1, <1>3, <2>1, <2>3 DEF SessionIInv, SessionTypeOK
<1>5. host = "portal" => TextsFail
  BY DEF TextsFail, AskForToken, TokenAnswered, TokenFails, SessionIInv
<1>6. TextsFail => ended'
  BY DEF TextsFail
<1> QED BY <1>1, <1>2, <1>3, <1>4, <1>5, <1>6 DEF SessionIInv

LEMMA SessionRests == ASSUME SessionIInv, UNCHANGED sessionVars PROVE SessionIInv'
BY DEF SessionIInv, SessionTypeOK, StartupFirst, TokenOnItsWay, Carries, sessionVars

\* The inductive invariant of the session.
THEOREM SessionInductive == SessionSpec => []SessionIInv
<1>1. SessionIInv /\ [SessionNext]_sessionVars => SessionIInv'
  BY IssueTokenStep, SendStartupInfoStep, SendInputsStep, ReceiveMessageStep, ReadStep,
     OtherSessionStep, SessionRests DEF SessionNext
<1> QED BY <1>1, SessionInitInv, PTL DEF SessionSpec

\* In whatever order the reads end, the services of a frame in the portal have the last
\* token when nothing is under way.
THEOREM TokenIsCurrent == SessionSpec => []CopiedIsCurrent
<1>1. SessionIInv => CopiedIsCurrent
  <2> SUFFICES ASSUME SessionIInv, host = "portal", started, ~ended, inbox = <<>>, reads = <<>>
               PROVE  copied = issued
    BY DEF CopiedIsCurrent
  <2>1. 1 .. Len(inbox) = {}
    OBVIOUS
  <2>2. startupToken = issued /\ startupToken # 0
    BY <2>1 DEF SessionIInv, SessionTypeOK, TokenOnItsWay
  <2> QED BY <2>2 DEF SessionIInv
<1> QED BY <1>1, SessionInductive, PTL
-----------------------------------------------------------------------------
(* Console: the line.                                                      *)

CommandParts == [left : Line, middle : Line, right : Line]

LineTypeOK ==
  /\ command \in Line /\ ptrPosition \in 0 .. Len(command) /\ commandInParts \in CommandParts
  /\ longKey \in BOOLEAN

LineInv == LineTypeOK /\ PartsMatch /\ CursorLags

\* The part of a line up to a character, and the part from one on.
LEMMA PartOfLine ==
  ASSUME NEW line \in Line, NEW p \in 0 .. Len(line)
  PROVE  /\ SubSeq(line, 1, p) \in Line /\ Len(SubSeq(line, 1, p)) = p
         /\ SubSeq(line, p + 1, Len(line)) \in Line
         /\ Len(SubSeq(line, p + 1, Len(line))) = Len(line) - p
<1>1. \A i \in 1 .. Len(line) : line[i] \in Chars
  BY ElementOfSeq DEF Line
<1>2. Len(line) \in Nat
  BY DEF Line
<1>3. \A i \in 1 .. p : line[i] \in Chars
  BY <1>1, <1>2
<1>4. \A i \in p + 1 .. Len(line) : line[i] \in Chars
  BY <1>1, <1>2
<1> DEFINE first == SubSeq(line, 1, p)
           rest == SubSeq(line, p + 1, Len(line))
<1>5. first \in Line /\ Len(first) = IF 1 <= p THEN p - 1 + 1 ELSE 0
  BY <1>2, <1>3, SubSeqProperties DEF Line
<1>6. rest \in Line /\ Len(rest) = IF p + 1 <= Len(line) THEN Len(line) - (p + 1) + 1 ELSE 0
  BY <1>2, <1>4, SubSeqProperties DEF Line
<1> HIDE DEF first, rest
<1>7. Len(first) = p
  BY <1>2, <1>5
<1>8. Len(rest) = Len(line) - p
  BY <1>2, <1>6
<1> QED BY <1>5, <1>6, <1>7, <1>8 DEF first, rest

\* A line divided at a character of it.
LEMMA DividedFields ==
  ASSUME NEW line \in Line, NEW p \in 0 .. Len(line)
  PROVE  /\ Divided(line, p) \in CommandParts
         /\ Len(Divided(line, p).left) = p
         /\ p = Len(line) => Divided(line, p) =
              [left |-> line, middle |-> <<Space>>, right |-> <<>>]
         /\ p # Len(line) => \E x \in Chars : Divided(line, p).middle = <<x>>
<1>1. Len(line) \in Nat /\ <<Space>> \in Line /\ <<>> \in Line
  BY CharsAssumption DEF Line
<1>2. CASE p = Len(line)
  BY <1>1, <1>2 DEF Divided, CommandParts
<1>3. CASE p # Len(line)
  <2>1. p + 1 \in 1 .. Len(line) /\ p + 1 \in 0 .. Len(line)
    BY <1>1, <1>3
  <2>2. line[p + 1] \in Chars
    BY <2>1, ElementOfSeq DEF Line
  <2>3. SubSeq(line, 1, p) \in Line /\ Len(SubSeq(line, 1, p)) = p
    BY PartOfLine
  <2>4. SubSeq(line, (p + 1) + 1, Len(line)) \in Line
    BY <2>1, PartOfLine
  <2>5. (p + 1) + 1 = p + 2
    BY <1>1
  <2>6. SubSeq(line, p + 2, Len(line)) \in Line
    BY <2>4, <2>5
  <2>7. <<line[p + 1]>> \in Line
    BY <2>2 DEF Line
  <2>8. Divided(line, p) = [left |-> SubSeq(line, 1, p), middle |-> <<line[p + 1]>>,
                            right |-> SubSeq(line, p + 2, Len(line))]
    BY <1>3 DEF Divided
  <2> QED BY <1>3, <2>2, <2>3, <2>6, <2>7, <2>8 DEF CommandParts
<1> QED BY <1>2, <1>3

\* A line put together from three parts.
LEMMA JoinedElements ==
  ASSUME NEW left \in Line, NEW x \in Chars, NEW right \in Line
  PROVE  /\ (left \o <<x>>) \o right \in Line
         /\ Len((left \o <<x>>) \o right) = Len(left) + 1 + Len(right)
         /\ \A i \in 1 .. Len(left) + 1 + Len(right) :
              ((left \o <<x>>) \o right)[i] =
                 IF i <= Len(left) THEN left[i]
                 ELSE IF i = Len(left) + 1 THEN x ELSE right[i - (Len(left) + 1)]
<1> DEFINE line == (left \o <<x>>) \o right
           n == Len(left)
<1>1. n \in Nat /\ Len(right) \in Nat /\ <<x>> \in Line /\ Len(<<x>>) = 1
  BY DEF Line
<1>2. /\ left \o <<x>> \in Line /\ Len(left \o <<x>>) = n + 1
      /\ \A i \in 1 .. n + 1 : (left \o <<x>>)[i] = IF i <= n THEN left[i] ELSE x
  <2>1. /\ left \o <<x>> \in Line /\ Len(left \o <<x>>) = n + Len(<<x>>)
        /\ \A i \in 1 .. n + Len(<<x>>) :
             (left \o <<x>>)[i] = IF i <= n THEN left[i] ELSE <<x>>[i - n]
    BY <1>1, ConcatProperties DEF Line
  <2>2. \A i \in 1 .. n + 1 : i <= n \/ i - n = 1
    BY <1>1
  <2>3. <<x>>[1] = x
    OBVIOUS
  <2> HIDE DEF n
  <2> QED BY <1>1, <2>1, <2>2, <2>3
<1>3. /\ line \in Line /\ Len(line) = (n + 1) + Len(right)
      /\ \A i \in 1 .. (n + 1) + Len(right) :
           line[i] = IF i <= n + 1 THEN (left \o <<x>>)[i] ELSE right[i - (n + 1)]
  <2>1. /\ line \in Line /\ Len(line) = Len(left \o <<x>>) + Len(right)
        /\ \A i \in 1 .. Len(left \o <<x>>) + Len(right) :
             line[i] = IF i <= Len(left \o <<x>>) THEN (left \o <<x>>)[i]
                       ELSE right[i - Len(left \o <<x>>)]
    BY <1>2, ConcatProperties DEF Line
  <2> QED BY <1>2, <2>1
<1> HIDE DEF line, n
<1>4. Len(line) = n + 1 + Len(right) /\ (n + 1) + Len(right) = n + 1 + Len(right)
  BY <1>1, <1>3
<1>5. ASSUME NEW i \in 1 .. n + 1 + Len(right)
      PROVE  line[i] = IF i <= n THEN left[i] ELSE IF i = n + 1 THEN x ELSE right[i - (n + 1)]
  <2>1. i <= n + 1 => i \in 1 .. n + 1 /\ (i <= n \/ i = n + 1)
    BY <1>1
  <2>2. ~(i <= n + 1) => ~(i <= n) /\ i # n + 1
    BY <1>1
  <2>3. i = n + 1 => ~(i <= n) /\ i <= n + 1
    BY <1>1
  <2>4. i <= n => i <= n + 1
    BY <1>1
  <2>5. CASE i <= n + 1
    BY <1>2, <1>3, <1>4, <2>1, <2>3, <2>4, <2>5
  <2>6. CASE ~(i <= n + 1)
    BY <1>3, <1>4, <2>2, <2>6
  <2> QED BY <2>5, <2>6
<1> QED BY <1>3, <1>4, <1>5 DEF line, n

\* A line with the characters of its parts is these put together.
LEMMA JoinedIsLine ==
  ASSUME NEW line \in Line, NEW left \in Line, NEW x \in Chars, NEW right \in Line,
         Len(left) + 1 + Len(right) = Len(line),
         \A i \in 1 .. Len(left) : line[i] = left[i],
         line[Len(left) + 1] = x,
         \A i \in 1 .. Len(right) : line[Len(left) + 1 + i] = right[i]
  PROVE  (left \o <<x>>) \o right = line
<1> DEFINE joined == (left \o <<x>>) \o right
           n == Len(left)
<1>1. /\ joined \in Line /\ Len(joined) = n + 1 + Len(right)
      /\ \A i \in 1 .. n + 1 + Len(right) :
           joined[i] = IF i <= n THEN left[i] ELSE IF i = n + 1 THEN x ELSE right[i - (n + 1)]
  BY JoinedElements
<1>2. n \in Nat /\ Len(right) \in Nat
  BY DEF Line
<1> HIDE DEF joined, n
<1>3. ASSUME NEW i \in 1 .. n + 1 + Len(right) PROVE joined[i] = line[i]
  <2>1. CASE i <= n
    <3>1. i \in 1 .. n
      BY <1>2, <2>1
    <3> QED BY <1>1, <2>1, <3>1 DEF n
  <2>2. CASE i = n + 1
    <3>1. ~(i <= n)
      BY <1>2, <2>2
    <3> QED BY <1>1, <2>2, <3>1 DEF n
  <2>3. CASE ~(i <= n) /\ i # n + 1
    <3>1. i - (n + 1) \in 1 .. Len(right) /\ n + 1 + (i - (n + 1)) = i
      BY <1>2, <2>3
    <3>2. joined[i] = right[i - (n + 1)]
      BY <1>1, <2>3
    <3>3. line[n + 1 + (i - (n + 1))] = right[i - (n + 1)]
      BY <3>1 DEF n
    <3> QED BY <3>1, <3>2, <3>3
  <2> QED BY <2>1, <2>2, <2>3
<1>4. joined \in Seq(Chars) /\ line \in Seq(Chars) /\ Len(joined) = Len(line)
  BY <1>1 DEF Line, n
<1>5. joined = line
  BY <1>1, <1>3, <1>4, SeqEqual
<1> QED BY <1>5 DEF joined

\* The characters of a part of a line.
LEMMA PartElements ==
  ASSUME NEW s, NEW m \in Int, NEW n \in Int, \A j \in m .. n : s[j] \in Chars
  PROVE  \A i \in 1 .. n - m + 1 : SubSeq(s, m, n)[i] = s[m + i - 1]
BY SubSeqProperties

\* A line put together from three parts comes apart into them.
LEMMA DividedJoined ==
  ASSUME NEW left \in Line, NEW x \in Chars, NEW right \in Line
  PROVE  /\ (left \o <<x>>) \o right \in Line
         /\ Len((left \o <<x>>) \o right) = Len(left) + 1 + Len(right)
         /\ Divided((left \o <<x>>) \o right, Len(left)) =
              [left |-> left, middle |-> <<x>>, right |-> right]
<1> DEFINE line == (left \o <<x>>) \o right
           n == Len(left)
<1>1. n \in Nat /\ Len(right) \in Nat /\ <<x>> \in Line /\ Len(<<x>>) = 1
  BY DEF Line
<1>3. /\ line \in Line /\ Len(line) = n + 1 + Len(right)
      /\ \A i \in 1 .. n + 1 + Len(right) :
           line[i] = IF i <= n THEN left[i] ELSE IF i = n + 1 THEN x ELSE right[i - (n + 1)]
  BY JoinedElements
<1> HIDE DEF line, n
<1>4. Len(line) = n + 1 + Len(right) /\ n # Len(line)
  BY <1>1, <1>3
<1>5. line[n + 1] = x
  <2>1. n + 1 \in 1 .. n + 1 + Len(right) /\ ~(n + 1 <= n)
    BY <1>1
  <2> QED BY <1>3, <2>1
<1>6. SubSeq(line, 1, n) = left
  <2>1. n \in 0 .. Len(line)
    BY <1>1, <1>4
  <2>2. SubSeq(line, 1, n) \in Line /\ Len(SubSeq(line, 1, n)) = n
    BY <1>3, <2>1, PartOfLine
  <2>3. \A i \in 1 .. n : line[i] = left[i] /\ line[i] \in Chars
    <3>1. \A i \in 1 .. n : left[i] \in Chars
      BY ElementOfSeq DEF Line, n
    <3>2. \A i \in 1 .. n : i \in 1 .. n + 1 + Len(right) /\ i <= n
      BY <1>1
    <3> QED BY <1>3, <3>1, <3>2
  <2>4. \A i \in 1 .. n - 1 + 1 : SubSeq(line, 1, n)[i] = line[1 + i - 1]
    <3>1. 1 \in Int /\ n \in Int
      BY <1>1
    <3> QED BY <2>3, <3>1, PartElements
  <2>5. \A i \in 1 .. n : SubSeq(line, 1, n)[i] = left[i]
    <3> TAKE i \in 1 .. n
    <3>1. i \in 1 .. n - 1 + 1 /\ 1 + i - 1 = i
      BY <1>1
    <3> QED BY <2>3, <2>4, <3>1
  <2> QED BY <2>2, <2>5, SeqEqual DEF n, Line
<1>7. SubSeq(line, n + 2, Len(line)) = right
  <2>1. n + 1 \in 0 .. Len(line) /\ (n + 1) + 1 = n + 2 /\ Len(line) - (n + 1) = Len(right)
    BY <1>1, <1>4
  <2>2. SubSeq(line, n + 2, Len(line)) \in Line /\ Len(SubSeq(line, n + 2, Len(line))) = Len(right)
    BY <1>3, <2>1, PartOfLine
  <2>3. \A j \in n + 2 .. Len(line) : line[j] \in Chars
    <3>1. \A j \in 1 .. Len(line) : line[j] \in Chars
      BY <1>3, ElementOfSeq DEF Line
    <3> QED BY <1>1, <1>4, <3>1
  <2>4. \A i \in 1 .. Len(line) - (n + 2) + 1 :
          SubSeq(line, n + 2, Len(line))[i] = line[(n + 2) + i - 1]
    <3>1. n + 2 \in Int /\ Len(line) \in Int
      BY <1>1, <1>4
    <3> QED BY <2>3, <3>1, PartElements
  <2>5. \A i \in 1 .. Len(right) : SubSeq(line, n + 2, Len(line))[i] = right[i]
    <3> TAKE i \in 1 .. Len(right)
    <3>1. /\ i \in 1 .. Len(line) - (n + 2) + 1
          /\ (n + 2) + i - 1 \in 1 .. n + 1 + Len(right)
          /\ ~((n + 2) + i - 1 <= n) /\ (n + 2) + i - 1 # n + 1
          /\ ((n + 2) + i - 1) - (n + 1) = i
      BY <1>1, <1>4
    <3>2. SubSeq(line, n + 2, Len(line))[i] = line[(n + 2) + i - 1]
      BY <2>4, <3>1
    <3>3. line[(n + 2) + i - 1] = right[((n + 2) + i - 1) - (n + 1)]
      BY <1>3, <3>1
    <3> QED BY <3>1, <3>2, <3>3
  <2> QED BY <2>2, <2>5, SeqEqual DEF Line
<1>8. Divided(line, n) = [left |-> left, middle |-> <<x>>, right |-> right]
  BY <1>4, <1>5, <1>6, <1>7 DEF Divided
<1> QED BY <1>3, <1>4, <1>8 DEF line, n

\* The parts of a line are the line.
LEMMA DividedText ==
  ASSUME NEW line \in Line, NEW p \in 0 .. Len(line)
  PROVE  line \in PromptText(Divided(line, p))
<1>1. CASE p = Len(line)
  <2>1. Divided(line, p) = [left |-> line, middle |-> <<Space>>, right |-> <<>>]
    BY <1>1 DEF Divided
  <2>2. /\ Divided(line, p).left = line /\ Divided(line, p).middle = <<Space>>
        /\ Divided(line, p).right = <<>>
    BY <2>1
  <2> QED BY <2>2, Zenon DEF PromptText
<1>2. CASE p # Len(line)
  <2> DEFINE left == SubSeq(line, 1, p)
             right == SubSeq(line, p + 2, Len(line))
  <2>1. Len(line) \in Nat /\ p + 1 \in 1 .. Len(line) /\ p + 1 \in 0 .. Len(line)
    BY <1>2 DEF Line
  <2>2. \A i \in 1 .. Len(line) : line[i] \in Chars
    BY ElementOfSeq DEF Line
  <2>3. PICK x \in Chars : x = line[p + 1]
    BY <2>1, <2>2
  <2>4. left \in Line /\ Len(left) = p
    BY PartOfLine
  <2>5. right \in Line /\ Len(right) = Len(line) - (p + 1)
    <3>1. (p + 1) + 1 = p + 2
      BY <2>1
    <3>2. /\ SubSeq(line, (p + 1) + 1, Len(line)) \in Line
          /\ Len(SubSeq(line, (p + 1) + 1, Len(line))) = Len(line) - (p + 1)
      BY <2>1, PartOfLine
    <3> QED BY <3>1, <3>2
  <2>6. \A i \in 1 .. p : left[i] = line[i]
    <3>1. \A i \in 1 .. p : line[i] \in Chars
      BY <2>1, <2>2
    <3>2. \A i \in 1 .. p - 1 + 1 : left[i] = line[1 + i - 1]
      <4>1. 1 \in Int /\ p \in Int
        BY <2>1
      <4> QED BY <3>1, <4>1, PartElements
    <3> HIDE DEF left
    <3> TAKE i \in 1 .. p
    <3>3. i \in 1 .. p - 1 + 1 /\ 1 + i - 1 = i
      BY <2>1
    <3> QED BY <3>2, <3>3
  <2>7. \A i \in 1 .. Len(line) - (p + 1) : right[i] = line[p + 1 + i]
    <3>1. \A i \in p + 2 .. Len(line) : line[i] \in Chars
      BY <2>1, <2>2
    <3>2. \A i \in 1 .. Len(line) - (p + 2) + 1 : right[i] = line[(p + 2) + i - 1]
      <4>1. p + 2 \in Int /\ Len(line) \in Int
        BY <2>1
      <4> QED BY <3>1, <4>1, PartElements
    <3> HIDE DEF right
    <3> TAKE i \in 1 .. Len(line) - (p + 1)
    <3>3. i \in 1 .. Len(line) - (p + 2) + 1 /\ (p + 2) + i - 1 = p + 1 + i
      BY <2>1
    <3> QED BY <3>2, <3>3
  <2>8. Divided(line, p) = [left |-> left, middle |-> <<x>>, right |-> right]
    BY <1>2, <2>3 DEF Divided
  <2> HIDE DEF left, right
  <2>9. (left \o <<x>>) \o right = line
    <3>1. Len(left) + 1 + Len(right) = Len(line)
      BY <2>1, <2>4, <2>5
    <3>2. \A i \in 1 .. Len(left) : line[i] = left[i]
      BY <2>4, <2>6
    <3>3. line[Len(left) + 1] = x
      BY <2>3, <2>4
    <3>4. \A i \in 1 .. Len(right) : line[Len(left) + 1 + i] = right[i]
      BY <2>4, <2>5, <2>7
    <3> QED BY <2>4, <2>5, <3>1, <3>2, <3>3, <3>4, JoinedIsLine
  <2> QED BY <2>8, <2>9 DEF PromptText
<1> QED BY <1>1, <1>2

\* A line that is divided anew.
LEMMA LineIsDivided ==
  ASSUME command' \in Line, ptrPosition' \in 0 .. Len(command'), longKey' = FALSE,
         commandInParts' = Divided(command', ptrPosition')
  PROVE  LineInv'
BY DividedFields, DividedText DEF LineInv, LineTypeOK, PartsMatch, CursorLags

\* The cursor behind a new line, and the line given up.
LEMMA LineIsSet ==
  ASSUME (\E line \in Line : SetLine(line)) \/ ResetCommand
  PROVE  LineInv'
<1>1. PICK line \in Line : SetLine(line)
  <2>1. CASE ResetCommand
    <3>1. <<>> \in Line /\ Len(<<>>) = 0
      BY DEF Line
    <3>2. SetLine(<<>>)
      BY <2>1, <3>1 DEF SetLine, ResetCommand, Divided, NoParts
    <3> QED BY <3>1, <3>2
  <2> QED BY <2>1
<1>2. Len(line) \in 0 .. Len(line)
  BY DEF Line
<1> QED BY <1>1, <1>2, LineIsDivided DEF SetLine

\* The line stays as it is.
LEMMA LineStays ==
  ASSUME LineInv, UNCHANGED lineVars
  PROVE  LineInv'
BY DEF LineInv, LineTypeOK, PartsMatch, CursorLags, lineVars

\* What the invariant says of the parts.
LEMMA LineShape ==
  ASSUME LineInv
  PROVE  /\ commandInParts.left \in Line /\ commandInParts.right \in Line
         /\ \E x \in Chars : commandInParts.middle = <<x>>
         /\ IF longKey THEN ptrPosition < Len(commandInParts.left)
                       ELSE ptrPosition = Len(commandInParts.left)
         /\ ptrPosition = Len(command) =>
              ~longKey /\ commandInParts.middle = <<Space>> /\ commandInParts.right = <<>>
<1> DEFINE left == commandInParts.left
           middle == commandInParts.middle
           right == commandInParts.right
<1>1. /\ left \in Line /\ middle \in Line /\ right \in Line
      /\ command \in Line /\ ptrPosition \in 0 .. Len(command)
  BY DEF LineInv, LineTypeOK, CommandParts
<1>2. Len(left) \in Nat /\ Len(right) \in Nat /\ Len(command) \in Nat /\ ptrPosition \in Nat
  BY <1>1 DEF Line
<1>3. CASE ~longKey
  <2>1. commandInParts = Divided(command, ptrPosition)
    BY <1>3 DEF LineInv, PartsMatch
  <2> QED BY <1>1, <1>3, <2>1, DividedFields, CharsAssumption
<1>4. CASE longKey
  <2>1. Len(middle) = 1 /\ ptrPosition < Len(left)
    BY <1>4 DEF LineInv, CursorLags
  <2>2. PICK x \in Chars : middle = <<x>>
    <3>1. middle \in Seq(Chars) /\ middle[1] \in Chars
      BY <1>1, <2>1 DEF Line
    <3>2. middle = <<middle[1]>>
      BY <2>1, <3>1
    <3> QED BY <3>1, <3>2
  <2>3. command = (left \o <<x>>) \o right \/ command = left
    BY <2>2 DEF LineInv, PartsMatch, PromptText
  <2>4. Len((left \o <<x>>) \o right) = Len(left) + 1 + Len(right)
    BY <1>1, DividedJoined
  <2>5. ptrPosition # Len(command)
    <3> HIDE DEF left, right
    <3>1. CASE command = left
      BY <1>2, <2>1, <3>1
    <3>2. CASE command = (left \o <<x>>) \o right
      <4>1. Len(command) = Len(left) + 1 + Len(right)
        BY <2>4, <3>2
      <4> QED BY <1>2, <2>1, <4>1
    <3> QED BY <2>3, <3>1, <3>2
  <2> QED BY <1>1, <1>4, <2>1, <2>2, <2>5
<1> QED BY <1>3, <1>4

\* A key that types its name.
LEMMA LineTyped ==
  ASSUME LineInv, NEW key \in KeyNames, TypeKey(key)
  PROVE  LineInv'
<1>1. PICK left, right, x :
        /\ left = commandInParts.left /\ right = commandInParts.right
        /\ x \in Chars /\ commandInParts.middle = <<x>>
        /\ commandInParts = [left |-> left, middle |-> <<x>>, right |-> right]
  BY LineShape DEF LineInv, LineTypeOK, CommandParts
<1>2. /\ left \in Line /\ right \in Line /\ command \in Line
      /\ Len(left) \in Nat /\ Len(right) \in Nat /\ ptrPosition \in Nat
      /\ longKey \in BOOLEAN
      /\ IF longKey THEN ptrPosition < Len(left) ELSE ptrPosition = Len(left)
      /\ ptrPosition = Len(command) => ~longKey /\ x = Space /\ right = <<>>
  BY <1>1, LineShape DEF LineInv, LineTypeOK, Line
<1>3. key \in Line /\ Len(key) \in Nat /\ Len(key) # 0
  BY KeyNamesAssumption, EmptySeq DEF Line
<1>4. PICK typed : typed = left \o key
  OBVIOUS
<1>5. typed \in Line /\ Len(typed) = Len(left) + Len(key)
  BY <1>2, <1>3, <1>4, ConcatProperties DEF Line
<1>6. /\ ptrPosition' = ptrPosition + 1
      /\ longKey' = (longKey \/ Len(key) > 1)
      /\ commandInParts' = [left |-> typed, middle |-> <<x>>, right |-> right]
      /\ command' = IF ptrPosition = Len(command) THEN typed ELSE (typed \o <<x>>) \o right
  BY <1>1, <1>4 DEF TypeKey
<1>7. longKey' \in BOOLEAN
  BY <1>2, <1>6
<1>8. /\ (typed \o <<x>>) \o right \in Line
      /\ Len((typed \o <<x>>) \o right) = Len(typed) + 1 + Len(right)
      /\ Divided((typed \o <<x>>) \o right, Len(typed)) =
           [left |-> typed, middle |-> <<x>>, right |-> right]
  BY <1>1, <1>2, <1>5, DividedJoined
<1>9. command' \in Line /\ ptrPosition' \in 0 .. Len(command')
  <2>1. CASE ptrPosition = Len(command)
    BY <1>2, <1>3, <1>5, <1>6, <2>1
  <2>2. CASE ptrPosition # Len(command)
    <3>1. Len(command') = Len(typed) + 1 + Len(right) /\ command' \in Line
      BY <1>6, <1>8, <2>2
    <3> QED BY <1>2, <1>3, <1>5, <1>6, <3>1
  <2> QED BY <2>1, <2>2
<1>10. commandInParts' \in CommandParts
  BY <1>1, <1>2, <1>5, <1>6 DEF CommandParts, Line
<1>11. command' \in PromptText(commandInParts')
  BY <1>2, <1>6 DEF PromptText
<1>12. longKey' => Len(commandInParts'.middle) = 1 /\ ptrPosition' < Len(commandInParts'.left)
  <2>1. longKey' => ptrPosition + 1 < Len(typed)
    BY <1>2, <1>3, <1>5, <1>6
  <2> QED BY <1>6, <2>1
<1>13. ~longKey' => commandInParts' = Divided(command', ptrPosition')
  <2>1. ~longKey' => ptrPosition' = Len(typed)
    <3>1. ~longKey' => ~longKey /\ ~(Len(key) > 1)
      BY <1>6
    <3>2. ~(Len(key) > 1) => Len(key) = 1
      <4>1. ASSUME NEW n \in Nat, n # 0, ~(n > 1) PROVE n = 1
        BY <4>1
      <4> QED BY <1>3, <4>1
    <3>3. ~longKey' => ptrPosition = Len(left) /\ Len(key) = 1
      BY <1>2, <3>1, <3>2
    <3> QED BY <1>2, <1>5, <1>6, <3>3
  <2>2. CASE ptrPosition = Len(command)
    <3>1. commandInParts' = [left |-> typed, middle |-> <<Space>>, right |-> <<>>]
      BY <1>2, <1>6, <2>2
    <3> QED BY <1>6, <2>1, <2>2, <3>1 DEF Divided
  <2>3. CASE ptrPosition # Len(command)
    BY <1>6, <1>8, <2>1, <2>3
  <2> QED BY <2>2, <2>3
<1> QED BY <1>7, <1>9, <1>10, <1>11, <1>12, <1>13 DEF LineInv, LineTypeOK, PartsMatch, CursorLags

\* The key that takes a character away.
LEMMA LineBackspaced ==
  ASSUME LineInv, Backspace
  PROVE  LineInv'
<1>1. command \in Line /\ Len(command) \in Nat /\ ptrPosition \in 0 .. Len(command)
  BY DEF LineInv, LineTypeOK, Line
<1>2. CASE ptrPosition < 1
  BY <1>2, LineStays DEF Backspace
<1>3. CASE ~(ptrPosition < 1)
  <2> DEFINE left == Front(commandInParts.left)
  <2>1. PICK x \in Chars : commandInParts.middle = <<x>>
    BY LineShape
  <2>2. /\ commandInParts.left \in Line /\ commandInParts.right \in Line
        /\ Len(commandInParts.left) \in Nat /\ Len(commandInParts.right) \in Nat
        /\ ptrPosition <= Len(commandInParts.left)
        /\ commandInParts = [left |-> commandInParts.left, middle |-> <<x>>,
                             right |-> commandInParts.right]
    <3>1. commandInParts.left \in Line /\ commandInParts.right \in Line
      BY LineShape
    <3>2. Len(commandInParts.left) \in Nat /\ Len(commandInParts.right) \in Nat
      BY <3>1 DEF Line
    <3>3. ptrPosition <= Len(commandInParts.left)
      BY <1>1, <3>2, LineShape
    <3> QED BY <2>1, <3>1, <3>2, <3>3 DEF LineInv, LineTypeOK, CommandParts
  <2>3. left \in Line /\ Len(left) = Len(commandInParts.left) - 1
    <3>1. Len(commandInParts.left) - 1 \in 0 .. Len(commandInParts.left)
      BY <1>1, <1>3, <2>2
    <3> QED BY <2>2, <3>1, PartOfLine DEF Front
  <2>4. /\ ptrPosition' = ptrPosition - 1
        /\ IF ptrPosition = Len(command)
           THEN /\ command' = left
                /\ commandInParts' = [left |-> left, middle |-> <<x>>,
                                      right |-> commandInParts.right]
                /\ UNCHANGED longKey
           ELSE /\ command' = left \o <<x>> \o commandInParts.right
                /\ commandInParts' = Divided(command', ptrPosition')
                /\ longKey' = FALSE
    BY <1>3, <2>1, <2>2 DEF Backspace
  <2> HIDE DEF left
  <2>5. CASE ptrPosition = Len(command)
    <3>1. /\ ~longKey /\ commandInParts.middle = <<Space>> /\ commandInParts.right = <<>>
          /\ ptrPosition = Len(commandInParts.left)
      BY <2>5, LineShape
    <3>2. longKey' = FALSE
      BY <2>4, <2>5, <3>1 DEF LineInv, LineTypeOK
    <3>3. ptrPosition' = Len(left)
      BY <2>3, <2>4, <3>1
    <3>4. commandInParts' = [left |-> left, middle |-> <<Space>>, right |-> <<>>]
      BY <2>1, <2>4, <2>5, <3>1
    <3>5. SetLine(left)
      BY <2>4, <2>5, <3>2, <3>3, <3>4 DEF SetLine, Divided
    <3> QED BY <2>3, <3>5, LineIsSet
  <2>6. CASE ptrPosition # Len(command)
    <3>1. command' \in Line /\ Len(command') = Len(left) + 1 + Len(commandInParts.right)
      <4> DEFINE right == commandInParts.right
      <4>1. command' = (left \o <<x>>) \o right
        BY <2>4, <2>6
      <4>2. /\ (left \o <<x>>) \o right \in Line
            /\ Len((left \o <<x>>) \o right) = Len(left) + 1 + Len(right)
        BY <2>2, <2>3, DividedJoined
      <4> QED BY <4>1, <4>2
    <3>2. ptrPosition' \in 0 .. Len(command')
      BY <1>1, <1>3, <2>2, <2>3, <2>4, <3>1
    <3> QED BY <2>4, <2>6, <3>1, <3>2, LineIsDivided
  <2> QED BY <2>5, <2>6
<1> QED BY <1>2, <1>3

\* The keys that move the cursor.
LEMMA CursorMoved ==
  ASSUME LineInv, MoveCursor
  PROVE  LineInv'
<1>1. command \in Line /\ Len(command) \in Nat /\ ptrPosition \in 0 .. Len(command)
  BY DEF LineInv, LineTypeOK, Line
<1>2. command' = command /\ ptrPosition' \in 0 .. Len(command)
  BY <1>1 DEF MoveCursor
<1> QED BY <1>1, <1>2, LineIsDivided DEF MoveCursor

-----------------------------------------------------------------------------
(* Console: the completion, and the whole.                                 *)

\* The beginning of a line, as String.substring gives it for any number.
LEMMA TakeType ==
  ASSUME NEW line \in Line, NEW n \in Nat
  PROVE  Take(line, n) \in Line
<1>1. (IF n < Len(line) THEN n ELSE Len(line)) \in 0 .. Len(line)
  BY DEF Line
<1> QED BY <1>1, PartOfLine DEF Take

\* The last space of a line is in it.
LEMMA LastSpace ==
  ASSUME NEW line \in Line
  PROVE  UpToLastSpace(line) \in 0 .. Len(line)
<1> DEFINE spaces == {i \in 1 .. Len(line) : line[i] = Space}
<1>1. Len(line) \in Nat /\ spaces \in SUBSET (1 .. Len(line))
  BY DEF Line
<1>2. CASE spaces = {}
  BY <1>1, <1>2 DEF UpToLastSpace
<1>3. CASE spaces # {}
  <2>1. (CHOOSE i \in spaces : \A j \in spaces : j <= i) \in spaces
    <3> HIDE DEF spaces
    <3> QED BY <1>1, <1>3, Greatest
  <2>2. UpToLastSpace(line) = CHOOSE i \in spaces : \A j \in spaces : j <= i
    BY <1>3 DEF UpToLastSpace
  <2> QED BY <1>1, <2>1, <2>2
<1> QED BY <1>2, <1>3

\* A listing gives lines, as many as there are names that match.
LEMMA MatchingType ==
  ASSUME NEW word, NEW found \in Matching(word)
  PROVE  found \in Seq(Line)
<1> DEFINE S == {f \in Files : IsPrefix(word, f)}
<1>1. IsFiniteSet(S) /\ S \subseteq Line
  BY FilesAssumption, FS_Subset DEF Line
<1>2. Cardinality(S) \in Nat
  BY <1>1, FS_CardinalityType
<1>3. found \in [1 .. Cardinality(S) -> S]
  BY DEF Matching, SetToSeqs
<1> HIDE DEF S
<1>4. found \in Seq(S)
  BY <1>2, <1>3
<1> QED BY <1>1, <1>4, SeqMonotonic

\* The next name of a list, in turn.
LEMMA NextIndex ==
  ASSUME NEW files \in Seq(Line), files # <<>>, NEW index \in Nat
  PROVE  (index % Len(files)) + 1 \in 1 .. Len(files)
<1>1. Len(files) \in Nat /\ Len(files) # 0
  BY EmptySeq
<1>2. ASSUME NEW n \in Nat, n # 0
      PROVE  (index % n) + 1 \in 1 .. n
  BY <1>2
<1> QED BY <1>1, <1>2

\* The last word becomes the name of a file.
LEMMA Replaced ==
  ASSUME NEW line \in Line, NEW files \in Seq(Line), NEW index \in 1 .. Len(files),
         NEW keep \in Nat, ReplaceWithFileName(line, files, index, keep)
  PROVE  LineInv'
<1>1. files[index] \in Line
  BY ElementOfSeq
<1>2. Take(line, keep) \o files[index] \in Line
  BY <1>1, TakeType, ConcatProperties DEF Line
<1> QED BY <1>2, LineIsSet DEF ReplaceWithFileName

LEMMA ConsoleInitInv == ConsoleInit => ConsoleIInv
<1> SUFFICES ASSUME ConsoleInit PROVE ConsoleIInv
  OBVIOUS
<1>1. <<>> \in Line /\ <<Space>> \in Line /\ Len(<<>>) = 0
  BY CharsAssumption DEF Line
<1>2. PartsMatch /\ CursorLags /\ longKey \in BOOLEAN
  BY <1>1 DEF ConsoleInit, PartsMatch, CursorLags, PromptText, Divided, NoParts
<1>3. commandHistory \in Seq(Line) /\ Len(commandHistory) = 1 /\ listOfDir \in Seq(Line)
  BY <1>1 DEF ConsoleInit
<1>4. commandInParts \in [left : Line, middle : Line, right : Line]
  BY <1>1 DEF ConsoleInit, NoParts
<1>5. MaxTabs \in Nat
  BY ConsoleBoundsAssumption
<1>6. command \in Line /\ ptrPosition \in 0 .. Len(command)
  BY <1>1 DEF ConsoleInit
<1>7. commandHistoryIndex \in 0 .. Len(commandHistory) /\ listings \in 0 .. MaxTabs
  BY <1>3, <1>5 DEF ConsoleInit
<1>8. enterPressed \in BOOLEAN /\ call \in BOOLEAN /\ dirIndex \in Nat /\ tabKeep \in Nat
  BY DEF ConsoleInit
<1> QED BY <1>2, <1>3, <1>4, <1>6, <1>7, <1>8 DEF ConsoleIInv, ConsoleTypeOK

\* Every step, for what the line shows.
LEMMA LineStep ==
  ASSUME ConsoleIInv, ConsoleNext
  PROVE  LineInv'
<1> USE DEF ConsoleIInv
<1>1. LineInv
  BY DEF ConsoleTypeOK, LineInv, LineTypeOK, CommandParts
<1>2. CASE \E key \in KeyNames : TypeKey(key)
  BY <1>1, <1>2, LineTyped
<1>3. CASE Backspace
  BY <1>1, <1>3, LineBackspaced
<1>4. CASE MoveCursor
  BY <1>1, <1>4, CursorMoved
<1>5. CASE ArrowUp
  <2>1. commandHistory[commandHistoryIndex] \in Line
    BY <1>5 DEF ArrowUp, ConsoleTypeOK
  <2> QED BY <1>5, <2>1, LineIsSet DEF ArrowUp
<1>6. CASE ArrowDown
  <2>1. commandHistory[commandHistoryIndex + 2] \in Line
    BY <1>6 DEF ArrowDown, ConsoleTypeOK
  <2> QED BY <1>6, <2>1, LineIsSet DEF ArrowDown
<1>7. CASE EscapeOrOther
  BY <1>1, <1>7, LineIsSet, LineStays DEF EscapeOrOther
<1>8. CASE Paste
  <2>1. PICK ch \in Chars : SetLine(Append(command, ch))
    BY <1>8 DEF Paste
  <2>2. Append(command, ch) \in Line
    BY <1>1 DEF LineInv, LineTypeOK, Line
  <2> QED BY <2>1, <2>2, LineIsSet
<1>9. CASE Enter
  BY <1>9, LineIsSet DEF Enter
<1>10. CASE CommandEnds
  BY <1>1, <1>10, LineStays DEF CommandEnds
<1>11. CASE Copy
  BY <1>11, LineIsSet DEF Copy
<1>12. CASE Tab
  <2>1. CASE listOfDir = <<>>
    BY <1>1, <1>12, <2>1, LineStays DEF Tab
  <2>2. CASE listOfDir # <<>>
    <3>1. dirIndex' \in 1 .. Len(listOfDir)
      BY <1>12, <2>2, NextIndex DEF Tab, ConsoleTypeOK
    <3>2. ReplaceWithFileName(command, listOfDir, dirIndex', tabKeep)
      BY <1>12, <2>2 DEF Tab
    <3> QED BY <3>1, <3>2, Replaced DEF ConsoleTypeOK
  <2> QED BY <2>1, <2>2
<1>13. CASE Listed
  <2> DEFINE line == Take(command, ptrPosition)
             keep == UpToLastSpace(line)
  <2>1. line \in Line /\ keep \in Nat
    <3>1. line \in Line
      BY TakeType DEF ConsoleTypeOK
    <3> QED BY <3>1, LastSpace
  <2> HIDE DEF line, keep
  <2>2. CASE UNCHANGED lineVars
    BY <1>1, <2>2, LineStays
  <2>3. ASSUME NEW found \in Matching(SubSeq(line, keep + 1, Len(line))), found # <<>>,
               dirIndex' = (dirIndex % Len(found)) + 1,
               ReplaceWithFileName(line, found, dirIndex', keep)
        PROVE  LineInv'
    <3>1. found \in Seq(Line)
      BY MatchingType
    <3>2. dirIndex' \in 1 .. Len(found)
      BY <2>3, <3>1, NextIndex DEF ConsoleTypeOK
    <3> QED BY <2>1, <2>3, <3>1, <3>2, Replaced
  <2> QED BY <1>13, <2>2, <2>3 DEF Listed, line, keep
<1> QED BY <1>2, <1>3, <1>4, <1>5, <1>6, <1>7, <1>8, <1>9, <1>10, <1>11, <1>12, <1>13 DEF ConsoleNext

\* Every step, for the history and the completion.
LEMMA HistoryStep ==
  ASSUME ConsoleTypeOK, ConsoleNext
  PROVE  /\ commandHistory' \in Seq(Line) /\ commandHistoryIndex' \in 0 .. Len(commandHistory')
         /\ enterPressed' \in BOOLEAN /\ call' \in BOOLEAN /\ listings' \in 0 .. MaxTabs
<1>1. MaxTabs \in Nat /\ Len(commandHistory) \in Nat /\ commandHistory \in Seq(Line)
  BY ConsoleBoundsAssumption DEF ConsoleTypeOK
<1>2. CASE Enter
  <2>1. Append(commandHistory, command) \in Seq(Line)
        /\ Len(Append(commandHistory, command)) = Len(commandHistory) + 1
    BY <1>1 DEF ConsoleTypeOK
  <2>2. /\ commandHistory' = Append(commandHistory, command)
        /\ commandHistoryIndex' = Len(commandHistory) + 1
        /\ enterPressed' \in BOOLEAN /\ call' \in BOOLEAN /\ listings' \in 0 .. MaxTabs
    BY <1>2 DEF Enter, ConsoleTypeOK
  <2>3. Len(commandHistory) + 1 \in 0 .. Len(commandHistory) + 1
    BY <1>1
  <2> QED BY <2>1, <2>2, <2>3
<1>3. CASE ~Enter
  <2>1. UNCHANGED commandHistory
    BY <1>3 DEF ConsoleNext, TypeKey, Backspace, MoveCursor, ArrowUp, ArrowDown, EscapeOrOther,
                Paste, CommandEnds, Copy, Tab, Listed
  <2>2. commandHistoryIndex' \in 0 .. Len(commandHistory)
    BY <1>1, <1>3 DEF ConsoleNext, TypeKey, Backspace, MoveCursor, ArrowUp, ArrowDown,
              EscapeOrOther, Paste, CommandEnds, Copy, Tab, Listed, ConsoleTypeOK
  <2>3. enterPressed' \in BOOLEAN /\ call' \in BOOLEAN
    BY <1>3 DEF ConsoleNext, TypeKey, Backspace, MoveCursor, ArrowUp, ArrowDown, EscapeOrOther,
                Paste, CommandEnds, Copy, Tab, Listed, ConsoleTypeOK
  <2>4. listings' \in 0 .. MaxTabs
    BY <1>1, <1>3 DEF ConsoleNext, TypeKey, Backspace, MoveCursor, ArrowUp, ArrowDown,
              EscapeOrOther, Paste, CommandEnds, Copy, Tab, Listed, ConsoleTypeOK
  <2> QED BY <1>1, <2>1, <2>2, <2>3, <2>4
<1> QED BY <1>2, <1>3

LEMMA CompletionStep ==
  ASSUME ConsoleTypeOK, ConsoleNext
  PROVE  listOfDir' \in Seq(Line) /\ dirIndex' \in Nat /\ tabKeep' \in Nat
<1>1. listOfDir \in Seq(Line) /\ dirIndex \in Nat /\ tabKeep \in Nat
  BY DEF ConsoleTypeOK
<1>2. CASE RefreshTab \/ UNCHANGED tabVars
  <2>1. <<>> \in Seq(Line)
    OBVIOUS
  <2>2. CASE RefreshTab
    BY <1>1, <2>1, <2>2 DEF RefreshTab
  <2>3. CASE UNCHANGED tabVars
    BY <1>1, <2>3 DEF tabVars
  <2> QED BY <1>2, <2>2, <2>3
<1>3. CASE Tab
  <2>1. CASE listOfDir = <<>>
    BY <1>1, <1>3, <2>1 DEF Tab
  <2>2. CASE listOfDir # <<>>
    <3>1. (dirIndex % Len(listOfDir)) + 1 \in Nat
      <4>1. (dirIndex % Len(listOfDir)) + 1 \in 1 .. Len(listOfDir)
        BY <1>1, <2>2, NextIndex
      <4> QED BY <1>1, <4>1
    <3> QED BY <1>1, <1>3, <2>2, <3>1 DEF Tab
  <2> QED BY <2>1, <2>2
<1>4. CASE Listed
  <2> DEFINE line == Take(command, ptrPosition)
             keep == UpToLastSpace(line)
  <2>1. keep \in Nat
    <3>1. line \in Line
      BY TakeType DEF ConsoleTypeOK
    <3> QED BY <3>1, LastSpace
  <2> HIDE DEF line, keep
  <2>2. ASSUME NEW found \in Matching(SubSeq(line, keep + 1, Len(line))),
               tabKeep' = keep, listOfDir' = found,
               dirIndex' = dirIndex \/ (found # <<>> /\ dirIndex' = (dirIndex % Len(found)) + 1)
        PROVE  listOfDir' \in Seq(Line) /\ dirIndex' \in Nat /\ tabKeep' \in Nat
    <3>1. found \in Seq(Line)
      BY MatchingType
    <3>2. found # <<>> => (dirIndex % Len(found)) + 1 \in Nat
      <4>1. found # <<>> => (dirIndex % Len(found)) + 1 \in 1 .. Len(found)
        BY <1>1, <3>1, NextIndex
      <4> QED BY <3>1, <4>1
    <3> QED BY <1>1, <2>1, <2>2, <3>1, <3>2
  <2>3. CASE UNCHANGED tabVars
    BY <1>2, <2>3
  <2> QED BY <1>4, <2>2, <2>3 DEF Listed, line, keep
<1> QED BY <1>2, <1>3, <1>4 DEF ConsoleNext, TypeKey, Backspace, MoveCursor, ArrowUp, ArrowDown,
           EscapeOrOther, Paste, Enter, CommandEnds, Copy

\* The inductive invariant of the console: its types, the line and its parts, and
\* where they put the cursor.
THEOREM ConsoleInductive == ConsoleSpec => []ConsoleIInv
<1>1. ASSUME ConsoleIInv, ConsoleNext
      PROVE  ConsoleIInv'
  <2>1. LineInv'
    BY <1>1, LineStep
  <2> QED BY <1>1, <2>1, HistoryStep, CompletionStep
          DEF ConsoleIInv, ConsoleTypeOK, LineInv, LineTypeOK, CommandParts
<1>2. ASSUME ConsoleIInv, UNCHANGED consoleVars
      PROVE  ConsoleIInv'
  BY <1>2 DEF ConsoleIInv, ConsoleTypeOK, PartsMatch, CursorLags, consoleVars, lineVars, tabVars
<1> QED BY <1>1, <1>2, ConsoleInitInv, PTL DEF ConsoleSpec

\* The prompt shows the line that Enter would run, whatever has edited it, and the
\* cursor where it is unless a name of several characters has been appended.
THEOREM PromptIsTheLine == ConsoleSpec => []PartsMatch
<1>1. ConsoleIInv => PartsMatch
  BY DEF ConsoleIInv
<1> QED BY <1>1, ConsoleInductive, PTL
-----------------------------------------------------------------------------
(* The composition: what is proved of each blade holds of all of them.      *)

\* The frames share no state: a behaviour of the composition is one of each module.
THEOREM BladesAreIndependent ==
  BladesSpec =>
    FeatureSpec /\ ConfigSpec /\ SessionSpec /\ ConsoleSpec /\ SettingsSpec /\ AppsSpec
<1>1. BladesInit =>
        FeatureInit /\ ConfigInit /\ SessionInit /\ ConsoleInit /\ SettingsInit /\ AppsInit
  BY DEF BladesInit
<1>2. ASSUME [BladesNext]_bladesVars
      PROVE  /\ [FeatureNext]_allVars /\ [ConfigNext]_configVars
             /\ [SessionNext]_sessionVars /\ [ConsoleNext]_consoleVars
             /\ [SettingsNext]_settingsVars /\ [AppsNext]_appsVars
  <2>1. CASE BladesNext
    BY <2>1, Zenon DEF BladesNext
  <2>2. CASE UNCHANGED bladesVars
    BY <2>2, Zenon DEF bladesVars
  <2> QED BY <1>2, <2>1, <2>2
<1> QED BY <1>1, <1>2, PTL
        DEF BladesSpec, FeatureSpec, ConfigSpec, SessionSpec, ConsoleSpec, SettingsSpec, AppsSpec

\* The inductive invariant of every blade.
THEOREM AllBlades == BladesSpec => []BladesInv
BY BladesAreIndependent, FeaturesImplementIndicator, Indicator, Features, Configuration,
   SessionInductive, ConsoleInductive, Settings, AppsInductive, PTL DEF BladesInv
=============================================================================
