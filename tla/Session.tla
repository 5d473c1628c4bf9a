------------------------------ MODULE Session -------------------------------
(***************************************************************************)
(* The token of a session of the Angular client: how it comes to the       *)
(* services that put it into their requests (portal.service.ts,            *)
(* user.service.ts, background-tasks.service.ts).                          *)
(*                                                                         *)
(* In the portal, the shell sends the startup information once and new     *)
(* tokens and inputs after it.  The portal service keeps ONE object for    *)
(* them, which it changes in place and emits again; the user service emits *)
(* it on when the texts of the session have been read, in whatever order   *)
(* these reads end.  Alone, the client asks the server for the token every *)
(* minute, and takes a token that is new when it has read the              *)
(* subscriptions with it.                                                  *)
(*                                                                         *)
(* Tokens are numbered in the order of their issue; 0 is the empty one, and*)
(* -1 the null that the services have before any.  Reads fail finitely     *)
(* often.  The trial session, whose token does not change, is left out.    *)
(***************************************************************************)
EXTENDS Integers, Sequences, SequencesExt

CONSTANTS
  MaxTokens,            \* bound: tokens issued
  MaxInputsSent,        \* bound: inputs sent by the shell
  MaxFailures,          \* bound: reads that fail
  MaxReads              \* bound: reads under way

ASSUME SessionBoundsAssumption ==
  /\ MaxTokens \in Nat \ {0}
  /\ {MaxInputsSent, MaxFailures, MaxReads} \subseteq Nat

VARIABLES
  host,                 \* "portal" or "alone"
  issued,               \* the last token issued
  inbox,                \* the messages of the shell that are under way
  started,              \* the shell has sent the startup information
  startupToken,         \* startupInfo.token of the portal service; 0: no object yet
  reads,                \* for each read of texts or subscriptions, the token it began with
  ended,                \* the stream of the user service has ended with an error
  copied,               \* the token the services have taken from the last emission
  poll,                 \* the request for the token: "idle" or "asked"
  inputsSent, failures  \* counters

sessionVars == <<host, issued, inbox, started, startupToken, reads, ended, copied, poll,
                 inputsSent, failures>>

Token == 0 .. MaxTokens
Message == [verb : {"send-startup-info", "send-token2", "send-inputs"}, token : Token]

SessionTypeOK ==
  /\ host \in {"portal", "alone"}
  /\ issued \in Token \ {0}
  /\ inbox \in Seq(Message)
  /\ started \in BOOLEAN
  /\ startupToken \in Token
  /\ reads \in Seq(Token) /\ Len(reads) <= MaxReads
  /\ ended \in BOOLEAN
  /\ copied \in Token \cup {-1}
  /\ poll \in {"idle", "asked"}
  /\ inputsSent \in 0 .. MaxInputsSent
  /\ failures \in 0 .. MaxFailures

SessionInit ==
  /\ host \in {"portal", "alone"}
  /\ issued = 1
  /\ inbox = <<>>
  /\ started = FALSE
  /\ startupToken = 0
  /\ reads = <<>>
  /\ ended = FALSE
  /\ copied = -1
  /\ poll = "idle"
  /\ inputsSent = 0
  /\ failures = 0

CountFailure == failures < MaxFailures /\ failures' = failures + 1
-----------------------------------------------------------------------------
Send(verb) == inbox' = Append(inbox, [verb |-> verb, token |-> issued'])

\* A new token; the shell sends it to a frame that has had its startup information.
IssueToken ==
  /\ issued < MaxTokens
  /\ issued' = issued + 1
  /\ IF started THEN Send("send-token2") ELSE UNCHANGED inbox
  /\ UNCHANGED <<host, started, startupToken, reads, ended, copied, poll, inputsSent, failures>>

\* The shell answers get-startup-info, which a frame asks for once.
SendStartupInfo ==
  /\ host = "portal"
  /\ ~started
  /\ started' = TRUE
  /\ UNCHANGED issued
  /\ Send("send-startup-info")
  /\ UNCHANGED <<host, startupToken, reads, ended, copied, poll, inputsSent, failures>>

\* The shell gives the frame other inputs.
SendInputs ==
  /\ host = "portal"
  /\ inputsSent < MaxInputsSent
  /\ inputsSent' = inputsSent + 1
  /\ UNCHANGED issued
  /\ Send("send-inputs")
  /\ UNCHANGED <<host, started, startupToken, reads, ended, copied, poll, failures>>

\* startupInfoObservable.next: the user service reads the texts of the session.
Emit == reads' = IF ended THEN reads ELSE Append(reads, startupToken')

\* iframeReceivedMsg.
ReceiveMessage ==
  /\ inbox # <<>>
  /\ Len(reads) < MaxReads
  /\ inbox' = Tail(inbox)
  /\ LET m == Head(inbox) IN
       \/ /\ m.verb = "send-startup-info"
          /\ startupToken' = m.token
          /\ Emit
       \/ /\ m.verb = "send-token2"
          /\ IF startupToken # 0 /\ m.token \notin {0, startupToken}
             THEN startupToken' = m.token /\ Emit
             ELSE UNCHANGED <<startupToken, reads>>
       \/ /\ m.verb = "send-inputs"
          /\ UNCHANGED startupToken
          /\ IF startupToken # 0 THEN Emit ELSE UNCHANGED reads
  /\ UNCHANGED <<host, issued, started, ended, copied, poll, inputsSent, failures>>

\* (The operators named ..._Bug are plausible mistakes, for checking that the
\* properties see them; nothing uses them.)
\* The startup information is emitted as a copy, made when the read began.
TextsRead_CopyBug(i) ==
  /\ host = "portal"
  /\ i \in 1 .. Len(reads)
  /\ reads' = RemoveAt(reads, i)
  /\ copied' = reads[i]
  /\ UNCHANGED <<host, issued, inbox, started, startupToken, ended, poll, inputsSent, failures>>

\* The texts have been read: the services are given the object, as it is now.
TextsRead(i) ==
  /\ host = "portal"
  /\ i \in 1 .. Len(reads)
  /\ reads' = RemoveAt(reads, i)
  /\ copied' = startupToken
  /\ UNCHANGED <<host, issued, inbox, started, startupToken, ended, poll, inputsSent, failures>>

\* The texts cannot be read, after ten retries: that ends the stream.
TextsFail ==
  /\ host = "portal"
  /\ reads # <<>>
  /\ CountFailure
  /\ reads' = <<>>
  /\ ended' = TRUE
  /\ UNCHANGED <<host, issued, inbox, started, startupToken, copied, poll, inputsSent>>
-----------------------------------------------------------------------------
\* The timer of runNonIFrameTasks; concatMap keeps a second request waiting.
AskForToken ==
  /\ host = "alone"
  /\ poll = "idle"
  /\ Len(reads) < MaxReads
  /\ poll' = "asked"
  /\ UNCHANGED <<host, issued, inbox, started, startupToken, reads, ended, copied, inputsSent,
                 failures>>

\* _setToken: only a token that is new is taken.
SetToken(t) == reads' = IF t # copied THEN Append(reads, t) ELSE reads

\* getAndUpdateToken.
TokenAnswered ==
  /\ poll = "asked"
  /\ poll' = "idle"
  /\ SetToken(issued)
  /\ UNCHANGED <<host, issued, inbox, started, startupToken, ended, copied, inputsSent,
                 failures>>

\* The request fails, and the stream of the timer with it.
TokenFails_UncaughtBug ==
  /\ poll = "asked"
  /\ CountFailure
  /\ poll' = "ended"
  /\ UNCHANGED <<host, issued, inbox, started, startupToken, reads, ended, copied, inputsSent>>

\* getAndUpdateToken, when the request fails: an empty token.
TokenFails ==
  /\ poll = "asked"
  /\ CountFailure
  /\ poll' = "idle"
  /\ SetToken(0)
  /\ UNCHANGED <<host, issued, inbox, started, startupToken, ended, copied, inputsSent>>

\* The subscriptions and the texts have been read with a token: it is the one of the
\* session now.
SubscriptionsRead(i) ==
  /\ host = "alone"
  /\ i \in 1 .. Len(reads)
  /\ reads' = RemoveAt(reads, i)
  /\ copied' = reads[i]
  /\ UNCHANGED <<host, issued, inbox, started, startupToken, ended, poll, inputsSent, failures>>

\* They cannot be read: nothing changes.
SubscriptionsFail(i) ==
  /\ host = "alone"
  /\ i \in 1 .. Len(reads)
  /\ CountFailure
  /\ reads' = RemoveAt(reads, i)
  /\ UNCHANGED <<host, issued, inbox, started, startupToken, ended, copied, poll, inputsSent>>
-----------------------------------------------------------------------------
ReadEnds(i) == TextsRead(i) \/ SubscriptionsRead(i)

SessionNext ==
  \/ IssueToken \/ SendStartupInfo \/ SendInputs \/ ReceiveMessage \/ TextsFail
  \/ AskForToken \/ TokenAnswered \/ TokenFails
  \/ \E i \in 1 .. MaxReads : ReadEnds(i) \/ SubscriptionsFail(i)

SessionSpec == SessionInit /\ [][SessionNext]_sessionVars

\* The shell answers, messages arrive, the timer runs and requests end.
SessionFairness ==
  /\ WF_sessionVars(SendStartupInfo) /\ WF_sessionVars(ReceiveMessage)
  /\ WF_sessionVars(AskForToken) /\ WF_sessionVars(TokenAnswered \/ TokenFails)
  /\ WF_sessionVars(\E i \in 1 .. MaxReads : ReadEnds(i))
-----------------------------------------------------------------------------
\* In the portal, when no message and no read is under way the services have the
\* last token, although the reads may have ended in any order
\* (user.service.ts:55-63, portal.service.ts:532-539).
CopiedIsCurrent ==
  host = "portal" /\ started /\ ~ended /\ inbox = <<>> /\ reads = <<>> => copied = issued

\* The message gives the frame a token.
Carries(m) == m.verb # "send-inputs"

\* The last token issued is in the last message that carries one, or it has arrived.
TokenOnItsWay ==
  IF \E i \in 1 .. Len(inbox) : Carries(inbox[i])
    THEN \E i \in 1 .. Len(inbox) :
           /\ Carries(inbox[i]) /\ inbox[i].token = issued
           /\ \A j \in 1 .. Len(inbox) : Carries(inbox[j]) => j <= i
    ELSE startupToken = issued

\* The startup information comes once, and before every token that is sent after it.
StartupFirst ==
  /\ \A i \in 1 .. Len(inbox) : Carries(inbox[i]) => started /\ inbox[i].token # 0
  /\ startupToken # 0 => started /\ \A i \in 1 .. Len(inbox) : inbox[i].verb # "send-startup-info"
  /\ started /\ startupToken = 0 =>
       \E i \in 1 .. Len(inbox) :
         /\ inbox[i].verb = "send-startup-info"
         /\ \A j \in 1 .. Len(inbox) : j # i =>
              /\ inbox[j].verb # "send-startup-info"
              /\ j < i => ~Carries(inbox[j])

\* What makes CopiedIsCurrent inductive: no token is lost between the shell and the
\* services, and the last read that ends gives them the token of the object.
SessionIInv ==
  /\ SessionTypeOK
  /\ host = "alone" => inbox = <<>> /\ ~started
  /\ poll = "asked" => host = "alone" /\ Len(reads) < MaxReads
  /\ StartupFirst
  /\ started => TokenOnItsWay
  /\ host = "portal" /\ ~ended /\ reads = <<>> /\ startupToken # 0 => copied = startupToken

\* The last token reaches the services and stays there, whatever reads fail or end
\* late, unless the texts of the session could not be read
\* (background-tasks.service.ts:33-35, user.service.ts:87-138).
TokenArrives == <>[](copied = issued \/ ended)
=============================================================================
