------------------------ MODULE DeploymentSlotsProofs ------------------------
(***************************************************************************)
(* Theorems about DeploymentSlots, for any number of slots, of openings of *)
(* the pane and of attempts at polling: the commands of the page and the   *)
(* pane it opens keep out of each other's way.                             *)
(*                                                                         *)
(* The page knows of the pane by its messages only, so the invariant says  *)
(* what the queue of messages can look like: the page counts the pane as   *)
(* open until it has heard the last of them, which says that it is closed. *)
(*                                                                         *)
(* The pane knows of ARM by answers and polls: the second part says what   *)
(* each of its steps lets it conclude about the operation it has posted,   *)
(* though operations of earlier openings may still be carried out.  The    *)
(* third part says when what the page has read of its own slot is current. *)
(***************************************************************************)
EXTENDS DeploymentSlots, TLAPS

-----------------------------------------------------------------------------
Executing == {"phase1-executing", "phase2-executing"}
Steps == {"closed", "loading", "phase1", "phase2-loading", "phase2",
          "complete", "phase2-complete"} \cup Executing

Targets == Sites \cup {None}
Ops == Operations \cup {"none"}
PhaseStatus == {"default", "current", "running", "done", "failed", "null"}
Progress == {"none", "spinner", "success", "warning", "error"}

Panes ==
  [step: Steps, swapping: BOOLEAN, executeButtonDisabled: BOOLEAN,
   phases: PhaseStatus \X PhaseStatus, progress: Progress, failed: BOOLEAN,
   src: Targets, dest: Targets, siteLoaded: BOOLEAN, op: Ops,
   wait: {"no", "post", "poll", "never"}, polls: Nat]

Messages == [kind: {"started", "completed", "closed"}, op: Ops,
             src: Targets, dest: Targets]
Posts == [op: Operations, src: Targets, dest: Targets, from: Nat]

Accesses == [write: BOOLEAN, swap: BOOLEAN]
Contents == [slots: BOOLEAN, config: BOOLEAN]
Flags == [refreshing: BOOLEAN, saving: BOOLEAN, swapControlsOpen: BOOLEAN,
          swapOperationsComplete: BOOLEAN, access: Accesses]
Commands == [save: BOOLEAN, swap: BOOLEAN, navigation: BOOLEAN]
Forms == {"none", "clean", "edited"}

\* The values the arguments below rest on.
Types ==
  /\ pane \in Panes /\ mail \in Seq(Messages)
  /\ flags \in Flags /\ loaded \in Contents /\ disabled \in Commands
  /\ load \in {"content", "read", "permissions", "idle"}
  /\ read.slots \in BOOLEAN /\ read.config \in BOOLEAN
  /\ form \in Forms /\ editable \in BOOLEAN
  /\ saves \in [begun: Nat, posted: Nat] /\ saves.begun + saves.posted <= MaxSaves
  /\ resourceId \in Sites /\ target \in [Sites -> Targets]
  /\ opens \in Nat /\ inbox \subseteq Posts

\* An operation is awaited only while the pane shows that it executes one.
PaneInv == Waiting => pane.step \in Executing /\ pane.swapping

\* The last message of a pane, and no other, says that it is closed.
MailInv ==
  /\ \A i \in 1..Len(mail) : mail[i].kind = "closed" =>
       pane.step = "closed" /\ i = Len(mail)
  /\ pane.step = "closed" /\ mail # <<>> => mail[Len(mail)].kind = "closed"

\* The page counts the pane as open until it has heard that message.
OpenInv == flags.swapControlsOpen <=> pane.step # "closed" \/ mail # <<>>

\* Whatever keeps the page occupied has disabled its commands.
Occupied == flags.swapControlsOpen \/ flags.saving
CommandInv == Occupied => disabled.save /\ disabled.swap

\* A page that says it is saving is loaded, the pane is closed, and there is
\* a save that is going to be answered: it cannot break off.
SaveInv ==
  flags.saving =>
    /\ load = "idle" /\ ~flags.swapControlsOpen
    /\ loaded.config /\ form # "none"
    /\ saves.begun > 0 \/ saves.posted > 0

\* A page is refreshing for as long as it loads.
LoadInv ==
  /\ flags.refreshing => load # "idle"
  /\ load = "idle" => disabled = DisabledState(flags, loaded)
  /\ load # "idle" => flags.access = NoAccess /\ disabled.save
  /\ ~flags.swapControlsOpen => flags.swapOperationsComplete

IInv == Types /\ PaneInv /\ MailInv /\ OpenInv /\ CommandInv /\ SaveInv /\ LoadInv

-----------------------------------------------------------------------------
(* What the operators of the model do to the state.                        *)

\* The commands are BOOLEANs, and disabled when the page is occupied or the
\* user has no access.
LEMMA DisabledStateType ==
  ASSUME NEW f \in Flags, NEW l \in Contents
  PROVE  /\ DisabledState(f, l) \in Commands
         /\ f.swapControlsOpen \/ f.saving =>
              DisabledState(f, l).save /\ DisabledState(f, l).swap
         /\ f.access = NoAccess \/ ~l.config => DisabledState(f, l).save
<1>1. DisabledState(f, l) \in Commands
  BY DEF Commands, DisabledState
<1>2. f.swapControlsOpen \/ f.saving => DisabledState(f, l).save /\ DisabledState(f, l).swap
  BY DEF DisabledState
<1>3. f.access = NoAccess \/ ~l.config => DisabledState(f, l).save
  <2>1. f.access = NoAccess => ~f.access.write
    BY DEF NoAccess
  <2> QED BY <2>1 DEF DisabledState
<1> QED BY <1>1, <1>2, <1>3

\* A form is there when the page has what it is made of, and it has no edits.
LEMMA FormType ==
  /\ \A l : FormFor(l) \in Forms
  /\ form \in Forms => Confirmed \in Forms
BY DEF FormFor, Confirmed, Forms

\* The constants of the model have the types of what they are put into.
LEMMA InitialTypes ==
  /\ Loading \in Panes /\ Closed \in Panes /\ Closed.step = "closed"
  /\ Loading.step = "loading" /\ Loading.wait = "no" /\ Closed.wait = "no"
  /\ NoAccess \in Accesses /\ Nothing \in Contents
<1>1. /\ Loading.step = "loading" /\ Loading.wait = "no"
      /\ Closed.step = "closed" /\ Closed.wait = "no"
  BY DEF Loading, Closed
<1>2. <<"default", "default">> \in PhaseStatus \X PhaseStatus
  BY DEF PhaseStatus
<1>3. Loading \in Panes
  BY <1>2 DEF Loading, Panes, Steps, Targets, Ops, Progress
<1>4. Closed \in Panes
  BY <1>3 DEF Closed, Panes, Steps
<1>5. NoAccess \in Accesses /\ Nothing \in Contents
  BY DEF NoAccess, Accesses, Nothing, Contents
<1> QED BY <1>1, <1>3, <1>4, <1>5

THEOREM Initially == Init => IInv
<1> SUFFICES ASSUME Init PROVE IInv
  OBVIOUS
<1>1. flags \in Flags /\ loaded \in Contents /\ flags.access = NoAccess
  BY InitialTypes DEF Init, Flags
<1>2. disabled \in Commands /\ disabled.save /\ CommandInv
  BY <1>1, DisabledStateType DEF Init, CommandInv, Occupied
<1>3. target \in [Sites -> Targets]
  <2>1. CASE target = [s \in Sites |-> None]
    BY <2>1 DEF Targets
  <2>2. CASE \E p \in Pairs : Pending(p)
    <3>1. PICK p \in Pairs : Pending(p)
      BY <2>2
    <3>2. p.src \in Sites /\ p.dest \in Sites
      BY DEF Pairs, Sites
    <3> QED BY <3>1, <3>2 DEF Pending, Targets
  <2> QED BY <2>1, <2>2 DEF Init, SwapInit
<1>4. Types
  <2>1. pane \in Panes /\ mail \in Seq(Messages)
    BY InitialTypes DEF Init, SwapInit
  <2>2. read.slots \in BOOLEAN /\ read.config \in BOOLEAN
    BY DEF Init, Unread
  <2>3. resourceId \in Sites /\ opens \in Nat /\ inbox \subseteq Posts
    BY DEF Init, SwapInit
  <2>4. /\ load \in {"content", "read", "permissions", "idle"}
        /\ form \in Forms /\ editable \in BOOLEAN
    BY DEF Init, Forms
  <2>5. saves \in [begun: Nat, posted: Nat] /\ saves.begun + saves.posted <= MaxSaves
    BY PageAssumption DEF Init
  <2> QED BY <1>1, <1>2, <1>3, <2>1, <2>2, <2>3, <2>4, <2>5 DEF Types
<1>5. PaneInv /\ MailInv /\ OpenInv
  BY InitialTypes DEF Init, SwapInit, PaneInv, Waiting, MailInv, OpenInv
<1>6. SaveInv /\ LoadInv
  BY <1>2 DEF Init, SaveInv, LoadInv
<1> QED BY <1>2, <1>4, <1>5, <1>6 DEF IInv

\* A message added to the queue of an open pane.
LEMMA Adds ==
  ASSUME NEW m \in Messages, IInv, mail' = Append(mail, m)
  PROVE  /\ mail' \in Seq(Messages) /\ mail' # <<>>
         /\ Len(mail') = Len(mail) + 1 /\ mail'[Len(mail')] = m
         /\ \A i \in 1..Len(mail) : mail'[i] = mail[i]
BY DEF IInv, Types

\* The pane stays open: the page notices nothing until it reads its mail.
LEMMA PaneStaysOpen ==
  ASSUME IInv, pane' \in Panes, pane.step # "closed", pane'.step # "closed", PaneInv',
         UNCHANGED pageVars, UNCHANGED <<target, resourceId, opens>>, inbox' \subseteq Posts,
         mail' = mail \/ \E m \in Messages : m.kind # "closed" /\ mail' = Append(mail, m)
  PROVE  IInv'
<1>1. mail' \in Seq(Messages)
  BY Adds DEF IInv, Types
<1>2. Types'
  BY <1>1 DEF IInv, Types, pageVars, formVars
<1>3. \A i \in 1..Len(mail') : mail'[i].kind # "closed"
  <2>1. CASE mail' = mail
    BY <2>1 DEF IInv, MailInv
  <2>2. CASE \E m \in Messages : m.kind # "closed" /\ mail' = Append(mail, m)
    <3>1. PICK m \in Messages : m.kind # "closed" /\ mail' = Append(mail, m)
      BY <2>2
    <3>2. \A i \in 1..Len(mail) : mail[i].kind # "closed"
      BY DEF IInv, MailInv
    <3> QED BY <3>1, <3>2, Adds DEF IInv, Types
  <2> QED BY <2>1, <2>2
<1>4. MailInv' /\ OpenInv'
  BY <1>3 DEF IInv, MailInv, OpenInv, pageVars, formVars
<1>5. CommandInv' /\ SaveInv' /\ LoadInv'
  BY DEF IInv, CommandInv, Occupied, SaveInv, LoadInv, DisabledState, pageVars, formVars
<1> QED BY <1>2, <1>4, <1>5 DEF IInv

\* The pane closes, by its button or because the portal takes it away.
LEMMA PaneCloses ==
  ASSUME IInv, pane.step # "closed", pane' = Closed, UNCHANGED pageVars,
         UNCHANGED <<target, resourceId, opens, inbox>>,
         mail' = Append(mail, Message("closed", "none", None, None))
  PROVE  IInv'
<1> DEFINE m == Message("closed", "none", None, None)
<1>1. m \in Messages /\ m.kind = "closed"
  BY DEF Message, Messages, Ops, Targets
<1>2. /\ mail' \in Seq(Messages) /\ mail' # <<>>
      /\ Len(mail') = Len(mail) + 1 /\ mail'[Len(mail')].kind = "closed"
      /\ \A i \in 1..Len(mail) : mail'[i] = mail[i]
  BY <1>1, Adds
<1>3. Types'
  BY <1>2, InitialTypes DEF IInv, Types, pageVars, formVars
<1>4. \A i \in 1..Len(mail) : mail[i].kind # "closed"
  BY DEF IInv, MailInv
<1>5. MailInv'
  BY <1>2, <1>4, InitialTypes DEF MailInv, IInv, Types
<1>6. PaneInv' /\ OpenInv'
  BY <1>2, InitialTypes DEF IInv, PaneInv, Waiting, OpenInv, pageVars, formVars
<1>7. CommandInv' /\ SaveInv' /\ LoadInv'
  BY DEF IInv, CommandInv, Occupied, SaveInv, LoadInv, DisabledState, pageVars, formVars
<1> QED BY <1>3, <1>5, <1>6, <1>7 DEF IInv

-----------------------------------------------------------------------------
(* Steps of the pane.                                                      *)

\* What the pane broadcasts is a message of an operation, or it is nobody's.
LEMMA Broadcasts ==
  ASSUME NEW kind \in {"started", "completed"}, NEW op \in Ops,
         NEW src \in Targets, NEW dest \in Targets, Broadcast(kind, op, src, dest)
  PROVE  mail' = mail \/ \E m \in Messages : m.kind # "closed" /\ mail' = Append(mail, m)
<1>1. Message(kind, op, src, dest) \in Messages
      /\ Message(kind, op, src, dest).kind # "closed"
  BY DEF Message, Messages
<1> QED BY <1>1 DEF Broadcast

\* The start of an operation from a pane that is open.
LEMMA Starts ==
  ASSUME IInv, UNCHANGED pageVars, pane.step # "closed",
         NEW op \in Operations, NEW p, p.src \in Targets, p.dest \in Targets,
         NEW step \in Executing, NEW phases \in PhaseStatus \X PhaseStatus,
         Start(op, p, step, phases)
  PROVE  IInv'
<1>1. pane' \in Panes /\ pane'.step = step /\ pane'.swapping
  BY DEF IInv, Types, Start, Panes, Steps, Ops, Progress
<1>2. inbox' \subseteq Posts
  BY DEF IInv, Types, Start, Posts
<1>3. mail' = mail \/ \E m \in Messages : m.kind # "closed" /\ mail' = Append(mail, m)
  BY Broadcasts DEF Start, Ops
<1>4. PaneInv' /\ pane'.step # "closed"
  BY <1>1 DEF PaneInv, Executing
<1> QED BY <1>1, <1>2, <1>3, <1>4, PaneStaysOpen DEF Start

\* The end of an operation.
LEMMA Finishes ==
  ASSUME IInv, UNCHANGED pageVars, NEW p \in Panes, p.step # "closed",
         pane.step # "closed", Finish(p)
  PROVE  IInv'
<1>1. pane' \in Panes /\ pane'.step # "closed" /\ pane'.wait = "no"
  BY DEF Finish, Panes
<1>2. mail' = mail \/ \E m \in Messages : m.kind # "closed" /\ mail' = Append(mail, m)
  BY Broadcasts DEF Finish, IInv, Types, Panes
<1>3. PaneInv' /\ inbox' \subseteq Posts
  BY <1>1 DEF PaneInv, Waiting, Finish, IInv, Types, armVars
<1> QED BY <1>1, <1>2, <1>3, PaneStaysOpen DEF Finish, armVars

\* A pane that waits is open.
LEMMA WaitingIsOpen == IInv /\ Waiting => pane.step # "closed"
BY DEF IInv, PaneInv, Executing

\* A step of the pane that tells nobody anything.
LEMMA Silently ==
  ASSUME IInv, UNCHANGED pageVars, pane' \in Panes, pane.step # "closed",
         pane'.step # "closed", PaneInv', UNCHANGED <<armVars, resourceId, opens, mail>>
  PROVE  IInv'
BY PaneStaysOpen DEF IInv, Types, armVars

LEMMA PaneStep ==
  ASSUME IInv, UNCHANGED pageVars, PaneNext
  PROVE  IInv'
<1> USE DEF PaneNext
<1>1. CASE PaneLoaded
  <2>1. pane' \in Panes /\ pane'.step # "closed" /\ pane'.wait = pane.wait
        /\ pane.step = "loading"
    <3>1. PICK siteOk \in BOOLEAN, slotsOk \in BOOLEAN :
            LET known == IF siteOk THEN Sites ELSE Slots
                t     == IF resourceId \in known THEN target[resourceId] ELSE None
                pair  == ResumedPair(t)
            IN  \/ pane' = [pane EXCEPT !.failed = TRUE]
                \/ pane' = [pane EXCEPT !.step = "phase2-loading",
                              !.phases = <<"done", "default">>,
                              !.src = pair.src, !.dest = pair.dest]
                \/ pane' = [pane EXCEPT !.step = "phase1", !.siteLoaded = siteOk,
                              !.phases = <<"current", "default">>,
                              !.executeButtonDisabled = FALSE]
      BY <1>1 DEF PaneLoaded
    <3> DEFINE known == IF siteOk THEN Sites ELSE Slots
               t == IF resourceId \in known THEN target[resourceId] ELSE None
    <3>2. t \in Targets
      BY DEF IInv, Types, Targets
    <3>3. ResumedPair(t).src \in Targets /\ ResumedPair(t).dest \in Targets
      BY <3>2 DEF ResumedPair, IInv, Types, Targets
    <3>4. pane \in Panes /\ pane.step = "loading"
      BY <1>1 DEF IInv, Types, PaneLoaded
    <3>5. /\ <<"done", "default">> \in PhaseStatus \X PhaseStatus
          /\ <<"current", "default">> \in PhaseStatus \X PhaseStatus
      BY DEF PhaseStatus
    <3> HIDE DEF t
    <3> QED BY <3>1, <3>3, <3>4, <3>5 DEF Panes, Steps, t
  <2>2. PaneInv'
    BY <2>1 DEF IInv, PaneInv, Waiting, Executing
  <2> QED BY <1>1, <2>1, <2>2, Silently DEF PaneLoaded
<1>2. CASE PermissionsKnown
  <2>1. pane' \in Panes /\ pane'.step # "closed" /\ pane'.wait = pane.wait
        /\ pane.step = "phase2-loading"
    <3>1. <<"done", "current">> \in PhaseStatus \X PhaseStatus
      BY DEF PhaseStatus
    <3> QED BY <1>2, <3>1 DEF PermissionsKnown, Phase2, IInv, Types, Panes, Steps
  <2>2. PaneInv'
    BY <2>1 DEF IInv, PaneInv, Waiting, Executing
  <2> QED BY <1>2, <2>1, <2>2, Silently DEF PermissionsKnown
<1>3. CASE ExecutePhase1
  <2>1. PICK p \in Pairs, op \in {"slotsswap", "applySlotConfig"} :
          Start(op, p, "phase1-executing", <<"running", "default">>)
    BY <1>3 DEF ExecutePhase1, Choices
  <2>2. p.src \in Targets /\ p.dest \in Targets /\ op \in Operations
    BY DEF Pairs, Targets, Sites, Operations
  <2>3. <<"running", "default">> \in PhaseStatus \X PhaseStatus
    BY DEF PhaseStatus
  <2> QED BY <1>3, <2>1, <2>2, <2>3, Starts DEF ExecutePhase1, Executing
<1>4. CASE ExecutePhase2
  <2>1. PICK op \in {"slotsswap", "resetSlotConfig"} :
          Start(op, [src |-> pane.src, dest |-> pane.dest],
                "phase2-executing", <<"done", "running">>)
    BY <1>4 DEF ExecutePhase2
  <2>2. pane.src \in Targets /\ pane.dest \in Targets /\ op \in Operations
    BY DEF IInv, Types, Panes, Operations
  <2>3. <<"done", "running">> \in PhaseStatus \X PhaseStatus
    BY DEF PhaseStatus
  <2> QED BY <1>4, <2>1, <2>2, <2>3, Starts DEF ExecutePhase2, Executing
<1>5. CASE ApplyAnswered
  <2> DEFINE failed == [pane EXCEPT !.progress = "error", !.phases = <<"failed", "null">>]
             applied == Phase2([pane EXCEPT !.progress = "success"])
  <2>1. failed \in Panes /\ failed.step = pane.step
    BY DEF IInv, Types, Panes, Progress, PhaseStatus
  <2>2. applied \in Panes /\ applied.step = "phase2"
    BY DEF IInv, Types, Panes, Progress, PhaseStatus, Phase2, Steps
  <2>3. pane.step # "closed"
    BY <1>5, WaitingIsOpen DEF ApplyAnswered, Waiting
  <2> QED BY <1>5, <2>1, <2>2, <2>3, Finishes DEF ApplyAnswered
<1>6. CASE ResetAnswered
  <2>1. PICK progress \in Progress, success \in BOOLEAN :
          Finish(Completed([pane EXCEPT !.progress = progress], TRUE, success))
    BY <1>6 DEF ResetAnswered, Progress
  <2>2. Completed([pane EXCEPT !.progress = progress], TRUE, success) \in Panes
        /\ Completed([pane EXCEPT !.progress = progress], TRUE, success).step # "closed"
    BY DEF Completed, IInv, Types, Panes, PhaseStatus, Steps
  <2> QED BY <1>6, <2>1, <2>2, WaitingIsOpen, Finishes DEF ResetAnswered, Waiting
<1> HIDE DEF PaneNext
<1>7. ASSUME NEW progress \in Progress, SwapFinished(progress), Waiting
      PROVE  IInv'
  <2> DEFINE p == Completed([pane EXCEPT !.progress = progress],
                    pane.step = "phase2-executing", progress = "success")
  <2>1. p \in Panes /\ p.step # "closed"
    BY DEF Completed, IInv, Types, Panes, PhaseStatus, Steps
  <2> HIDE DEF p
  <2>2. Finish(p)
    BY <1>7 DEF SwapFinished, p
  <2> QED BY <1>7, <2>1, <2>2, WaitingIsOpen, Finishes
<1>8. CASE SwapAnswered
  <2>1. CASE reply = "location"
    <3>1. pane' = [pane EXCEPT !.wait = "poll"] /\ Waiting
      BY <1>8, <2>1 DEF SwapAnswered, Waiting
    <3>2. pane' \in Panes /\ pane'.step = pane.step /\ pane'.swapping = pane.swapping
      BY <3>1 DEF IInv, Types, Panes
    <3>3. PaneInv' /\ pane.step # "closed"
      BY <3>1, <3>2, WaitingIsOpen DEF IInv, PaneInv
    <3> QED BY <1>8, <2>1, <3>2, <3>3, Silently DEF SwapAnswered
  <2>2. CASE reply # "location"
    BY <1>8, <2>2, <1>7 DEF SwapAnswered, Waiting, Progress
  <2> QED BY <2>1, <2>2
<1>9. CASE Poll
  <2>1. PICK status \in Statuses :
          \/ SwapFinished(Outcome(status))
          \/ /\ pane' = [pane EXCEPT !.polls = pane.polls + 1,
                            !.wait = IF Enough(pane.polls + 1) THEN "never" ELSE "poll"]
             /\ UNCHANGED <<resourceId, armVars, reply, opens, mail, history>>
    BY <1>9 DEF Poll
  <2>2. Waiting
    BY <1>9 DEF Poll, Waiting
  <2>3. CASE SwapFinished(Outcome(status))
    BY <2>2, <2>3, <1>7 DEF Outcome, Progress
  <2>4. CASE /\ pane' = [pane EXCEPT !.polls = pane.polls + 1,
                            !.wait = IF Enough(pane.polls + 1) THEN "never" ELSE "poll"]
             /\ UNCHANGED <<resourceId, armVars, reply, opens, mail, history>>
    <3>1. pane' \in Panes /\ pane'.step = pane.step /\ pane'.swapping = pane.swapping
      <4>1. PICK w \in {"never", "poll"} :
              pane' = [pane EXCEPT !.polls = pane.polls + 1, !.wait = w]
        BY <2>4
      <4>2. pane \in Panes /\ pane.polls + 1 \in Nat
        BY DEF IInv, Types, Panes
      <4> QED BY <4>1, <4>2 DEF Panes
    <3>2. PaneInv' /\ pane.step # "closed"
      BY <3>1, <2>2, WaitingIsOpen DEF IInv, PaneInv
    <3> QED BY <2>4, <3>1, <3>2, Silently
  <2> QED BY <2>1, <2>3, <2>4
<1>10. CASE ClosePanel \/ Dismiss
  BY <1>10, PaneCloses DEF ClosePanel, Dismiss, armVars
<1> QED BY <1>1, <1>2, <1>3, <1>4, <1>5, <1>6, <1>8, <1>9, <1>10 DEF PaneNext

-----------------------------------------------------------------------------
(* Steps of ARM and of the page.                                           *)

\* ARM changes nothing the page or the pane shows.
LEMMA ArmStep ==
  ASSUME IInv, UNCHANGED pageVars, ArmNext
  PROVE  IInv'
<1>1. UNCHANGED <<pane, mail, resourceId, opens>> /\ inbox' \subseteq inbox
  BY DEF ArmNext, ArmRefuses, ArmConfigures, ArmStartsSwap, ArmEndsSwap
<1>2. target' \in [Sites -> Targets]
  <2>1. target \in [Sites -> Targets] /\ None \in Targets
        /\ \A p \in inbox : p.src \in Targets /\ p.dest \in Targets
    BY DEF IInv, Types, Posts, Targets
  <2>2. CASE ArmRefuses \/ ArmStartsSwap
    BY <2>1, <2>2 DEF ArmRefuses, ArmStartsSwap
  <2>3. CASE ArmConfigures
    BY <2>1, <2>3 DEF ArmConfigures, SetPair
  <2>4. CASE ArmEndsSwap
    BY <2>1, <2>4 DEF ArmEndsSwap, SetPair
  <2> QED BY <2>2, <2>3, <2>4 DEF ArmNext
<1>3. Types'
  BY <1>1, <1>2 DEF IInv, Types, pageVars, formVars
<1>4. PaneInv' /\ MailInv' /\ OpenInv'
  BY <1>1 DEF IInv, PaneInv, Waiting, MailInv, OpenInv, pageVars, formVars
<1>5. CommandInv' /\ SaveInv' /\ LoadInv'
  BY <1>1 DEF IInv, CommandInv, Occupied, SaveInv, LoadInv, DisabledState, pageVars, formVars
<1> QED BY <1>3, <1>4, <1>5 DEF IInv

\* The commands, brought up to date.
LEMMA Updates ==
  ASSUME flags' \in Flags, loaded' \in Contents, UpdateDisabledState
  PROVE  /\ disabled' \in Commands /\ editable' \in BOOLEAN /\ CommandInv'
         /\ flags'.access = NoAccess => disabled'.save
         /\ UNCHANGED resourceId => disabled' = DisabledState(flags, loaded)'
<1>1. DisabledState(flags', loaded') \in Commands /\ disabled' = DisabledState(flags', loaded')
  BY DisabledStateType DEF UpdateDisabledState
<1>2. CommandInv' /\ (flags'.access = NoAccess => disabled'.save)
  BY <1>1, DisabledStateType DEF CommandInv, Occupied
<1>3. UNCHANGED resourceId => disabled' = DisabledState(flags, loaded)'
  BY <1>1 DEF DisabledState
<1>4. editable' \in BOOLEAN
  BY DEF UpdateDisabledState
<1> QED BY <1>1, <1>2, <1>3, <1>4

\* The head of a load.
LEMMA Loads ==
  ASSUME form \in Forms, NEW f \in Flags, StartLoad(f)
  PROVE  /\ flags' \in Flags /\ loaded' \in Contents /\ disabled' \in Commands
         /\ form' \in Forms /\ editable' \in BOOLEAN
         /\ CommandInv' /\ SaveInv' /\ load' = "content"
         /\ flags'.access = NoAccess /\ disabled'.save
         /\ flags'.swapControlsOpen = f.swapControlsOpen
         /\ flags'.swapOperationsComplete = f.swapOperationsComplete
         /\ read'.slots \in BOOLEAN /\ read'.config \in BOOLEAN
<1>1. flags' = [f EXCEPT !.access = NoAccess, !.saving = FALSE]
  BY DEF StartLoad
<1>2. /\ flags' \in Flags /\ ~flags'.saving /\ flags'.access = NoAccess
      /\ flags'.swapControlsOpen = f.swapControlsOpen
      /\ flags'.swapOperationsComplete = f.swapOperationsComplete
  BY <1>1, InitialTypes DEF Flags
<1>3. loaded' \in Contents /\ form' \in Forms
  BY InitialTypes, FormType DEF StartLoad
<1>4. /\ disabled' \in Commands /\ editable' \in BOOLEAN /\ CommandInv' /\ disabled'.save
  BY <1>2, <1>3, Updates DEF StartLoad
<1>5. load' = "content" /\ read'.slots \in BOOLEAN /\ read'.config \in BOOLEAN
  BY DEF StartLoad, Unread
<1>6. SaveInv'
  BY <1>2 DEF SaveInv
<1> QED BY <1>2, <1>3, <1>4, <1>5, <1>6

\* What is left of the queue once its first message has been heard.
LEMMA Hears ==
  ASSUME IInv, Receive
  PROVE  /\ UNCHANGED pane /\ mail' \in Seq(Messages) /\ MailInv'
         /\ Heard \in Messages /\ flags.swapControlsOpen
         /\ IF Heard.kind = "closed" THEN mail' = <<>> /\ pane.step = "closed"
            ELSE pane.step # "closed" \/ mail' # <<>>
<1>1. /\ mail \in Seq(Messages) /\ mail # <<>> /\ mail' = Tail(mail) /\ UNCHANGED pane
      /\ Heard = mail[1] /\ Len(mail) \in Nat /\ Len(mail) >= 1
  BY DEF IInv, Types, Receive, Heard
<1>2. /\ mail' \in Seq(Messages) /\ Len(mail') = Len(mail) - 1
      /\ \A i \in 1..Len(mail') : mail'[i] = mail[i + 1]
      /\ Heard \in Messages
  BY <1>1
<1>3. CASE Heard.kind = "closed"
  <2>0. 1 \in 1..Len(mail) /\ mail[1].kind = "closed"
    BY <1>1, <1>3
  <2>1. pane.step = "closed" /\ Len(mail) = 1
    BY <2>0 DEF IInv, MailInv
  <2>2. mail' = <<>>
    BY <1>2, <2>1
  <2>3. MailInv'
    BY <2>2 DEF MailInv
  <2> QED BY <1>1, <1>2, <1>3, <2>1, <2>2, <2>3 DEF IInv, OpenInv
<1>4. CASE Heard.kind # "closed"
  <2>1. pane.step = "closed" => mail[Len(mail)].kind = "closed" /\ Len(mail) # 1
    BY <1>1, <1>4 DEF IInv, MailInv
  <2>2. pane.step = "closed" => mail' # <<>> /\ mail'[Len(mail')] = mail[Len(mail)]
    <3>1. Len(mail) # 1 => Len(mail') \in 1..Len(mail')
      <4>1. ASSUME NEW n \in Nat, NEW k, n >= 1, n # 1, k = n - 1 PROVE k \in 1..k
        BY <4>1
      <4> QED BY <1>1, <1>2, <4>1, Zenon
    <3>2. Len(mail') + 1 = Len(mail)
      <4>1. ASSUME NEW n \in Nat, NEW k, k = n - 1 PROVE k + 1 = n
        BY <4>1
      <4> QED BY <1>1, <1>2, <4>1, Zenon
    <3>3. Len(mail) # 1 => mail'[Len(mail')] = mail[Len(mail)]
      BY <1>2, <3>1, <3>2, Zenon
    <3>4. ASSUME mail' = <<>> PROVE Len(mail') \notin 1..Len(mail')
      BY <3>4
    <3> QED BY <2>1, <3>1, <3>3, <3>4, Zenon
  <2>3. \A i \in 1..Len(mail') : mail'[i].kind = "closed" =>
          pane.step = "closed" /\ i = Len(mail')
    <3>1. TAKE i \in 1..Len(mail')
    <3>2. mail'[i] = mail[i + 1] /\ i + 1 \in 1..Len(mail) /\ i \in Int
      BY <1>1, <1>2
    <3>3. mail'[i].kind = "closed" => pane.step = "closed" /\ i + 1 = Len(mail)
      BY <3>2 DEF IInv, MailInv
    <3>4. ASSUME NEW n, NEW m, n = m - 1, i + 1 = m PROVE i = n
      BY <3>2, <3>4
    <3>5. i + 1 = Len(mail) => i = Len(mail')
      BY <1>2, <3>4, Zenon
    <3> QED BY <3>3, <3>5
  <2>4. MailInv'
    BY <1>1, <2>1, <2>2, <2>3 DEF MailInv
  <2> QED BY <1>1, <1>2, <1>4, <2>2, <2>4 DEF IInv, OpenInv
<1> QED BY <1>3, <1>4

\* The parts about the pane and its mail, when both stay as they are.
LEMMA PaneUntouched ==
  ASSUME IInv, UNCHANGED <<pane, mail>>, flags'.swapControlsOpen = flags.swapControlsOpen
  PROVE  PaneInv' /\ MailInv' /\ OpenInv'
BY DEF IInv, PaneInv, Waiting, MailInv, OpenInv

LEMMA PageStep ==
  ASSUME IInv, PageNext
  PROVE  IInv'
<1>0. /\ pane \in Panes /\ mail \in Seq(Messages) /\ flags \in Flags /\ loaded \in Contents
      /\ disabled \in Commands /\ form \in Forms /\ flags.access \in Accesses
      /\ saves \in [begun: Nat, posted: Nat] /\ saves.begun + saves.posted <= MaxSaves
      /\ read.slots \in BOOLEAN /\ read.config \in BOOLEAN
  BY DEF IInv, Types, Flags
<1>1. CASE ContentRead
  <2>1. read'.slots \in BOOLEAN /\ read'.config \in BOOLEAN /\ load' = "read"
    BY <1>1 DEF ContentRead
  <2>2. Types'
    BY <1>1, <2>1 DEF ContentRead, IInv, Types, armVars, formVars
  <2>3. CommandInv' /\ SaveInv' /\ LoadInv'
    BY <1>1, <2>1 DEF ContentRead, IInv, CommandInv, Occupied, SaveInv, LoadInv, formVars
  <2> QED BY <1>1, <2>2, <2>3, PaneUntouched DEF ContentRead, IInv
<1>2. CASE ContentLoaded
  <2>1. loaded' \in Contents /\ load' = "permissions" /\ form' \in Forms /\ editable' = FALSE
        /\ read' = Unread
    BY <1>0, <1>2, FormType DEF ContentLoaded, Contents
  <2>2. read'.slots \in BOOLEAN /\ read'.config \in BOOLEAN
    BY <2>1 DEF Unread
  <2>3. Types'
    BY <1>2, <2>1, <2>2 DEF ContentLoaded, IInv, Types, paneVars, armVars
  <2>4. CommandInv' /\ SaveInv' /\ LoadInv'
    BY <1>2, <2>1 DEF ContentLoaded, IInv, CommandInv, Occupied, SaveInv, LoadInv
  <2> QED BY <1>2, <2>3, <2>4, PaneUntouched DEF ContentLoaded, IInv, paneVars
<1>3. CASE PermissionsLoaded
  <2>1. /\ flags' \in Flags /\ ~flags'.refreshing
        /\ flags'.swapControlsOpen = flags.swapControlsOpen /\ flags'.saving = flags.saving
        /\ flags'.swapOperationsComplete = flags.swapOperationsComplete
    BY <1>0, <1>3 DEF PermissionsLoaded, Flags, Accesses
  <2>2. /\ disabled' \in Commands /\ editable' \in BOOLEAN /\ CommandInv'
        /\ disabled' = DisabledState(flags, loaded)' /\ loaded' \in Contents
    BY <1>0, <1>3, <2>1, Updates DEF PermissionsLoaded, paneVars
  <2>3. load = "permissions" /\ load' = "idle" /\ UNCHANGED <<loaded, form, saves, read>>
    BY <1>3 DEF PermissionsLoaded
  <2>4. Types'
    BY <1>3, <2>1, <2>2, <2>3 DEF PermissionsLoaded, IInv, Types, paneVars, armVars
  <2>5. SaveInv' /\ LoadInv'
    BY <2>1, <2>2, <2>3 DEF IInv, SaveInv, LoadInv
  <2> QED BY <1>3, <2>1, <2>2, <2>4, <2>5, PaneUntouched DEF PermissionsLoaded, IInv, paneVars
<1>4. CASE RefreshCommand
  <2> DEFINE f == [flags EXCEPT !.refreshing = TRUE]
  <2>1. f \in Flags /\ StartLoad(f) /\ f.swapControlsOpen = flags.swapControlsOpen
        /\ f.swapOperationsComplete = flags.swapOperationsComplete
    BY <1>0, <1>4 DEF RefreshCommand, Refresh, Flags
  <2> HIDE DEF f
  <2>2. Types'
    BY <1>0, <1>4, <2>1, Loads DEF RefreshCommand, IInv, Types, paneVars, armVars
  <2>3. LoadInv'
    BY <1>0, <2>1, Loads DEF IInv, LoadInv
  <2> QED BY <1>0, <1>4, <2>1, <2>2, <2>3, Loads, PaneUntouched
      DEF RefreshCommand, IInv, paneVars
<1>5. CASE Edit \/ Discard
  <2>1. /\ UNCHANGED <<paneVars, siteArm, loaded, load, read, flags, disabled, editable, saves>>
        /\ form' \in Forms
    BY <1>5, FormType DEF Edit, Discard, Forms
  <2>2. flags.saving => form' # "none"
    BY <1>5 DEF Edit, Discard, IInv, CommandInv, Occupied
  <2>3. Types'
    BY <2>1 DEF IInv, Types, paneVars, armVars
  <2>4. CommandInv' /\ SaveInv' /\ LoadInv'
    BY <2>1, <2>2 DEF IInv, CommandInv, Occupied, SaveInv, LoadInv, DisabledState, paneVars
  <2> QED BY <2>1, <2>3, <2>4, PaneUntouched DEF IInv, paneVars
<1>6. CASE Save
  <2>1. /\ flags' \in Flags /\ flags'.saving /\ flags'.refreshing = flags.refreshing
        /\ flags'.swapControlsOpen = flags.swapControlsOpen /\ flags'.access = flags.access
        /\ flags'.swapOperationsComplete = flags.swapOperationsComplete
    BY <1>0, <1>6 DEF Save, Flags
  <2>2. ~flags.swapControlsOpen /\ form = "edited" /\ load = "idle" /\ loaded.config
        /\ UNCHANGED <<form, load, loaded>>
    BY <1>0, <1>6, DisabledStateType DEF Save, Dirty, IInv, CommandInv, Occupied, LoadInv
  <2>3. /\ disabled' \in Commands /\ editable' \in BOOLEAN /\ CommandInv'
        /\ disabled' = DisabledState(flags, loaded)' /\ loaded' \in Contents
    BY <1>0, <1>6, <2>1, Updates DEF Save, paneVars
  <2>4. /\ saves' \in [begun: Nat, posted: Nat] /\ saves'.begun > 0
        /\ saves'.begun + saves'.posted <= MaxSaves
    BY <1>0, <1>6, PageAssumption DEF Save
  <2>5. Types'
    BY <1>6, <2>1, <2>3, <2>4 DEF Save, IInv, Types, paneVars, armVars
  <2>6. SaveInv' /\ LoadInv'
    BY <2>1, <2>2, <2>3, <2>4 DEF IInv, SaveInv, LoadInv
  <2> QED BY <1>6, <2>1, <2>3, <2>5, <2>6, PaneUntouched DEF Save, IInv, paneVars
<1>7. CASE SavePosted
  <2>1. UNCHANGED <<paneVars, siteArm, loaded, load, read, flags, disabled, formVars>>
    BY <1>7 DEF SavePosted
  <2>2. /\ saves' \in [begun: Nat, posted: Nat] /\ saves'.begun + saves'.posted <= MaxSaves
        /\ loaded.config /\ form # "none" => saves'.posted > 0
    BY <1>0, <1>7, PageAssumption DEF SavePosted
  <2>3. Types'
    BY <2>1, <2>2 DEF IInv, Types, paneVars, armVars, formVars
  <2>4. CommandInv' /\ SaveInv' /\ LoadInv'
    BY <2>1, <2>2 DEF IInv, CommandInv, Occupied, SaveInv, LoadInv, DisabledState, paneVars,
       formVars
  <2> QED BY <2>1, <2>3, <2>4, PaneUntouched DEF IInv, paneVars
<1>8. CASE SaveAnswered
  <2>1. /\ flags' \in Flags /\ flags'.refreshing = flags.refreshing /\ ~flags'.saving
        /\ flags'.swapControlsOpen = flags.swapControlsOpen /\ flags'.access = flags.access
        /\ flags'.swapOperationsComplete = flags.swapOperationsComplete
    BY <1>0, <1>8 DEF SaveAnswered, Flags
  <2>2. loaded' \in Contents /\ form' \in Forms
    BY <1>0, <1>8, FormType DEF SaveAnswered, Contents
  <2>3. disabled' = DisabledState(flags', loaded') /\ editable' \in BOOLEAN
    BY <1>8 DEF SaveAnswered, UpdateDisabledState
  <2>4. /\ disabled' \in Commands /\ CommandInv' /\ disabled' = DisabledState(flags, loaded)'
        /\ flags'.access = NoAccess => disabled'.save
    BY <1>8, <2>1, <2>2, <2>3, DisabledStateType
       DEF SaveAnswered, paneVars, CommandInv, Occupied, DisabledState
  <2>5. saves' \in [begun: Nat, posted: Nat] /\ saves'.begun + saves'.posted <= MaxSaves
    BY <1>0, <1>8, PageAssumption DEF SaveAnswered
  <2>6. Types'
    BY <1>8, <2>1, <2>2, <2>3, <2>4, <2>5 DEF SaveAnswered, IInv, Types, paneVars, armVars
  <2>7. SaveInv' /\ LoadInv'
    BY <1>8, <2>1, <2>4 DEF SaveAnswered, IInv, SaveInv, LoadInv
  <2> QED BY <1>8, <2>1, <2>4, <2>6, <2>7, PaneUntouched DEF SaveAnswered, IInv, paneVars
<1>9. CASE ShowSwapControls
  <2>1. /\ flags' \in Flags /\ flags'.refreshing = flags.refreshing
        /\ flags'.swapControlsOpen /\ flags'.saving = flags.saving
        /\ flags'.access = flags.access
    BY <1>0, <1>9 DEF ShowSwapControls, Flags
  <2>2. ~flags.swapControlsOpen /\ ~flags.saving /\ mail = <<>>
    BY <1>9 DEF ShowSwapControls, IInv, CommandInv, Occupied, OpenInv
  <2>3. /\ disabled' \in Commands /\ editable' \in BOOLEAN /\ CommandInv'
        /\ disabled' = DisabledState(flags, loaded)' /\ disabled'.save
        /\ loaded' \in Contents /\ form' \in Forms
    BY <1>0, <1>9, <2>1, Updates, FormType
       DEF ShowSwapControls, CommandInv, Occupied
  <2>4. pane' \in Panes /\ pane'.step = "loading" /\ pane'.wait = "no"
        /\ opens' \in Nat /\ mail' = <<>>
    BY <1>9, <2>2, InitialTypes DEF ShowSwapControls, OpenPane, IInv, Types
  <2>5. Types'
    BY <1>9, <2>1, <2>3, <2>4 DEF ShowSwapControls, OpenPane, IInv, Types, armVars
  <2>6. SaveInv' /\ LoadInv'
    BY <1>9, <2>1, <2>2, <2>3 DEF ShowSwapControls, IInv, SaveInv, LoadInv
  <2>7. PaneInv' /\ MailInv' /\ OpenInv'
    BY <2>1, <2>4 DEF PaneInv, Waiting, MailInv, OpenInv
  <2> QED BY <2>3, <2>5, <2>6, <2>7 DEF IInv
<1>10. CASE SwapStarted
  <2>1. Receive /\ Heard.kind = "started"
        /\ UNCHANGED <<loaded, load, read, flags, disabled, formVars>>
    BY <1>10 DEF SwapStarted
  <2>2. Types'
    BY <2>1, Hears DEF Receive, IInv, Types, armVars, formVars
  <2>3. PaneInv' /\ MailInv' /\ OpenInv'
    BY <2>1, Hears DEF IInv, PaneInv, Waiting, OpenInv
  <2>4. CommandInv' /\ SaveInv' /\ LoadInv'
    BY <2>1 DEF Receive, IInv, CommandInv, Occupied, SaveInv, LoadInv, DisabledState, formVars
  <2> QED BY <2>2, <2>3, <2>4 DEF IInv
<1>11. CASE SwapCompleted
  <2>1. PICK c \in BOOLEAN :
          LET heard == [flags EXCEPT !.swapOperationsComplete = c]
          IN  \/ Refresh(heard)
              \/ flags' = heard /\ UNCHANGED <<siteArm, loaded, load, read, disabled, formVars>>
    BY <1>11 DEF SwapCompleted
  <2>2. Receive /\ Heard.kind = "completed" /\ flags.swapControlsOpen
    BY <1>11, Hears DEF SwapCompleted
  <2>3. CASE Refresh([flags EXCEPT !.swapOperationsComplete = c])
    <3> DEFINE f == [flags EXCEPT !.swapOperationsComplete = c, !.refreshing = TRUE]
    <3>1. f \in Flags /\ StartLoad(f) /\ f.swapControlsOpen = flags.swapControlsOpen
      BY <1>0, <2>3 DEF Refresh, Flags
    <3> HIDE DEF f
    <3>2. Types'
      BY <1>0, <2>2, <3>1, Loads, Hears DEF Receive, IInv, Types, armVars
    <3>3. LoadInv'
      BY <1>0, <2>2, <3>1, Loads DEF LoadInv
    <3>4. PaneInv' /\ MailInv' /\ OpenInv'
      BY <1>0, <2>2, <3>1, Loads, Hears DEF IInv, PaneInv, Waiting, OpenInv
    <3> QED BY <1>0, <3>1, <3>2, <3>3, <3>4, Loads DEF IInv
  <2>4. CASE /\ flags' = [flags EXCEPT !.swapOperationsComplete = c]
             /\ UNCHANGED <<siteArm, loaded, load, read, disabled, formVars>>
    <3>1. /\ flags' \in Flags /\ flags'.refreshing = flags.refreshing
          /\ flags'.swapControlsOpen /\ flags'.saving = flags.saving
          /\ flags'.access = flags.access
      BY <1>0, <2>2, <2>4 DEF Flags
    <3>2. Types'
      BY <2>2, <2>4, <3>1, Hears DEF Receive, IInv, Types, armVars, formVars
    <3>3. PaneInv' /\ MailInv' /\ OpenInv'
      BY <2>2, <3>1, Hears DEF IInv, PaneInv, Waiting, OpenInv
    <3>4. CommandInv' /\ SaveInv' /\ LoadInv'
      BY <2>2, <2>4, <3>1
         DEF Receive, IInv, CommandInv, Occupied, SaveInv, LoadInv, DisabledState, formVars
    <3> QED BY <3>2, <3>3, <3>4 DEF IInv
  <2> QED BY <2>1, <2>3, <2>4
<1>12. CASE PaneClosed
  <2>1. /\ flags' \in Flags /\ flags'.refreshing = flags.refreshing
        /\ ~flags'.swapControlsOpen /\ flags'.swapOperationsComplete
        /\ flags'.saving = flags.saving /\ flags'.access = flags.access
    BY <1>0, <1>12 DEF PaneClosed, Flags
  <2>2. Receive /\ Heard.kind = "closed" /\ flags.swapControlsOpen
        /\ UNCHANGED <<resourceId, load, loaded, form, saves>>
    BY <1>12, Hears DEF PaneClosed, Receive
  <2>3. /\ disabled' \in Commands /\ editable' \in BOOLEAN /\ CommandInv'
        /\ load' = "idle" => disabled' = DisabledState(flags, loaded)'
        /\ load' # "idle" => disabled'.save
    <3>1. CASE flags.refreshing
      BY <1>0, <1>12, <2>1, <2>2, <3>1
         DEF PaneClosed, IInv, Types, CommandInv, Occupied, LoadInv
    <3>2. CASE ~flags.refreshing
      BY <1>0, <1>12, <2>1, <2>2, <3>2, Updates DEF PaneClosed, IInv, LoadInv
    <3> QED BY <3>1, <3>2
  <2>4. Types'
    BY <1>12, <2>1, <2>2, <2>3, Hears DEF PaneClosed, Receive, IInv, Types, armVars
  <2>5. SaveInv' /\ LoadInv'
    BY <2>1, <2>2, <2>3 DEF IInv, SaveInv, LoadInv
  <2>6. PaneInv' /\ MailInv' /\ OpenInv'
    BY <2>1, <2>2, Hears DEF IInv, PaneInv, Waiting, OpenInv
  <2> QED BY <2>3, <2>4, <2>5, <2>6 DEF IInv
<1> QED BY <1>1, <1>2, <1>3, <1>4, <1>5, <1>6, <1>7, <1>8, <1>9, <1>10, <1>11, <1>12
    DEF PageNext

-----------------------------------------------------------------------------
\* The invariant holds throughout: what a page and its pane show, what is in
\* the queue between them and which commands are disabled belong together.
THEOREM Inductive == Spec => []IInv
<1>1. Init => IInv
  BY Initially
<1>2. IInv /\ [Next]_vars => IInv'
  <2> SUFFICES ASSUME IInv, [Next]_vars PROVE IInv'
    OBVIOUS
  <2>1. CASE PageNext
    BY <2>1, PageStep
  <2>2. CASE PaneNext /\ UNCHANGED pageVars
    BY <2>2, PaneStep
  <2>3. CASE ArmNext /\ UNCHANGED pageVars
    BY <2>3, ArmStep
  <2>4. CASE UNCHANGED vars
    BY <2>4 DEF vars, paneVars, pageVars, formVars, armVars, IInv, Types, PaneInv, Waiting,
       MailInv, OpenInv, CommandInv, Occupied, SaveInv, LoadInv, DisabledState
  <2> QED BY <2>1, <2>2, <2>3, <2>4 DEF Next
<1> QED BY <1>1, <1>2, PTL DEF Spec

\* The close button of the pane is dead for as long as an operation lasts.
THEOREM ClosesAtRest == Spec => []SwappingCoversOperation
<1>1. IInv => SwappingCoversOperation
  BY DEF IInv, PaneInv, SwappingCoversOperation
<1> QED BY <1>1, Inductive, PTL

\* From its opening to the moment the page hears that it is gone, the pane
\* keeps the page from saving and from opening another one.
THEOREM PaneHolds == Spec => []PaneHoldsPage
<1>1. IInv => PaneHoldsPage
  BY DEF IInv, OpenInv, CommandInv, Occupied, SaveInv, PaneHoldsPage
<1> QED BY <1>1, Inductive, PTL

\* A loaded page has the commands its flags call for, though the result of
\* the pane leaves them alone when it comes during a refresh.
THEOREM CommandsRight == Spec => []CommandsFollowFlags
<1>1. IInv => CommandsFollowFlags
  BY DEF IInv, LoadInv, CommandsFollowFlags
<1> QED BY <1>1, Inductive, PTL

\* A page at rest is not dirty because of a swap, although a failed first
\* phase leaves it so until the pane is closed.
THEOREM CleanAtRest == Spec => []CleanWhenClosed
<1>1. IInv => CleanWhenClosed
  BY DEF IInv, LoadInv, OpenInv, CleanWhenClosed, AtRest
<1> QED BY <1>1, Inductive, PTL

-----------------------------------------------------------------------------
(* What the pane and ARM have to do with each other.  The posts carry the  *)
(* number of the opening they come from, and so do the swaps ARM runs: an  *)
(* operation of this opening is the one its pane shows, whatever earlier   *)
(* openings have left behind.                                              *)

Open == pane.step # "closed"
IsPair(p) == p.src \in Slots /\ p.dest \in Sites /\ p.src # p.dest
SamePair(p, q) == p.src = q.src /\ p.dest = q.dest

\* The steps in which the pane has a source and a destination.
Chosen == {"phase2-loading", "phase2", "complete", "phase2-complete"} \cup Executing

\* The values of what ARM holds, and of what the portal knows of the pane.
ArmTypes ==
  /\ role \in [Sites -> {"src", "dest", "none"}]
  /\ inbox \subseteq [op: Operations, src: Slots, dest: Sites, from: Sessions]
  /\ job \in [Sessions -> [state: {"none", "running", "done", "failed"},
                           src: Slots \cup {None}, dest: Sites \cup {None}]]
  /\ done \subseteq Sessions \X Operations
  /\ reply \in {"none", "ok", "error", "location", "noLocation"}
  /\ opens \in 0..MaxOpens /\ overtaken \in BOOLEAN
  /\ Open => opens \in Sessions
  /\ pane.src \in Slots \cup {None} /\ pane.wait # "never" /\ pane.polls <= PollLimit

\* An operation is about two different slots, the first not production.
PairInv ==
  /\ \A p \in inbox : IsPair(p)
  /\ \A o \in Sessions : job[o].state # "none" => IsPair(job[o])
  /\ pane.step \in Chosen => IsPair(pane)

\* What the steps of the pane say of its operation.
StepInv ==
  /\ pane.step \in {"closed", "loading", "phase1", "phase2-loading"} =>
       pane.op = "none" /\ pane.progress = "none"
  /\ pane.step = "phase2" => pane.op \in {"none", "applySlotConfig"}
  /\ pane.wait = "post" => pane.polls = 0
  /\ pane.wait = "poll" => pane.op = "slotsswap" /\ pane.polls < PollLimit

\* A post of this opening that ARM has not handled is the one the pane awaits.
PostInv ==
  \A p \in inbox :
    /\ p.from <= opens
    /\ p.from = opens /\ Open =>
         pane.wait = "post" /\ reply = "none" /\ p.op = pane.op /\ SamePair(p, pane)

\* An answer on its way is to the pane's own post, and true.
ReplyInv ==
  /\ reply # "none" => pane.wait = "post"
  /\ reply = "ok" => pane.op # "slotsswap" /\ <<opens, pane.op>> \in done
  /\ reply \in {"location", "noLocation"} => pane.op = "slotsswap"

\* One swap runs at a time, no other pending swap has a part in it, and the
\* swap of this opening is the one its pane shows.
JobInv ==
  /\ \A o \in Sessions :
       /\ o > opens => job[o].state = "none"
       /\ job[o].state = "done" => <<o, "slotsswap">> \in done
       /\ job[o].state = "running" =>
            /\ target[job[o].src] \in {None, job[o].dest}
            /\ target[job[o].dest] \in {None, job[o].src}
            /\ \A q \in Sessions : job[q].state = "running" => q = o
  /\ Open /\ job[opens].state # "none" => pane.op = "slotsswap" /\ SamePair(job[opens], pane)

\* The slots of a pending swap name each other, as source and destination.
TargetInv ==
  \A s \in Sites :
    /\ target[s] = None <=> role[s] = "none"
    /\ target[s] # None => target[s] # s /\ target[target[s]] = s
    /\ role[s] = "src" => s \in Slots /\ role[target[s]] = "dest"
    /\ role[s] = "dest" => role[target[s]] = "src"

\* The swap the pane shows is pending; so it is from the moment the second
\* phase is certain to come, which is before the pane offers it.
IsPending ==
  /\ target[pane.src] = pane.dest /\ target[pane.dest] = pane.src
  /\ pane.dest = Production \/ role[resourceId] # "dest" => role[pane.src] = "src"

ResumeInv ==
  ~overtaken =>
    /\ pane.step \in {"phase2-loading", "phase2"} => IsPending
    /\ pane.op = "applySlotConfig" /\ reply = "ok" => IsPending

ArmInv ==
  /\ ArmTypes /\ PairInv /\ StepInv /\ PostInv /\ ReplyInv /\ JobInv
  /\ TargetInv /\ ResumeInv /\ SuccessIsTrue

\* A pane that is loading, or closed, has no operation and no slots.
LEMMA Blank ==
  /\ Loading.op = "none" /\ Loading.progress = "none" /\ Loading.src = None
  /\ Loading.polls = 0 /\ Loading.step = "loading" /\ Loading.wait = "no"
  /\ Closed.op = "none" /\ Closed.progress = "none" /\ Closed.src = None
  /\ Closed.polls = 0 /\ Closed.step = "closed" /\ Closed.wait = "no"
BY DEF Loading, Closed

LEMMA ArmInitially == Init => ArmInv
<1> SUFFICES ASSUME Init PROVE ArmInv
  OBVIOUS
<1>0. /\ inbox = {} /\ done = {} /\ reply = "none" /\ pane = Closed /\ opens = 0
      /\ job = [o \in Sessions |-> Idle] /\ resourceId \in Sites /\ overtaken = FALSE
  BY DEF Init, SwapInit
<1>1. TargetInv /\ role \in [Sites -> {"src", "dest", "none"}]
  <2>1. CASE target = [s \in Sites |-> None] /\ role = [s \in Sites |-> "none"]
    BY <2>1 DEF TargetInv
  <2>2. CASE \E p \in Pairs : Pending(p)
    <3>1. PICK p \in Pairs : Pending(p)
      BY <2>2
    <3>2. p.src \in Slots /\ p.dest \in Sites /\ p.src # p.dest /\ p.src \in Sites
      BY DEF Pairs, Sites
    <3>3. \A s \in Sites :
            /\ target[s] = IF s = p.src THEN p.dest ELSE IF s = p.dest THEN p.src ELSE None
            /\ role[s] = IF s = p.src THEN "src" ELSE IF s = p.dest THEN "dest" ELSE "none"
      BY <3>1, <3>2 DEF Pending
    <3>4. None \notin Sites
      BY SwapAssumption
    <3>5. TargetInv
      BY <3>2, <3>3, <3>4 DEF TargetInv
    <3> QED BY <3>1, <3>5 DEF Pending
  <2> QED BY <2>1, <2>2 DEF Init, SwapInit
<1>2. job \in [Sessions -> [state: {"none", "running", "done", "failed"},
                            src: Slots \cup {None}, dest: Sites \cup {None}]]
  BY <1>0 DEF Idle
<1>3. ArmTypes
  <2>1. pane.src = None /\ pane.wait = "no" /\ pane.polls = 0 /\ ~Open
    BY <1>0, Blank DEF Open
  <2>2. 0 \in 0..MaxOpens /\ 0 <= PollLimit
    BY SwapAssumption
  <2> QED BY <1>0, <1>1, <1>2, <2>1, <2>2 DEF ArmTypes
<1>4. PairInv /\ StepInv /\ PostInv /\ ReplyInv /\ JobInv
  BY <1>0, Blank DEF PairInv, StepInv, PostInv, ReplyInv, JobInv, Chosen, Executing, Idle, Open
<1>5. ResumeInv /\ SuccessIsTrue
  BY <1>0, Blank DEF ResumeInv, SuccessIsTrue
<1> QED BY <1>1, <1>3, <1>4, <1>5 DEF ArmInv

\* What it is about stays as it is in a step of the page.
LEMMA ArmUntouched ==
  ASSUME ArmInv, UNCHANGED <<resourceId, armVars, reply, pane, opens, overtaken>>
  PROVE  ArmInv'
BY DEF ArmInv, ArmTypes, PairInv, IsPair, StepInv, PostInv, SamePair, ReplyInv, JobInv,
   TargetInv, ResumeInv, IsPending, SuccessIsTrue, Open, armVars

\* The pane is opened: nothing of what it finds is its own.
LEMMA ArmOpens ==
  ASSUME IInv, ArmInv, OpenPane, UNCHANGED <<resourceId, armVars, overtaken>>
  PROVE  ArmInv'
<1>1. /\ pane' = Loading /\ reply' = "none" /\ opens' = opens + 1
      /\ opens \in Nat /\ opens' \in 1..MaxOpens
  BY SwapAssumption DEF OpenPane, ArmInv, ArmTypes
<1>2. ArmTypes'
  BY <1>1, Blank, SwapAssumption DEF ArmInv, ArmTypes, Sessions, armVars
<1>3. PairInv' /\ StepInv' /\ ReplyInv' /\ TargetInv'
  BY <1>1, Blank DEF ArmInv, PairInv, IsPair, Chosen, Executing, StepInv, ReplyInv,
     TargetInv, armVars
<1>4. PostInv'
  <2>1. \A p \in inbox : p.from \in Nat /\ p.from <= opens
    BY DEF ArmInv, ArmTypes, PostInv, Sessions
  <2> QED BY <1>1, <2>1 DEF PostInv, armVars
<1>5. JobInv'
  <2>1. opens' > opens /\ opens' \in Sessions
    BY <1>1 DEF Sessions
  <2>2. \A o \in Sessions : o > opens' => o > opens
    BY <1>1 DEF Sessions
  <2> QED BY <2>1, <2>2 DEF ArmInv, JobInv, armVars
<1>6. ResumeInv' /\ SuccessIsTrue'
  BY <1>1, Blank DEF ResumeInv, SuccessIsTrue
<1> QED BY <1>2, <1>3, <1>4, <1>5, <1>6 DEF ArmInv

\* The pane is gone, and with it whatever awaited an answer.
LEMMA ArmCloses ==
  ASSUME IInv, ArmInv, Open, pane' = Closed, reply' = "none",
         UNCHANGED <<resourceId, armVars, opens, overtaken>>
  PROVE  ArmInv'
<1>1. ArmTypes'
  BY Blank, SwapAssumption DEF ArmInv, ArmTypes, Open, armVars
<1>2. PairInv' /\ StepInv' /\ ReplyInv' /\ TargetInv'
  BY Blank DEF ArmInv, PairInv, IsPair, Chosen, Executing, StepInv, ReplyInv,
     TargetInv, armVars
<1>3. PostInv' /\ JobInv'
  BY Blank DEF ArmInv, PostInv, JobInv, Open, armVars
<1>4. ResumeInv' /\ SuccessIsTrue'
  BY Blank DEF ResumeInv, SuccessIsTrue
<1> QED BY <1>1, <1>2, <1>3, <1>4 DEF ArmInv

\* Nothing of this opening is under way while the pane waits for nothing.
LEMMA NothingPosted ==
  ASSUME ArmInv, Open, pane.wait = "no" \/ pane.wait = "poll" \/ reply # "none"
  PROVE  \A p \in inbox : p.from # opens
BY DEF ArmInv, PostInv

\* A pane that has no swap of its own shows something else.
LEMMA ArmShows ==
  ASSUME IInv, ArmInv, pane.wait = "no", pane.op # "slotsswap",
         pane' \in Panes, Open, Open', pane'.wait = "no", pane'.op = pane.op,
         pane'.progress = pane.progress, pane'.polls = pane.polls,
         pane'.src \in Slots \cup {None}, pane'.step \in Chosen => IsPair(pane'),
         StepInv', ResumeInv', overtaken' \in BOOLEAN,
         UNCHANGED <<resourceId, armVars, reply, opens>>
  PROVE  ArmInv'
<1>1. ArmTypes'
  BY DEF ArmInv, ArmTypes, armVars
<1>2. PairInv' /\ TargetInv'
  BY DEF ArmInv, PairInv, IsPair, TargetInv, armVars
<1>3. PostInv' /\ ReplyInv'
  BY NothingPosted DEF ArmInv, PostInv, ReplyInv, armVars
<1>4. JobInv' /\ SuccessIsTrue'
  BY DEF ArmInv, JobInv, SuccessIsTrue, armVars
<1> QED BY <1>1, <1>2, <1>3, <1>4 DEF ArmInv

\* An operation starts: it is the only post of this opening.
LEMMA ArmStarts ==
  ASSUME IInv, ArmInv, pane.wait = "no", pane.op # "slotsswap", Open,
         NEW op \in Operations, NEW p, IsPair(p),
         NEW step \in Executing, NEW phases \in PhaseStatus \X PhaseStatus,
         Start(op, p, step, phases)
  PROVE  ArmInv'
<1> DEFINE post == [op |-> op, src |-> p.src, dest |-> p.dest, from |-> opens]
<1>1. /\ pane'.step = step /\ pane'.src = p.src /\ pane'.dest = p.dest /\ pane'.op = op
      /\ pane'.wait = "post" /\ pane'.polls = 0 /\ pane'.progress = "spinner"
  BY DEF IInv, Types, Start, Panes
<1>2. /\ inbox' = inbox \cup {post} /\ reply' = "none"
      /\ UNCHANGED <<resourceId, target, role, job, done, opens, overtaken>>
  BY DEF Start, history
<1>3. opens \in Sessions /\ step # "closed" /\ PollLimit \in Nat
  BY SwapAssumption DEF ArmInv, ArmTypes, Executing
<1>4. post \in [op: Operations, src: Slots, dest: Sites, from: Sessions] /\ IsPair(post)
  BY <1>3 DEF IsPair
<1>5. ArmTypes'
  BY <1>1, <1>2, <1>3, <1>4 DEF ArmInv, ArmTypes, IsPair
<1>6. PairInv' /\ TargetInv'
  BY <1>1, <1>2, <1>4 DEF ArmInv, PairInv, IsPair, TargetInv
<1>7. StepInv' /\ ReplyInv' /\ SuccessIsTrue'
  BY <1>1, <1>2 DEF StepInv, ReplyInv, SuccessIsTrue, Executing
<1>8. PostInv'
  <2>1. \A q \in inbox : q.from <= opens /\ q.from # opens
    BY NothingPosted DEF ArmInv, PostInv
  <2>2. opens <= opens
    BY <1>3 DEF Sessions
  <2> QED BY <1>1, <1>2, <2>1, <2>2 DEF PostInv, SamePair
<1>9. JobInv'
  BY <1>1, <1>2, <1>3 DEF ArmInv, JobInv, Open
<1>10. ResumeInv'
  BY <1>1, <1>2 DEF ResumeInv, Executing
<1> QED BY <1>5, <1>6, <1>7, <1>8, <1>9, <1>10 DEF ArmInv

\* An operation ends for the pane, which says of it what ARM has done.
LEMMA ArmFinishes ==
  ASSUME IInv, ArmInv, Open, pane.wait = "poll" \/ reply # "none",
         NEW p \in Panes, p.step \in Chosen, SamePair(p, pane), p.op = pane.op,
         p.polls = pane.polls, p.progress # "none", Finish(p),
         p.step = "phase2" => p.op = "applySlotConfig" /\ reply = "ok",
         p.progress = "success" => <<opens, pane.op>> \in done,
         p.step # "phase2-loading", IsPair(pane)
  PROVE  ArmInv'
<1>1. /\ pane'.step = p.step /\ pane'.src = pane.src /\ pane'.dest = pane.dest
      /\ pane'.op = pane.op /\ pane'.wait = "no" /\ pane'.polls = pane.polls
      /\ pane'.progress = p.progress
  BY DEF Finish, Panes, SamePair
<1>2. reply' = "none" /\ UNCHANGED <<resourceId, armVars, opens, overtaken>>
  BY DEF Finish, history
<1>3. ArmTypes'
  BY <1>1, <1>2 DEF ArmInv, ArmTypes, armVars, Open
<1>4. PairInv' /\ TargetInv'
  BY <1>1, <1>2 DEF ArmInv, PairInv, IsPair, TargetInv, armVars
<1>5. StepInv' /\ ReplyInv'
  BY <1>1, <1>2 DEF StepInv, ReplyInv, Chosen, Executing
<1>6. PostInv'
  BY <1>2, NothingPosted DEF ArmInv, PostInv, armVars
<1>7. JobInv'
  BY <1>1, <1>2 DEF ArmInv, JobInv, Open, SamePair, armVars
<1>8. ResumeInv'
  BY <1>1, <1>2 DEF ArmInv, ResumeInv, IsPending, armVars
<1>9. SuccessIsTrue'
  BY <1>1, <1>2 DEF SuccessIsTrue, armVars
<1> QED BY <1>3, <1>4, <1>5, <1>6, <1>7, <1>8, <1>9 DEF ArmInv

\* The pane goes on to poll, or to poll again.
LEMMA ArmPolled ==
  ASSUME IInv, ArmInv, Waiting, pane.wait = "poll" \/ reply = "location",
         NEW polls \in 0..PollLimit, polls < PollLimit,
         pane' = [pane EXCEPT !.wait = "poll", !.polls = polls], reply' = "none",
         UNCHANGED <<resourceId, armVars, opens, overtaken>>
  PROVE  ArmInv'
<1>1. /\ pane'.step = pane.step /\ pane'.src = pane.src /\ pane'.dest = pane.dest
      /\ pane'.op = pane.op /\ pane'.wait = "poll" /\ pane'.polls = polls
      /\ pane'.progress = pane.progress /\ polls \in Nat /\ PollLimit \in Nat
  BY SwapAssumption DEF IInv, Types, Panes
<1>2. pane.op = "slotsswap" /\ Open
  BY WaitingIsOpen DEF ArmInv, ReplyInv, StepInv, Waiting, Open
<1>3. ArmTypes'
  BY <1>1, <1>2 DEF ArmInv, ArmTypes, armVars, Open
<1>4. PairInv' /\ TargetInv'
  BY <1>1 DEF ArmInv, PairInv, IsPair, TargetInv, armVars
<1>5. StepInv' /\ ReplyInv'
  BY <1>1, <1>2 DEF ArmInv, StepInv, ReplyInv
<1>6. PostInv'
  BY <1>1, <1>2, NothingPosted DEF ArmInv, PostInv, armVars
<1>7. JobInv'
  BY <1>1, <1>2 DEF ArmInv, JobInv, Open, SamePair, armVars
<1>8. ResumeInv' /\ SuccessIsTrue'
  BY <1>1, <1>2 DEF ArmInv, ResumeInv, IsPending, SuccessIsTrue, armVars
<1> QED BY <1>3, <1>4, <1>5, <1>6, <1>7, <1>8 DEF ArmInv

\* What the pane shows while an operation runs is an operation on two slots.
LEMMA Awaits ==
  ASSUME IInv, ArmInv, Waiting
  PROVE  Open /\ pane.step \in Executing /\ pane.step \in Chosen /\ IsPair(pane)
BY DEF IInv, PaneInv, ArmInv, PairInv, Open, Chosen, Executing

\* The end of a swap, with an outcome that claims no more than ARM has done.
LEMMA ArmSwapFinishes ==
  ASSUME IInv, ArmInv, Waiting, pane.wait = "poll" \/ reply # "none",
         NEW progress \in {"success", "warning", "error"}, SwapFinished(progress),
         progress = "success" => <<opens, pane.op>> \in done
  PROVE  ArmInv'
<1> DEFINE p == Completed([pane EXCEPT !.progress = progress],
                  pane.step = "phase2-executing", progress = "success")
<1>1. /\ p \in Panes /\ p.step \in {"complete", "phase2-complete"} /\ SamePair(p, pane)
      /\ p.op = pane.op /\ p.polls = pane.polls /\ p.progress = progress
  <2>1. PICK step \in {"complete", "phase2-complete"}, phases \in PhaseStatus \X PhaseStatus :
          p = [pane EXCEPT !.progress = progress, !.step = step, !.phases = phases]
    BY DEF Completed, PhaseStatus, IInv, Types, Panes
  <2>2. pane \in Panes /\ progress \in Progress /\ step \in Steps
    BY DEF IInv, Types, Progress, Steps
  <2> HIDE DEF p
  <2> QED BY <2>1, <2>2 DEF Panes, SamePair
<1> HIDE DEF p
<1>2. Finish(p)
  BY DEF SwapFinished, p
<1>3. p.step \in Chosen /\ p.step \notin {"phase2", "phase2-loading"}
  BY <1>1 DEF Chosen
<1> QED BY <1>1, <1>2, <1>3, Awaits, ArmFinishes

LEMMA PaneStepArm ==
  ASSUME IInv, ArmInv, PaneNext
  PROVE  ArmInv'
<1>0. pane \in Panes /\ resourceId \in Sites /\ target \in [Sites -> Targets]
  BY DEF IInv, Types
<1> USE DEF PaneNext
<1>1. CASE PaneLoaded
  <2>1. /\ pane.step = "loading" /\ pane.wait = "no" /\ pane.op = "none"
        /\ pane.progress = "none"
    BY <1>1 DEF PaneLoaded, IInv, PaneInv, Waiting, Executing, ArmInv, StepInv
  <2>2. /\ overtaken' = FALSE
        /\ UNCHANGED <<resourceId, armVars, reply, opens, target, role>>
    BY <1>1 DEF PaneLoaded, armVars
  <2>3. PICK siteOk \in BOOLEAN, t \in {target[resourceId], None} :
          /\ t # None => resourceId \in Sites /\ t = target[resourceId]
          /\ \/ pane' = [pane EXCEPT !.failed = TRUE]
             \/ /\ t # None
                /\ pane' = [pane EXCEPT !.step = "phase2-loading",
                              !.phases = <<"done", "default">>,
                              !.src = ResumedPair(t).src, !.dest = ResumedPair(t).dest]
             \/ pane' = [pane EXCEPT !.step = "phase1", !.siteLoaded = siteOk,
                           !.phases = <<"current", "default">>,
                           !.executeButtonDisabled = FALSE]
    BY <1>0, <1>1 DEF PaneLoaded
  <2> DEFINE pair == ResumedPair(t)
  <2>4. ASSUME t # None
        PROVE  /\ IsPair(pair) /\ pair.src \in Sites
               /\ target[pair.src] = pair.dest /\ target[pair.dest] = pair.src
               /\ pair.dest = Production \/ role[resourceId] # "dest" =>
                    role[pair.src] = "src"
    <3>1. /\ t = target[resourceId] /\ t \in Sites /\ t # resourceId
          /\ target[t] = resourceId
      BY <1>0, <2>3, <2>4 DEF ArmInv, TargetInv, Targets
    <3>2. role[resourceId] # "none" /\ role[t] # "none"
          /\ role \in [Sites -> {"src", "dest", "none"}]
      BY <1>0, <2>4, <3>1, SwapAssumption DEF ArmInv, TargetInv, ArmTypes
    <3>3. CASE resourceId = Production
      <4>1. pair.src = t /\ pair.dest = resourceId
        BY <3>3 DEF ResumedPair
      <4>2. t \in Slots
        BY <3>1, <3>3 DEF Sites
      <4>3. role[resourceId] = "dest" /\ role[t] = "src"
        BY <1>0, <3>1, <3>2, <3>3, SwapAssumption DEF ArmInv, TargetInv
      <4> QED BY <1>0, <3>1, <4>1, <4>2, <4>3 DEF IsPair
    <3>4. CASE resourceId # Production
      <4>1. pair.src = resourceId /\ pair.dest = t
        BY <3>4 DEF ResumedPair
      <4>2. resourceId \in Slots
        BY <1>0, <3>4 DEF Sites
      <4>3. t = Production => role[resourceId] = "src"
        <5>1. t = Production => role[t] = "dest"
          BY <3>1, <3>2, SwapAssumption DEF ArmInv, TargetInv
        <5> QED BY <3>1, <5>1 DEF ArmInv, TargetInv
      <4> QED BY <1>0, <3>1, <3>2, <4>1, <4>2, <4>3 DEF IsPair
    <3> QED BY <3>3, <3>4
  <2> HIDE DEF pair
  <2>5. /\ <<"done", "default">> \in PhaseStatus \X PhaseStatus
        /\ <<"current", "default">> \in PhaseStatus \X PhaseStatus
    BY DEF PhaseStatus
  <2>6. CASE pane' = [pane EXCEPT !.failed = TRUE]
    <3>1. /\ pane' \in Panes /\ pane'.step = "loading" /\ pane'.wait = "no"
          /\ pane'.op = "none" /\ pane'.progress = "none" /\ pane'.polls = pane.polls
          /\ pane'.src = pane.src
      BY <1>0, <2>1, <2>6 DEF Panes
    <3>2. StepInv' /\ ResumeInv' /\ Open /\ Open' /\ pane'.step \notin Chosen
          /\ pane'.src \in Slots \cup {None}
      BY <2>1, <3>1 DEF StepInv, ResumeInv, Open, Chosen, Executing, ArmInv, ArmTypes
    <3> QED BY <2>1, <2>2, <3>1, <3>2, ArmShows
  <2>7. CASE /\ t # None
             /\ pane' = [pane EXCEPT !.step = "phase2-loading",
                           !.phases = <<"done", "default">>,
                           !.src = ResumedPair(t).src, !.dest = ResumedPair(t).dest]
    <3>0. /\ t # None
          /\ pane' = [pane EXCEPT !.step = "phase2-loading",
                        !.phases = <<"done", "default">>, !.src = pair.src, !.dest = pair.dest]
          /\ pair.src \in Targets /\ pair.dest \in Targets
      BY <2>4, <2>7 DEF pair, IsPair, Targets
    <3>1. /\ pane' \in Panes /\ pane'.step = "phase2-loading" /\ pane'.wait = "no"
          /\ pane'.op = "none" /\ pane'.progress = "none" /\ pane'.polls = pane.polls
          /\ pane'.src = pair.src /\ pane'.dest = pair.dest
      BY <1>0, <2>1, <2>5, <3>0 DEF Panes, Steps
    <3>2. IsPair(pane') /\ pane'.src \in Slots \cup {None} /\ IsPending'
      BY <2>2, <2>4, <2>7, <3>1 DEF IsPair, IsPending
    <3>3. StepInv' /\ ResumeInv' /\ Open /\ Open'
      BY <2>1, <3>1, <3>2 DEF StepInv, ResumeInv, Open
    <3> QED BY <2>1, <2>2, <3>1, <3>2, <3>3, ArmShows
  <2>8. CASE pane' = [pane EXCEPT !.step = "phase1", !.siteLoaded = siteOk,
                        !.phases = <<"current", "default">>,
                        !.executeButtonDisabled = FALSE]
    <3>1. /\ pane' \in Panes /\ pane'.step = "phase1" /\ pane'.wait = "no"
          /\ pane'.op = "none" /\ pane'.progress = "none" /\ pane'.polls = pane.polls
          /\ pane'.src = pane.src
      BY <1>0, <2>1, <2>5, <2>8 DEF Panes, Steps
    <3>2. StepInv' /\ ResumeInv' /\ Open /\ Open' /\ pane'.step \notin Chosen
          /\ pane'.src \in Slots \cup {None}
      BY <2>1, <3>1 DEF StepInv, ResumeInv, Open, Chosen, Executing, ArmInv, ArmTypes
    <3> QED BY <2>1, <2>2, <3>1, <3>2, ArmShows
  <2> QED BY <2>3, <2>6, <2>7, <2>8
<1>2. CASE PermissionsKnown
  <2>1. /\ pane.step = "phase2-loading" /\ pane.wait = "no" /\ pane.op = "none"
        /\ pane.progress = "none" /\ IsPair(pane)
    BY <1>2 DEF PermissionsKnown, IInv, PaneInv, Waiting, Executing, ArmInv, StepInv,
       PairInv, Chosen
  <2>2. /\ UNCHANGED <<resourceId, armVars, reply, opens, target, role, overtaken>>
    BY <1>2 DEF PermissionsKnown, armVars, history
  <2>3. /\ pane' \in Panes /\ pane'.step \in {"phase2", "phase2-loading"}
        /\ pane'.wait = "no" /\ pane'.op = "none" /\ pane'.progress = "none"
        /\ pane'.polls = pane.polls /\ pane'.src = pane.src /\ pane'.dest = pane.dest
    <3>1. <<"done", "current">> \in PhaseStatus \X PhaseStatus
      BY DEF PhaseStatus
    <3> QED BY <1>0, <1>2, <2>1, <3>1 DEF PermissionsKnown, Phase2, Panes, Steps
  <2>4. ResumeInv'
    BY <2>1, <2>2, <2>3 DEF ArmInv, ResumeInv, IsPending
  <2>5. StepInv' /\ Open /\ Open' /\ IsPair(pane') /\ pane'.src \in Slots \cup {None}
    BY <2>1, <2>3 DEF StepInv, Open, IsPair
  <2>6. overtaken' \in BOOLEAN
    BY <2>2 DEF ArmInv, ArmTypes
  <2> QED BY <2>1, <2>2, <2>3, <2>4, <2>5, <2>6, ArmShows
<1>3. CASE ExecutePhase1
  <2>1. PICK p \in Pairs, op \in {"slotsswap", "applySlotConfig"} :
          Start(op, p, "phase1-executing", <<"running", "default">>)
    BY <1>3 DEF ExecutePhase1, Choices
  <2>2. IsPair(p) /\ op \in Operations /\ <<"running", "default">> \in PhaseStatus \X PhaseStatus
    BY DEF Pairs, IsPair, Operations, PhaseStatus
  <2>3. pane.wait = "no" /\ pane.op # "slotsswap" /\ Open
    BY <1>3 DEF ExecutePhase1, IInv, PaneInv, Waiting, Executing, ArmInv, StepInv, Open
  <2> QED BY <2>1, <2>2, <2>3, ArmStarts DEF Executing
<1>4. CASE ExecutePhase2
  <2> DEFINE p == [src |-> pane.src, dest |-> pane.dest]
  <2>1. PICK op \in {"slotsswap", "resetSlotConfig"} :
          Start(op, p, "phase2-executing", <<"done", "running">>)
    BY <1>4 DEF ExecutePhase2
  <2>2. IsPair(p) /\ op \in Operations /\ <<"done", "running">> \in PhaseStatus \X PhaseStatus
    BY <1>4 DEF ExecutePhase2, ArmInv, PairInv, Chosen, IsPair, Operations, PhaseStatus
  <2>3. pane.wait = "no" /\ pane.op # "slotsswap" /\ Open
    BY <1>4 DEF ExecutePhase2, IInv, PaneInv, Waiting, Executing, ArmInv, StepInv, Open
  <2> HIDE DEF p
  <2> QED BY <2>1, <2>2, <2>3, ArmStarts DEF Executing
<1>5. CASE ApplyAnswered
  <2> DEFINE failed == [pane EXCEPT !.progress = "error", !.phases = <<"failed", "null">>]
             applied == Phase2([pane EXCEPT !.progress = "success"])
  <2>1. /\ pane.op = "applySlotConfig" /\ reply # "none" /\ Waiting
    BY <1>5 DEF ApplyAnswered, Waiting
  <2>2. CASE reply = "error"
    <3>1. /\ failed \in Panes /\ failed.step = pane.step /\ SamePair(failed, pane)
          /\ failed.op = pane.op /\ failed.polls = pane.polls /\ failed.progress = "error"
      BY <1>0 DEF Panes, Progress, PhaseStatus, SamePair
    <3>2. Finish(failed)
      BY <1>5, <2>2 DEF ApplyAnswered
    <3>3. pane.step \notin {"phase2", "phase2-loading"}
      BY <2>1, Awaits DEF Executing
    <3> HIDE DEF failed
    <3> QED BY <2>1, <3>1, <3>2, <3>3, Awaits, ArmFinishes
  <2>3. CASE reply # "error"
    <3>1. /\ applied \in Panes /\ applied.step = "phase2" /\ SamePair(applied, pane)
          /\ applied.op = pane.op /\ applied.polls = pane.polls
          /\ applied.progress = "success"
      BY <1>0 DEF Panes, Progress, PhaseStatus, Phase2, Steps, SamePair
    <3>2. Finish(applied)
      BY <1>5, <2>3 DEF ApplyAnswered
    <3>3. reply = "ok" /\ <<opens, pane.op>> \in done
      BY <2>1, <2>3 DEF ArmInv, ArmTypes, ReplyInv
    <3>4. applied.step \in Chosen /\ applied.step # "phase2-loading"
      BY <3>1 DEF Chosen
    <3> HIDE DEF applied
    <3> QED BY <2>1, <3>1, <3>2, <3>3, <3>4, Awaits, ArmFinishes
  <2> QED BY <2>2, <2>3
<1>6. CASE ResetAnswered
  <2>1. /\ pane.op = "resetSlotConfig" /\ reply # "none" /\ Waiting
    BY <1>6 DEF ResetAnswered, Waiting
  <2> DEFINE success == reply # "error"
             progress == IF success THEN "success" ELSE "error"
             p == Completed([pane EXCEPT !.progress = progress], TRUE, success)
  <2>2. Finish(p)
    BY <1>6 DEF ResetAnswered
  <2>3. /\ p \in Panes /\ p.step = "phase2-complete" /\ SamePair(p, pane)
        /\ p.op = pane.op /\ p.polls = pane.polls /\ p.progress = progress
    BY <1>0 DEF Completed, Panes, PhaseStatus, Steps, Progress, SamePair
  <2>4. progress = "success" => <<opens, pane.op>> \in done
    BY <2>1 DEF ArmInv, ArmTypes, ReplyInv
  <2>5. p.step \in Chosen /\ p.step \notin {"phase2", "phase2-loading"} /\ progress # "none"
    BY <2>3 DEF Chosen
  <2> HIDE DEF p, progress
  <2> QED BY <2>1, <2>2, <2>3, <2>4, <2>5, Awaits, ArmFinishes
<1> HIDE DEF PaneNext
<1>7. CASE SwapAnswered
  <2>1. pane.wait = "post" /\ pane.op = "slotsswap" /\ reply # "none" /\ Waiting
    BY <1>7 DEF SwapAnswered, Waiting
  <2>2. CASE reply = "location"
    <3>1. pane.polls = 0 /\ 0 \in 0..PollLimit /\ 0 < PollLimit
      BY <2>1, SwapAssumption DEF ArmInv, StepInv
    <3>2. pane' = [pane EXCEPT !.wait = "poll", !.polls = 0]
      BY <1>0, <1>7, <2>2, <3>1 DEF SwapAnswered, Panes
    <3>3. reply' = "none" /\ UNCHANGED <<resourceId, armVars, opens, overtaken>>
      BY <1>7, <2>2 DEF SwapAnswered, history
    <3> QED BY <2>1, <2>2, <3>1, <3>2, <3>3, ArmPolled
  <2>3. CASE reply # "location"
    BY <1>7, <2>1, <2>3, ArmSwapFinishes DEF SwapAnswered
  <2> QED BY <2>2, <2>3
<1>8. CASE Poll
  <2> DEFINE polls == pane.polls + 1
  <2>1. PICK status \in Statuses :
          \/ SwapFinished(Outcome(status))
          \/ /\ ~Passes(status, polls)
             /\ pane' = [pane EXCEPT !.polls = polls,
                           !.wait = IF Enough(polls) THEN "never" ELSE "poll"]
             /\ UNCHANGED <<resourceId, armVars, reply, opens, mail, history>>
    BY <1>8 DEF Poll
  <2>2. pane.wait = "poll" /\ Waiting /\ pane.polls < PollLimit /\ pane.op = "slotsswap"
    BY <1>8 DEF Poll, Waiting, ArmInv, StepInv
  <2>3. CASE SwapFinished(Outcome(status))
    <3>1. Outcome(status) \in {"success", "warning", "error"}
      BY DEF Outcome
    <3>2. Outcome(status) = "success" => job[opens].state = "done"
      BY DEF Outcome, Statuses
    <3>3. Outcome(status) = "success" => <<opens, pane.op>> \in done
      BY <2>2, <3>2, Awaits DEF ArmInv, JobInv, ArmTypes
    <3> QED BY <2>2, <2>3, <3>1, <3>3, ArmSwapFinishes
  <2>4. CASE /\ ~Passes(status, polls)
             /\ pane' = [pane EXCEPT !.polls = polls,
                           !.wait = IF Enough(polls) THEN "never" ELSE "poll"]
             /\ UNCHANGED <<resourceId, armVars, reply, opens, mail, history>>
    <3>1. ~Enough(polls) /\ polls # PollLimit
      BY <2>4 DEF Passes, Enough
    <3>2. polls \in 0..PollLimit /\ polls < PollLimit
      BY <1>0, <2>2, <3>1, SwapAssumption DEF Panes
    <3> HIDE DEF polls
    <3>3. pane' = [pane EXCEPT !.wait = "poll", !.polls = polls]
      BY <1>0, <2>4, <3>1 DEF Panes
    <3>4. reply' = "none" /\ UNCHANGED <<resourceId, armVars, opens, overtaken>>
      BY <2>2, <2>4 DEF ArmInv, ReplyInv, history
    <3> QED BY <2>2, <3>2, <3>3, <3>4, ArmPolled
  <2> QED BY <2>1, <2>3, <2>4
<1>9. CASE ClosePanel \/ Dismiss
  BY <1>9, ArmCloses DEF ClosePanel, Dismiss, history, Open
<1> QED BY <1>1, <1>2, <1>3, <1>4, <1>5, <1>6, <1>7, <1>8, <1>9 DEF PaneNext

\* Two slots become a pending swap, or are one no more.
LEMMA PairChanges ==
  ASSUME IInv, ArmInv, NEW p, IsPair(p), target[p.src] \in {None, p.dest},
         target[p.dest] \in {None, p.src},
         \/ SetPair(p, p.dest, p.src, "src", "dest")
         \/ SetPair(p, None, None, "none", "none")
  PROVE  /\ TargetInv' /\ role' \in [Sites -> {"src", "dest", "none"}]
         /\ \A s \in Sites : s \notin {p.src, p.dest} => target'[s] = target[s]
<1>1. /\ p.src \in Slots /\ p.src \in Sites /\ p.dest \in Sites /\ p.src # p.dest
      /\ None \notin Sites
      /\ target \in [Sites -> Targets] /\ role \in [Sites -> {"src", "dest", "none"}]
      /\ \A s \in Sites : target[s] \in Sites \/ target[s] = None
  BY SwapAssumption DEF IsPair, Sites, IInv, Types, ArmInv, ArmTypes, Targets
<1>2. \A s \in Sites : s \notin {p.src, p.dest} =>
        target[s] \notin {p.src, p.dest}
  BY <1>1 DEF ArmInv, TargetInv
<1>3. CASE SetPair(p, p.dest, p.src, "src", "dest")
  <2>1. /\ target' = [target EXCEPT ![p.src] = p.dest, ![p.dest] = p.src]
        /\ role' = [role EXCEPT ![p.src] = "src", ![p.dest] = "dest"]
    BY <1>3 DEF SetPair
  <2>2. /\ target'[p.src] = p.dest /\ target'[p.dest] = p.src
        /\ role'[p.src] = "src" /\ role'[p.dest] = "dest"
        /\ \A s \in Sites : s \notin {p.src, p.dest} =>
             target'[s] = target[s] /\ role'[s] = role[s]
        /\ role' \in [Sites -> {"src", "dest", "none"}]
    BY <1>1, <2>1
  <2>3. TargetInv'
    BY <1>1, <1>2, <2>2 DEF ArmInv, TargetInv
  <2> QED BY <2>2, <2>3
<1>4. CASE SetPair(p, None, None, "none", "none")
  <2>1. /\ target' = [target EXCEPT ![p.src] = None, ![p.dest] = None]
        /\ role' = [role EXCEPT ![p.src] = "none", ![p.dest] = "none"]
    BY <1>4 DEF SetPair
  <2>2. /\ target'[p.src] = None /\ target'[p.dest] = None
        /\ role'[p.src] = "none" /\ role'[p.dest] = "none"
        /\ \A s \in Sites : s \notin {p.src, p.dest} =>
             target'[s] = target[s] /\ role'[s] = role[s]
        /\ role' \in [Sites -> {"src", "dest", "none"}]
    BY <1>1, <2>1
  <2>3. TargetInv'
    BY <1>1, <1>2, <2>2 DEF ArmInv, TargetInv
  <2> QED BY <2>2, <2>3
<1> QED BY <1>3, <1>4

\* ARM takes a post out of its inbox and answers it.  If it is one of this
\* opening, the pane is waiting for that answer and for no other.
LEMMA Answers ==
  ASSUME IInv, ArmInv, NEW p \in inbox, inbox' = inbox \ {p}, NEW r, Answer(p, r),
         r \in {"ok", "error", "location", "noLocation"},
         UNCHANGED <<pane, resourceId, opens>>
  PROVE  /\ PostInv' /\ reply' \in {"none", "ok", "error", "location", "noLocation"}
         /\ reply' # "none" => reply # "none" \/ pane.wait = "post"
         /\ p.from = opens /\ Open =>
              /\ reply' = r /\ p.op = pane.op /\ SamePair(p, pane) /\ pane.wait = "post"
         /\ p.from # opens \/ ~Open => reply' = reply
<1>1. p.from = opens /\ Open => p.op = pane.op /\ SamePair(p, pane) /\ pane.wait = "post"
  BY DEF ArmInv, PostInv
<1>2. /\ p.from = opens /\ Open => reply' = r
      /\ p.from # opens \/ ~Open => reply' = reply
  BY <1>1, WaitingIsOpen DEF Answer, Waiting, Open
<1>3. ASSUME NEW q \in inbox', q.from = opens, Open
      PROVE  /\ pane.wait = "post" /\ reply' = "none" /\ q.op = pane.op /\ SamePair(q, pane)
  <2>1. /\ q \in inbox /\ q # p /\ q.op = pane.op /\ SamePair(q, pane) /\ reply = "none"
        /\ pane.wait = "post"
    BY <1>3 DEF ArmInv, PostInv
  <2>2. ASSUME p.from = opens PROVE FALSE
    <3>1. p.op = q.op /\ p.src = q.src /\ p.dest = q.dest /\ p.from = q.from
      BY <1>1, <1>3, <2>1, <2>2 DEF SamePair
    <3> QED BY <2>1, <3>1 DEF ArmInv, ArmTypes
  <2> QED BY <1>2, <2>1, <2>2
<1>4. PostInv'
  BY <1>3 DEF ArmInv, PostInv, SamePair, Open
<1> QED BY <1>1, <1>2, <1>4 DEF ArmInv, ArmTypes

\* What is the same after every step of ARM.
LEMMA ArmKeeps ==
  ASSUME IInv, ArmInv, ArmNext
  PROVE  /\ UNCHANGED <<pane, resourceId, opens>> /\ inbox' \subseteq inbox
         /\ StepInv' /\ done \subseteq done' /\ SuccessIsTrue'
<1>1. /\ UNCHANGED <<pane, resourceId, opens>> /\ inbox' \subseteq inbox
      /\ done \subseteq done'
  BY DEF ArmNext, ArmRefuses, ArmConfigures, ArmStartsSwap, ArmEndsSwap
<1> QED BY <1>1 DEF ArmInv, StepInv, SuccessIsTrue

LEMMA ArmRefusesArm ==
  ASSUME IInv, ArmInv, ArmRefuses
  PROVE  ArmInv'
<1>1. PICK p \in inbox : inbox' = inbox \ {p} /\ Answer(p, "error")
  BY DEF ArmRefuses
<1>2. UNCHANGED <<target, role, job, done, overtaken, pane, resourceId, opens>>
  BY DEF ArmRefuses, history
<1>3. /\ PostInv' /\ reply' \in {"none", "ok", "error", "location", "noLocation"}
      /\ reply' = reply \/ (pane.wait = "post" /\ reply' = "error")
  BY <1>1, <1>2, Answers
<1>4. ArmTypes' /\ PairInv' /\ TargetInv' /\ JobInv'
  BY <1>1, <1>2, <1>3 DEF ArmInv, ArmTypes, PairInv, IsPair, TargetInv, JobInv, SamePair, Open
<1>5. ReplyInv' /\ ResumeInv'
  BY <1>2, <1>3 DEF ArmInv, ReplyInv, ResumeInv, IsPending
<1> QED BY <1>3, <1>4, <1>5, ArmKeeps DEF ArmInv, ArmNext

LEMMA ArmConfiguresArm ==
  ASSUME IInv, ArmInv, ArmConfigures
  PROVE  ArmInv'
<1>1. PICK p \in inbox, r \in {"ok", "error"} :
        /\ Takes(p) /\ p.op # "slotsswap" /\ inbox' = inbox \ {p}
        /\ IF p.op = "applySlotConfig" THEN SetPair(p, p.dest, p.src, "src", "dest")
                                       ELSE SetPair(p, None, None, "none", "none")
        /\ done' = done \cup {<<p.from, p.op>>}
        /\ Answer(p, r) /\ Changes(p.from)
  BY DEF ArmConfigures
<1>2. UNCHANGED <<job, pane, resourceId, opens>>
  BY DEF ArmConfigures
<1>3. /\ IsPair(p) /\ p.op \in Operations /\ p.from \in Sessions
      /\ target[p.src] \in {None, p.dest} /\ target[p.dest] \in {None, p.src}
  BY <1>1 DEF ArmInv, ArmTypes, PairInv, Takes
<1>4. TargetInv' /\ role' \in [Sites -> {"src", "dest", "none"}]
  BY <1>1, <1>3, PairChanges
<1>5. /\ PostInv' /\ reply' \in {"none", "ok", "error", "location", "noLocation"}
      /\ p.from = opens /\ Open =>
           /\ reply' = r /\ p.op = pane.op /\ SamePair(p, pane) /\ pane.wait = "post"
      /\ p.from # opens \/ ~Open => reply' = reply
  BY <1>1, <1>2, Answers
<1>6. ArmTypes' /\ PairInv'
  BY <1>1, <1>2, <1>3, <1>4, <1>5 DEF ArmInv, ArmTypes, PairInv, IsPair, Changes, Open
<1>7. ReplyInv'
  BY <1>1, <1>2, <1>5 DEF ArmInv, ReplyInv
<1>8. JobInv'
  <2>1. \A o \in Sessions : job[o].state # "running"
    BY <1>1 DEF Takes, Running
  <2> QED BY <1>1, <1>2, <2>1 DEF ArmInv, JobInv, SamePair, Open
<1>9. ResumeInv'
  <2> SUFFICES ASSUME ~overtaken'
               PROVE  /\ pane'.step \in {"phase2-loading", "phase2"} => IsPending'
                      /\ pane'.op = "applySlotConfig" /\ reply' = "ok" => IsPending'
    BY DEF ResumeInv
  <2>1. p.from = opens
    BY <1>1 DEF Changes
  <2>2. CASE Open
    <3>1. pane.wait = "post" /\ pane.step \in Executing
      BY <1>5, <2>1, <2>2 DEF IInv, PaneInv, Waiting
    <3>2. ASSUME pane.op = "applySlotConfig" PROVE IsPending'
      <4>1. SetPair(p, p.dest, p.src, "src", "dest") /\ SamePair(p, pane)
        BY <1>1, <1>5, <2>1, <2>2, <3>2
      <4>2. target'[p.src] = p.dest /\ target'[p.dest] = p.src /\ role'[p.src] = "src"
        BY <1>3, <4>1 DEF SetPair, IsPair, Sites, IInv, Types, ArmInv, ArmTypes
      <4> QED BY <1>2, <4>1, <4>2 DEF IsPending, SamePair
    <3> QED BY <1>2, <3>1, <3>2 DEF Executing
  <2>3. CASE ~Open
    BY <1>2, <2>3 DEF ArmInv, StepInv, Open
  <2> QED BY <2>2, <2>3
<1> QED BY <1>4, <1>5, <1>6, <1>7, <1>8, <1>9, ArmKeeps DEF ArmInv, ArmNext

LEMMA ArmStartsSwapArm ==
  ASSUME IInv, ArmInv, ArmStartsSwap
  PROVE  ArmInv'
<1>1. PICK p \in inbox, r \in {"location", "noLocation", "error"} :
        /\ Takes(p) /\ p.op = "slotsswap" /\ inbox' = inbox \ {p}
        /\ job' = [job EXCEPT ![p.from] =
                     [state |-> "running", src |-> p.src, dest |-> p.dest]]
        /\ Answer(p, r)
  BY DEF ArmStartsSwap
<1>2. UNCHANGED <<target, role, done, pane, resourceId, opens, overtaken>>
  BY DEF ArmStartsSwap, history
<1>3. /\ IsPair(p) /\ p.from \in Sessions /\ p.from <= opens
      /\ target[p.src] \in {None, p.dest} /\ target[p.dest] \in {None, p.src}
      /\ \A o \in Sessions : job[o].state # "running"
  BY <1>1 DEF ArmInv, ArmTypes, PairInv, PostInv, Takes, Running
<1>4. /\ PostInv' /\ reply' \in {"none", "ok", "error", "location", "noLocation"}
      /\ p.from = opens /\ Open =>
           /\ reply' = r /\ p.op = pane.op /\ SamePair(p, pane) /\ pane.wait = "post"
      /\ p.from # opens \/ ~Open => reply' = reply
  BY <1>1, <1>2, Answers
<1> DEFINE started == [state |-> "running", src |-> p.src, dest |-> p.dest]
<1>5. /\ job'[p.from] = started
      /\ \A o \in Sessions : o # p.from => job'[o] = job[o]
      /\ started.state = "running" /\ SamePair(started, p) /\ IsPair(started)
  BY <1>1, <1>3 DEF ArmInv, ArmTypes, SamePair, IsPair
<1>6. ArmTypes'
  <2>1. job' \in [Sessions -> [state: {"none", "running", "done", "failed"},
                               src: Slots \cup {None}, dest: Sites \cup {None}]]
    BY <1>1, <1>3 DEF ArmInv, ArmTypes, IsPair
  <2> QED BY <1>1, <1>2, <1>4, <2>1 DEF ArmInv, ArmTypes, Open
<1> HIDE DEF started
<1>7. PairInv' /\ TargetInv'
  BY <1>1, <1>2, <1>5 DEF ArmInv, PairInv, IsPair, TargetInv
<1>8. ReplyInv'
  BY <1>1, <1>2, <1>4 DEF ArmInv, ReplyInv
<1>9. JobInv'
  <2>1. \A o \in Sessions :
          /\ o > opens => job'[o].state = "none"
          /\ job'[o].state = "done" => <<o, "slotsswap">> \in done
    <3>1. ~(p.from > opens)
      BY <1>3 DEF Sessions, ArmInv, ArmTypes
    <3> QED BY <1>5, <3>1 DEF ArmInv, JobInv
  <2>2. \A o \in Sessions : job'[o].state = "running" =>
          /\ o = p.from
          /\ target[job'[o].src] \in {None, job'[o].dest}
          /\ target[job'[o].dest] \in {None, job'[o].src}
    BY <1>3, <1>5 DEF SamePair
  <2>3. Open /\ job'[opens].state # "none" =>
          pane.op = "slotsswap" /\ SamePair(job'[opens], pane)
    <3>1. CASE p.from = opens
      BY <1>1, <1>4, <1>5, <3>1 DEF SamePair
    <3>2. CASE p.from # opens
      BY <1>5, <3>2 DEF ArmInv, ArmTypes, JobInv
    <3> QED BY <3>1, <3>2
  <2> QED BY <1>2, <2>1, <2>2, <2>3 DEF JobInv, Open, SamePair
<1>10. ResumeInv'
  BY <1>1, <1>2, <1>4 DEF ArmInv, ResumeInv, IsPending
<1> QED BY <1>4, <1>6, <1>7, <1>8, <1>9, <1>10, ArmKeeps DEF ArmInv, ArmNext

LEMMA ArmEndsSwapArm ==
  ASSUME IInv, ArmInv, ArmEndsSwap
  PROVE  ArmInv'
<1>1. PICK o \in Sessions, s \in {"done", "failed"} :
        /\ job[o].state = "running" /\ job' = [job EXCEPT ![o].state = s]
        /\ \/ SetPair(job[o], None, None, "none", "none") /\ Changes(o)
           \/ s = "failed" /\ UNCHANGED <<target, role, history>>
        /\ done' = IF s = "done" THEN done \cup {<<o, "slotsswap">>} ELSE done
  BY DEF ArmEndsSwap
<1>2. UNCHANGED <<inbox, reply, pane, resourceId, opens>>
  BY DEF ArmEndsSwap
<1>3. /\ IsPair(job[o]) /\ target[job[o].src] \in {None, job[o].dest}
      /\ target[job[o].dest] \in {None, job[o].src}
      /\ \A q \in Sessions : job[q].state = "running" => q = o
  BY <1>1 DEF ArmInv, PairInv, JobInv
<1>4. TargetInv' /\ role' \in [Sites -> {"src", "dest", "none"}]
  <2>1. CASE UNCHANGED <<target, role>>
    BY <2>1 DEF ArmInv, TargetInv, ArmTypes
  <2>2. CASE SetPair(job[o], None, None, "none", "none")
    BY <1>3, <2>2, PairChanges
  <2> QED BY <1>1, <2>1, <2>2
<1>5. /\ job'[o].state = s /\ SamePair(job'[o], job[o])
      /\ \A q \in Sessions : q # o => job'[q] = job[q]
      /\ job' \in [Sessions -> [state: {"none", "running", "done", "failed"},
                                src: Slots \cup {None}, dest: Sites \cup {None}]]
  BY <1>1 DEF ArmInv, ArmTypes, SamePair
<1>6. overtaken' \in BOOLEAN
  BY <1>1 DEF ArmInv, ArmTypes, Changes, history
<1>7. ArmTypes'
  BY <1>1, <1>2, <1>4, <1>5, <1>6 DEF ArmInv, ArmTypes, Operations, Open
<1>8. PairInv' /\ PostInv' /\ ReplyInv'
  <2>1. PairInv'
    BY <1>1, <1>2, <1>3, <1>5 DEF ArmInv, PairInv, IsPair, SamePair
  <2>2. PostInv' /\ ReplyInv'
    BY <1>1, <1>2 DEF ArmInv, PostInv, ReplyInv, SamePair, Open
  <2> QED BY <2>1, <2>2
<1>9. JobInv'
  <2>1. \A q \in Sessions :
          /\ q > opens => job'[q].state = "none"
          /\ job'[q].state = "done" => <<q, "slotsswap">> \in done'
          /\ job'[q].state # "running"
    BY <1>1, <1>3, <1>5 DEF ArmInv, JobInv
  <2>2. Open => opens \in Sessions
    BY DEF ArmInv, ArmTypes
  <2>3. Open /\ job'[opens].state # "none" =>
          pane.op = "slotsswap" /\ SamePair(job'[opens], pane)
    BY <1>1, <1>5, <2>2 DEF ArmInv, JobInv, SamePair
  <2> QED BY <1>2, <2>1, <2>3 DEF JobInv, Open, SamePair
<1>10. ResumeInv'
  <2>1. CASE s = "failed" /\ UNCHANGED <<target, role, history>>
    BY <1>2, <2>1 DEF ArmInv, ResumeInv, IsPending, history
  <2>2. CASE Changes(o)
    <3>1. ~overtaken' => o = opens
      BY <2>2 DEF Changes
    <3>2. ~overtaken' /\ Open => pane.op = "slotsswap"
      BY <1>1, <3>1 DEF ArmInv, JobInv
    <3>3. pane.step \in {"phase2-loading", "phase2"} => pane.op # "slotsswap" /\ Open
      BY DEF ArmInv, StepInv, Open
    <3>4. pane.op # "none" => Open
      BY DEF ArmInv, StepInv, Open
    <3> QED BY <1>2, <3>2, <3>3, <3>4 DEF ResumeInv
  <2> QED BY <1>1, <2>1, <2>2
<1> QED BY <1>4, <1>7, <1>8, <1>9, <1>10, ArmKeeps DEF ArmInv, ArmNext

\* A step of the page leaves it alone, but for the one that opens the pane.
LEMMA PageStepArm ==
  ASSUME IInv, ArmInv, PageNext
  PROVE  ArmInv'
<1>1. CASE ShowSwapControls
  BY <1>1, ArmOpens DEF ShowSwapControls, history
<1>2. CASE SwapStarted \/ SwapCompleted \/ PaneClosed
  BY <1>2, ArmUntouched DEF SwapStarted, SwapCompleted, PaneClosed, Receive
<1>3. CASE ContentRead \/ ContentLoaded \/ PermissionsLoaded
           \/ RefreshCommand \/ Edit \/ Discard \/ Save \/ SavePosted \/ SaveAnswered
  BY <1>3, ArmUntouched DEF ContentRead, ContentLoaded, PermissionsLoaded, RefreshCommand,
     Edit, Discard, Save, SavePosted, SaveAnswered, paneVars, history
<1> QED BY <1>1, <1>2, <1>3 DEF PageNext

-----------------------------------------------------------------------------
(* What the page shows of the target of its slot.                          *)

Own == resourceId \in {pane.src, pane.dest}

\* The pane awaits the end of an operation that its page will be told of.
Concerned == Waiting /\ Own

\* The end of an operation is among what the page has still to hear.
Told == \E i \in 1..Len(mail) : mail[i].kind = "completed"

ViewTypes ==
  /\ siteArm \in Sites \cup {None, Absent} /\ read.target \in Sites \cup {None, Absent}
  /\ unannounced \in BOOLEAN

\* What has been announced will be followed by an end, or the page counts as
\* not told of everything.
OrderInv ==
  \A i \in 1..Len(mail) : mail[i].kind = "started" =>
    \/ unannounced \/ Concerned
    \/ \E j \in 1..Len(mail) : j > i /\ mail[j].kind = "completed"

\* The page shows the target ARM has for its slot unless it is not going to
\* be told of a change, is still to hear of its end, or sees it under way.
ViewInv ==
  /\ load \in {"content", "read"} => siteArm = Absent
  /\ ~unannounced /\ ~Concerned /\ ~Told =>
       /\ siteArm \in {Absent, target[resourceId]}
       /\ load = "read" => read.target \in {Absent, target[resourceId]}

PageInv == ViewTypes /\ OrderInv /\ ViewInv

LEMMA PageInitially == Init => PageInv
<1> SUFFICES ASSUME Init PROVE PageInv
  OBVIOUS
<1>1. mail = <<>> /\ siteArm = Absent /\ read.target = Absent /\ load = "content"
      /\ unannounced = FALSE
  BY DEF Init, SwapInit, Unread
<1>2. ViewTypes /\ ViewInv
  BY <1>1 DEF ViewTypes, ViewInv
<1>3. OrderInv
  <2>1. 1..Len(mail) = {}
    BY <1>1
  <2> QED BY <2>1 DEF OrderInv
<1> QED BY <1>2, <1>3 DEF PageInv

\* A step of the pane that is no news to the page.
LEMMA PageUntold ==
  ASSUME PageInv, UNCHANGED <<mail, unannounced, target, resourceId, pageVars>>,
         Concerned' <=> Concerned
  PROVE  PageInv'
BY DEF PageInv, ViewTypes, OrderInv, ViewInv, Told, pageVars

\* An operation starts: the page is told, or it is not concerned.
LEMMA PageStarts ==
  ASSUME IInv, PageInv, ~Waiting, UNCHANGED pageVars,
         NEW op \in Operations, NEW p, p.src \in Targets, p.dest \in Targets,
         NEW step, NEW phases, Start(op, p, step, phases)
  PROVE  PageInv'
<1>1. /\ pane'.src = p.src /\ pane'.dest = p.dest /\ pane'.wait = "post"
      /\ UNCHANGED <<resourceId, target, unannounced>>
  BY DEF IInv, Types, Start, Panes, history
<1>2. CASE Own'
  BY <1>1, <1>2 DEF PageInv, ViewTypes, OrderInv, ViewInv, Concerned, Waiting, pageVars
<1>3. CASE ~Own'
  <2>1. UNCHANGED mail /\ ~Concerned /\ ~Concerned'
    BY <1>1, <1>3 DEF Start, Broadcast, Own, Concerned
  <2> QED BY <1>1, <2>1, PageUntold
<1> QED BY <1>2, <1>3

\* An operation ends: the page is told, or it is not concerned.
LEMMA PageFinishes ==
  ASSUME IInv, PageInv, UNCHANGED pageVars, NEW p \in Panes, Finish(p)
  PROVE  PageInv'
<1>1. pane'.wait = "no" /\ UNCHANGED <<resourceId, target, unannounced>> /\ ~Concerned'
  BY DEF Finish, Panes, armVars, history, Concerned, Waiting
<1>2. CASE Own
  <2> DEFINE m == Message("completed", pane.op, pane.src, pane.dest)
  <2>1. mail' = Append(mail, m) /\ m.kind = "completed" /\ m \in Messages
    BY <1>2 DEF Finish, Broadcast, Own, Message, Messages, IInv, Types, Panes
  <2> HIDE DEF m
  <2>2. /\ Len(mail') = Len(mail) + 1 /\ mail'[Len(mail')] = m /\ Len(mail) \in Nat
        /\ \A i \in 1..Len(mail) : mail'[i] = mail[i]
    BY <2>1, Adds DEF IInv, Types
  <2>3. Len(mail') \in 1..Len(mail') /\ mail'[Len(mail')].kind = "completed"
    BY <2>1, <2>2
  <2>4. \A i \in 1..Len(mail') : mail'[i].kind = "started" => Len(mail') > i
    BY <2>2, <2>3
  <2>5. OrderInv' /\ Told'
    BY <2>3, <2>4 DEF OrderInv, Told
  <2> QED BY <1>1, <2>5 DEF PageInv, ViewTypes, ViewInv, pageVars
<1>3. CASE ~Own
  <2>1. UNCHANGED mail /\ ~Concerned
    BY <1>3 DEF Finish, Broadcast, Own, Concerned
  <2> QED BY <1>1, <2>1, PageUntold
<1> QED BY <1>2, <1>3

\* The pane is gone: whoever waited for it counts as not told.
LEMMA PageCloses ==
  ASSUME IInv, PageInv, UNCHANGED <<pageVars, resourceId, target>>, pane' = Closed,
         unannounced' = (unannounced \/ Waiting),
         mail' = Append(mail, Message("closed", "none", None, None))
  PROVE  PageInv'
<1> DEFINE m == Message("closed", "none", None, None)
<1>1. m \in Messages /\ m.kind = "closed"
  BY DEF Message, Messages, Ops, Targets
<1> HIDE DEF m
<1>2. /\ Len(mail') = Len(mail) + 1 /\ mail'[Len(mail')] = m /\ Len(mail) \in Nat
      /\ \A i \in 1..Len(mail) : mail'[i] = mail[i]
  BY <1>1, Adds DEF IInv, Types, m
<1>3. ~Concerned'
  BY Blank DEF Concerned, Waiting
<1>4. Told => Told'
  BY <1>2 DEF Told
<1>5. OrderInv'
  <2>1. ASSUME NEW i \in 1..Len(mail'), mail'[i].kind = "started"
        PROVE  i \in 1..Len(mail) /\ mail[i].kind = "started"
    BY <1>1, <1>2, <2>1
  <2>2. ASSUME NEW i \in 1..Len(mail), NEW j \in 1..Len(mail), mail[j].kind = "completed"
        PROVE  j \in 1..Len(mail') /\ mail'[j].kind = "completed"
    BY <1>2, <2>2
  <2> QED BY <2>1, <2>2 DEF PageInv, OrderInv, Concerned
<1>6. ViewTypes'
  BY DEF PageInv, ViewTypes, pageVars, Waiting
<1>7. ViewInv'
  BY <1>4 DEF PageInv, ViewInv, Concerned, pageVars
<1> QED BY <1>5, <1>6, <1>7 DEF PageInv

\* What ARM has changed unknown to the page is not of its slot.
LEMMA PageChanges ==
  ASSUME PageInv, UNCHANGED <<pageVars, pane, mail, resourceId>>,
         unannounced' \in BOOLEAN, unannounced => unannounced',
         ~unannounced' /\ ~Concerned => UNCHANGED target[resourceId]
  PROVE  PageInv'
<1>1. Concerned' <=> Concerned
  BY DEF Concerned, Waiting, Own
<1>2. Told' <=> Told
  BY DEF Told
<1>3. ViewTypes' /\ OrderInv'
  BY <1>1 DEF PageInv, ViewTypes, OrderInv, pageVars
<1>4. ViewInv'
  BY <1>1, <1>2 DEF PageInv, ViewInv, pageVars
<1> QED BY <1>3, <1>4 DEF PageInv

LEMMA ArmStepPage ==
  ASSUME IInv, ArmInv, PageInv, ArmNext, UNCHANGED pageVars
  PROVE  PageInv'
<1>0. UNCHANGED <<pane, mail, resourceId, opens>> /\ resourceId \in Sites
  BY DEF ArmNext, ArmRefuses, ArmConfigures, ArmStartsSwap, ArmEndsSwap, IInv, Types
<1>1. CASE ArmRefuses \/ ArmStartsSwap
  BY <1>0, <1>1, PageUntold DEF ArmRefuses, ArmStartsSwap, history, Concerned, Waiting, Own
<1>2. CASE ArmConfigures
  <2>1. PICK p \in inbox :
          /\ Takes(p) /\ Changes(p.from)
          /\ \/ SetPair(p, p.dest, p.src, "src", "dest")
             \/ SetPair(p, None, None, "none", "none")
    BY <1>2 DEF ArmConfigures
  <2>2. \A s \in Sites : s \notin {p.src, p.dest} => target'[s] = target[s]
    BY <2>1, PairChanges DEF ArmInv, PairInv, Takes
  <2>3. p.from = opens /\ Waiting => SamePair(p, pane)
    BY WaitingIsOpen DEF ArmInv, PostInv, Open
  <2> QED BY <1>0, <2>1, <2>2, <2>3, PageChanges
      DEF Changes, Concerned, Own, SamePair, PageInv, ViewTypes, Waiting
<1>3. CASE ArmEndsSwap
  <2>1. PICK o \in Sessions :
          /\ job[o].state = "running"
          /\ \/ SetPair(job[o], None, None, "none", "none") /\ Changes(o)
             \/ UNCHANGED <<target, history>>
    BY <1>3 DEF ArmEndsSwap
  <2>2. CASE UNCHANGED <<target, history>>
    BY <1>0, <2>2, PageUntold DEF history, Concerned, Waiting, Own
  <2>3. CASE SetPair(job[o], None, None, "none", "none") /\ Changes(o)
    <3>1. \A s \in Sites : s \notin {job[o].src, job[o].dest} => target'[s] = target[s]
      BY <2>1, <2>3, PairChanges DEF ArmInv, PairInv, JobInv
    <3>2. o = opens /\ Waiting => SamePair(job[o], pane)
      BY <2>1, WaitingIsOpen DEF ArmInv, JobInv, Open
    <3> QED BY <1>0, <2>3, <3>1, <3>2, PageChanges
        DEF Changes, Concerned, Own, SamePair, PageInv, ViewTypes, Waiting
  <2> QED BY <2>1, <2>2, <2>3
<1> QED BY <1>1, <1>2, <1>3 DEF ArmNext

LEMMA PaneStepPage ==
  ASSUME IInv, ArmInv, PageInv, PaneNext, UNCHANGED pageVars
  PROVE  PageInv'
<1>0. pane \in Panes
  BY DEF IInv, Types
<1>1. CASE PaneLoaded \/ PermissionsKnown
  <2>1. ~Waiting /\ pane'.wait = pane.wait
    BY <1>0, <1>1 DEF PaneLoaded, PermissionsKnown, Phase2, IInv, PaneInv, Executing, Panes
  <2>2. UNCHANGED <<mail, unannounced, target, resourceId>>
    BY <1>1 DEF PaneLoaded, PermissionsKnown, armVars, history
  <2>3. ~Concerned /\ ~Concerned'
    BY <2>1 DEF Concerned, Waiting
  <2> QED BY <2>2, <2>3, PageUntold
<1>2. CASE ExecutePhase1
  <2>1. PICK p \in Pairs, op \in {"slotsswap", "applySlotConfig"} :
          Start(op, p, "phase1-executing", <<"running", "default">>)
    BY <1>2 DEF ExecutePhase1, Choices
  <2>2. p.src \in Targets /\ p.dest \in Targets /\ op \in Operations /\ ~Waiting
    BY <1>2 DEF Pairs, Targets, Sites, Operations, ExecutePhase1, IInv, PaneInv, Executing
  <2> QED BY <2>1, <2>2, PageStarts
<1>3. CASE ExecutePhase2
  <2> DEFINE p == [src |-> pane.src, dest |-> pane.dest]
  <2>1. PICK op \in {"slotsswap", "resetSlotConfig"} :
          Start(op, p, "phase2-executing", <<"done", "running">>)
    BY <1>3 DEF ExecutePhase2
  <2>2. p.src \in Targets /\ p.dest \in Targets /\ op \in Operations /\ ~Waiting
    BY <1>0, <1>3 DEF Panes, Operations, ExecutePhase2, IInv, PaneInv, Executing
  <2> HIDE DEF p
  <2> QED BY <2>1, <2>2, PageStarts
<1>4. ASSUME NEW progress \in Progress, SwapFinished(progress)
      PROVE  PageInv'
  <2> DEFINE p == Completed([pane EXCEPT !.progress = progress],
                    pane.step = "phase2-executing", progress = "success")
  <2>1. p \in Panes
    BY <1>0 DEF Completed, Panes, PhaseStatus, Steps
  <2> HIDE DEF p
  <2>2. Finish(p)
    BY <1>4 DEF SwapFinished, p
  <2> QED BY <2>1, <2>2, PageFinishes
<1>5. CASE ApplyAnswered
  <2> DEFINE failed == [pane EXCEPT !.progress = "error", !.phases = <<"failed", "null">>]
             applied == Phase2([pane EXCEPT !.progress = "success"])
  <2>1. failed \in Panes /\ applied \in Panes
    BY <1>0 DEF Panes, Progress, PhaseStatus, Phase2, Steps
  <2>2. Finish(failed) \/ Finish(applied)
    BY <1>5 DEF ApplyAnswered
  <2> HIDE DEF failed, applied
  <2> QED BY <2>1, <2>2, PageFinishes
<1>6. CASE ResetAnswered
  <2>1. PICK progress \in Progress, success \in BOOLEAN :
          Finish(Completed([pane EXCEPT !.progress = progress], TRUE, success))
    BY <1>6 DEF ResetAnswered, Progress
  <2>2. Completed([pane EXCEPT !.progress = progress], TRUE, success) \in Panes
    BY <1>0 DEF Completed, Panes, PhaseStatus, Steps
  <2> QED BY <2>1, <2>2, PageFinishes
<1>7. CASE SwapAnswered
  <2>1. CASE reply = "location"
    <3>1. /\ pane' = [pane EXCEPT !.wait = "poll"] /\ Waiting
          /\ UNCHANGED <<mail, unannounced, target, resourceId>>
      BY <1>7, <2>1 DEF SwapAnswered, Waiting, armVars, history
    <3>2. Concerned' <=> Concerned
      BY <1>0, <3>1 DEF Panes, Concerned, Waiting, Own
    <3> QED BY <3>1, <3>2, PageUntold
  <2>2. CASE reply # "location"
    BY <1>7, <2>2, <1>4 DEF SwapAnswered, Progress
  <2> QED BY <2>1, <2>2
<1>8. CASE Poll
  <2>1. PICK status \in Statuses, w \in {"never", "poll"} :
          \/ SwapFinished(Outcome(status))
          \/ /\ pane' = [pane EXCEPT !.polls = pane.polls + 1, !.wait = w]
             /\ UNCHANGED <<resourceId, armVars, reply, opens, mail, history>>
    BY <1>8 DEF Poll
  <2>2. CASE SwapFinished(Outcome(status))
    BY <2>2, <1>4 DEF Outcome, Progress
  <2>3. CASE /\ pane' = [pane EXCEPT !.polls = pane.polls + 1, !.wait = w]
             /\ UNCHANGED <<resourceId, armVars, reply, opens, mail, history>>
    <3>1. UNCHANGED <<mail, unannounced, target, resourceId>> /\ Waiting
      BY <1>8, <2>3 DEF Poll, Waiting, armVars, history
    <3>2. pane'.src = pane.src /\ pane'.dest = pane.dest /\ pane'.wait = w
      BY <1>0, <2>3 DEF Panes
    <3>3. Concerned' <=> Concerned
      BY <3>1, <3>2 DEF Concerned, Waiting, Own
    <3> QED BY <3>1, <3>3, PageUntold
  <2> QED BY <2>1, <2>2, <2>3
<1>9. CASE ClosePanel
  <2>1. ~Waiting
    BY <1>9 DEF ClosePanel, IInv, PaneInv
  <2>2. unannounced' = (unannounced \/ Waiting)
    BY <1>9, <2>1 DEF ClosePanel, history, PageInv, ViewTypes
  <2> QED BY <1>9, <2>2, PageCloses DEF ClosePanel, armVars
<1>10. CASE Dismiss
  BY <1>10, PageCloses DEF Dismiss, armVars
<1> QED BY <1>1, <1>2, <1>3, <1>5, <1>6, <1>7, <1>8, <1>9, <1>10 DEF PaneNext

\* A message is heard: what followed it in the queue is still to be heard.
LEMMA PageHears ==
  ASSUME IInv, PageInv, Receive, unannounced' \in {unannounced, TRUE}
  PROVE  /\ OrderInv' /\ (Concerned' <=> Concerned)
         /\ UNCHANGED <<target, resourceId, pane>>
         /\ Heard.kind # "completed" => (Told' <=> Told)
         /\ Heard.kind = "started" => unannounced \/ Concerned \/ Told'
<1>1. /\ mail \in Seq(Messages) /\ mail # <<>> /\ mail' = Tail(mail) /\ Heard = mail[1]
      /\ UNCHANGED <<target, resourceId, pane>>
  BY DEF IInv, Types, Receive, Heard, armVars
<1>2. /\ Len(mail) \in Nat /\ Len(mail) >= 1 /\ Len(mail') = Len(mail) - 1
      /\ \A i \in 1..Len(mail') : i + 1 \in 1..Len(mail) /\ mail'[i] = mail[i + 1]
  BY <1>1
<1>3. ASSUME NEW j \in 1..Len(mail), j # 1
      PROVE  j - 1 \in 1..Len(mail') /\ mail'[j - 1] = mail[j]
  <2>1. j - 1 \in 1..Len(mail') /\ (j - 1) + 1 = j
    BY <1>2, <1>3
  <2> QED BY <1>2, <2>1
<1>4. Concerned' <=> Concerned
  BY <1>1 DEF Concerned, Waiting, Own
<1>5. Told' => Told
  BY <1>2 DEF Told
<1>6. ASSUME NEW i \in 1..Len(mail), NEW j \in 1..Len(mail), j > i, mail[j].kind = "completed"
      PROVE  j - 1 \in 1..Len(mail') /\ mail'[j - 1].kind = "completed" /\ j - 1 > i - 1
  BY <1>2, <1>3, <1>6
<1>7. 1 \in 1..Len(mail)
  BY <1>2
<1>8. Heard.kind # "completed" => (Told' <=> Told)
  BY <1>1, <1>3, <1>5 DEF Told
<1>9. Heard.kind = "started" => unannounced \/ Concerned \/ Told'
  <2> SUFFICES ASSUME mail[1].kind = "started", ~unannounced, ~Concerned PROVE Told'
    BY <1>1
  <2>1. PICK j \in 1..Len(mail) : j > 1 /\ mail[j].kind = "completed"
    BY <1>7 DEF PageInv, OrderInv
  <2>2. j - 1 \in 1..Len(mail') /\ mail'[j - 1].kind = "completed"
    BY <1>6, <1>7, <2>1
  <2> QED BY <2>2 DEF Told
<1>10. OrderInv'
  <2> SUFFICES ASSUME NEW i \in 1..Len(mail'), mail'[i].kind = "started",
                      ~unannounced', ~Concerned
               PROVE  \E j \in 1..Len(mail') : j > i /\ mail'[j].kind = "completed"
    BY <1>1, <1>4 DEF OrderInv
  <2>0. ~unannounced
    OBVIOUS
  <2>1. i + 1 \in 1..Len(mail) /\ mail[i + 1].kind = "started"
    BY <1>2
  <2>2. PICK j \in 1..Len(mail) : j > i + 1 /\ mail[j].kind = "completed"
    BY <2>0, <2>1 DEF PageInv, OrderInv
  <2>3. j - 1 \in 1..Len(mail') /\ mail'[j - 1].kind = "completed" /\ j - 1 > i
    BY <1>6, <2>1, <2>2
  <2> QED BY <2>3
<1> QED BY <1>1, <1>4, <1>8, <1>9, <1>10

\* A load starts: the page shows nothing.
LEMMA PageLoads ==
  ASSUME PageInv, UNCHANGED <<unannounced, target, resourceId, pane>>, OrderInv',
         NEW f, StartLoad(f)
  PROVE  PageInv'
<1>1. siteArm' = Absent /\ load' = "content" /\ read'.target = Absent
  BY DEF StartLoad, Unread
<1> QED BY <1>1 DEF PageInv, ViewTypes, ViewInv

LEMMA PageStepPage ==
  ASSUME IInv, PageInv, PageNext
  PROVE  PageInv'
<1>0. resourceId \in Sites /\ target \in [Sites -> Sites \cup {None}]
  BY DEF IInv, Types, Targets
<1>1. CASE ContentRead
  <2>1. /\ unannounced' = (unannounced /\ \E m \in Range(mail) : m.kind = "started")
        /\ load = "content" /\ load' = "read"
        /\ read'.target \in {target[resourceId], Absent}
        /\ UNCHANGED <<siteArm, mail, target, resourceId, pane>>
    BY <1>1 DEF ContentRead, armVars
  <2>2. (Concerned' <=> Concerned) /\ (Told' <=> Told)
    BY <2>1 DEF Concerned, Waiting, Own, Told
  <2>3. ASSUME NEW i \in 1..Len(mail), mail[i].kind = "started", unannounced
        PROVE  unannounced'
    <3>1. mail[i] \in Range(mail)
      BY DEF Range, IInv, Types
    <3> QED BY <2>1, <2>3, <3>1
  <2>4. OrderInv'
    BY <2>1, <2>2, <2>3 DEF PageInv, OrderInv
  <2>5. ViewTypes' /\ ViewInv'
    BY <1>0, <2>1 DEF PageInv, ViewTypes, ViewInv
  <2> QED BY <2>4, <2>5 DEF PageInv
<1>2. CASE ContentLoaded \/ PermissionsLoaded
           \/ Edit \/ Discard \/ Save \/ SavePosted \/ SaveAnswered
  <2>1. /\ UNCHANGED <<mail, unannounced, target, resourceId, pane>>
        /\ UNCHANGED <<siteArm, load, read>>
             \/ (load = "read" /\ siteArm' = read.target /\ load' = "permissions"
                   /\ read' = Unread)
             \/ (load = "permissions" /\ load' = "idle" /\ UNCHANGED <<siteArm, read>>)
    BY <1>2 DEF ContentLoaded, PermissionsLoaded, Edit, Discard, Save, SavePosted,
       SaveAnswered, paneVars, armVars, history
  <2>2. (Concerned' <=> Concerned) /\ (Told' <=> Told)
    BY <2>1 DEF Concerned, Waiting, Own, Told
  <2>3. OrderInv' /\ ViewTypes'
    BY <2>1, <2>2 DEF PageInv, OrderInv, ViewTypes, Unread
  <2>4. ViewInv'
    BY <2>1, <2>2 DEF PageInv, ViewInv
  <2> QED BY <2>3, <2>4 DEF PageInv
<1>3. CASE RefreshCommand
  <2>1. UNCHANGED <<mail, unannounced, target, resourceId, pane>>
    BY <1>3 DEF RefreshCommand, paneVars, armVars, history
  <2>2. OrderInv'
    BY <2>1 DEF PageInv, OrderInv, Concerned, Waiting, Own
  <2> QED BY <1>3, <2>1, <2>2, PageLoads DEF RefreshCommand, Refresh
<1>4. CASE ShowSwapControls
  <2>1. /\ UNCHANGED <<mail, unannounced, target, resourceId, siteArm, load, read>>
        /\ ~Concerned /\ ~Concerned'
    BY <1>4, Blank DEF ShowSwapControls, OpenPane, armVars, history, Concerned, Waiting,
       IInv, PaneInv, Executing
  <2>2. Told' <=> Told
    BY <2>1 DEF Told
  <2> QED BY <2>1, <2>2 DEF PageInv, ViewTypes, OrderInv, ViewInv
<1>5. CASE SwapStarted
  <2>1. Receive /\ Heard.kind = "started" /\ UNCHANGED <<unannounced, load, read>>
    BY <1>5 DEF SwapStarted
  <2>2. /\ siteArm = Absent => siteArm' = Absent
        /\ siteArm' \in Sites \cup {None, Absent}
    BY <1>5, <2>1, Hears DEF SwapStarted, Messages, Targets
  <2>3. OrderInv' /\ (unannounced' \/ Concerned' \/ Told')
        /\ UNCHANGED <<target, resourceId>>
    BY <2>1, PageHears
  <2>4. ViewTypes' /\ ViewInv'
    BY <2>1, <2>2, <2>3 DEF PageInv, ViewTypes, ViewInv
  <2> QED BY <2>3, <2>4 DEF PageInv
<1>6. CASE SwapCompleted
  <2>1. PICK f : \/ Refresh(f) /\ UNCHANGED unannounced
                 \/ unannounced' = TRUE /\ UNCHANGED <<siteArm, load, read>>
    BY <1>6 DEF SwapCompleted
  <2>2. OrderInv' /\ UNCHANGED <<target, resourceId, pane>>
    BY <1>6, <2>1, PageHears DEF SwapCompleted
  <2>3. CASE Refresh(f) /\ UNCHANGED unannounced
    BY <2>2, <2>3, PageLoads DEF Refresh
  <2>4. CASE unannounced' = TRUE /\ UNCHANGED <<siteArm, load, read>>
    BY <2>2, <2>4 DEF PageInv, ViewTypes, ViewInv
  <2> QED BY <2>1, <2>3, <2>4
<1>7. CASE PaneClosed
  <2>1. Receive /\ Heard.kind = "closed" /\ UNCHANGED <<unannounced, siteArm, load, read>>
    BY <1>7 DEF PaneClosed
  <2>2. /\ OrderInv' /\ (Concerned' <=> Concerned) /\ (Told' <=> Told)
        /\ UNCHANGED <<target, resourceId>>
    BY <2>1, PageHears
  <2>3. ViewTypes' /\ ViewInv'
    BY <2>1, <2>2 DEF PageInv, ViewTypes, ViewInv
  <2> QED BY <2>2, <2>3 DEF PageInv
<1> QED BY <1>1, <1>2, <1>3, <1>4, <1>5, <1>6, <1>7 DEF PageNext

-----------------------------------------------------------------------------
\* The three parts hold together: what is in the queue and on the buttons,
\* what the pane and ARM have to do with each other, and what the page shows.
THEOREM Carried == Spec => [](IInv /\ ArmInv /\ PageInv)
<1>1. Init => IInv /\ ArmInv /\ PageInv
  BY Initially, ArmInitially, PageInitially
<1>2. IInv /\ ArmInv /\ PageInv /\ [Next]_vars => (IInv /\ ArmInv /\ PageInv)'
  <2> SUFFICES ASSUME IInv, ArmInv, PageInv, [Next]_vars
               PROVE  (IInv /\ ArmInv /\ PageInv)'
    OBVIOUS
  <2>1. CASE PageNext
    BY <2>1, PageStep, PageStepArm, PageStepPage
  <2>2. CASE PaneNext /\ UNCHANGED pageVars
    BY <2>2, PaneStep, PaneStepArm, PaneStepPage
  <2>3. CASE ArmNext /\ UNCHANGED pageVars
    <3>1. ArmInv'
      BY <2>3, ArmRefusesArm, ArmConfiguresArm, ArmStartsSwapArm, ArmEndsSwapArm DEF ArmNext
    <3> QED BY <2>3, <3>1, ArmStep, ArmStepPage
  <2>4. CASE UNCHANGED vars
    <3>1. IInv'
      BY <2>4 DEF vars, paneVars, pageVars, formVars, armVars, IInv, Types, PaneInv, Waiting,
         MailInv, OpenInv, CommandInv, Occupied, SaveInv, LoadInv, DisabledState
    <3>2. ArmInv'
      BY <2>4, ArmUntouched DEF vars, paneVars, history
    <3>3. PageInv'
      BY <2>4, PageUntold DEF vars, paneVars, armVars, history, Concerned, Waiting, Own
    <3> QED BY <3>1, <3>2, <3>3
  <2> QED BY <2>1, <2>2, <2>3, <2>4 DEF Next
<1> QED BY <1>1, <1>2, PTL DEF Spec

\* Every variable of the page, of the pane and of ARM keeps to its values,
\* the attempts at polling to their number.
THEOREM TypeCorrect == Spec => []TypeOK
<1>1. IInv /\ ArmInv /\ PageInv => TypeOK
  <2> SUFFICES ASSUME IInv, ArmInv, PageInv PROVE TypeOK
    OBVIOUS
  <2>1. /\ pane.step \in Steps /\ pane.wait \in {"no", "post", "poll"}
        /\ pane.polls \in 0..PollLimit /\ pane.dest \in Sites \cup {None}
    BY SwapAssumption DEF IInv, Types, Panes, Targets, ArmInv, ArmTypes
  <2>2. saves.begun \in 0..MaxSaves /\ saves.posted \in 0..MaxSaves
    BY PageAssumption DEF IInv, Types
  <2> QED BY <2>1, <2>2 DEF IInv, Types, Forms, Targets, Steps, Executing, ArmInv, ArmTypes, PageInv,
      ViewTypes, TypeOK
<1> QED BY <1>1, Carried, PTL

\* What the pane reports as a success ARM has carried out, for a post of this
\* very opening: not one left behind, not one that was only accepted.
THEOREM SuccessTrue == Spec => []SuccessIsTrue
<1>1. ArmInv => SuccessIsTrue
  BY DEF ArmInv
<1> QED BY <1>1, Carried, PTL

\* The second phase is offered for the swap that is pending, the right way
\* round as far as the pane can know, unless another opening's operation has
\* come in between.
THEOREM SecondPhaseTrue == Spec => []SecondPhaseIsPending
<1>1. ArmInv => SecondPhaseIsPending
  BY DEF ArmInv, ResumeInv, IsPending, SecondPhaseIsPending
<1> QED BY <1>1, Carried, PTL

\* A page at rest shows the target ARM has for its slot, if it shows any, or
\* counts as not told: no read that an operation has made stale is taken up.
THEOREM ViewTrue == Spec => []ViewSettles
<1>1. IInv /\ PageInv => ViewSettles
  <2> SUFFICES ASSUME IInv, PageInv, AtRest, ~unannounced
               PROVE  siteArm \in {Absent, target[resourceId]}
    BY DEF ViewSettles
  <2>1. ~Concerned
    BY DEF AtRest, IInv, PaneInv, Executing, Concerned
  <2>2. ~Told
    BY DEF AtRest, Told
  <2> QED BY <2>1, <2>2 DEF PageInv, ViewInv
<1> QED BY <1>1, Carried, PTL
=============================================================================
