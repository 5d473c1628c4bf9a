----------------------------- MODULE SwapSlots -----------------------------
(***************************************************************************)
(* The pane that swaps two deployment slots of a site, in one phase        *)
(* (slotsswap) or in two (applySlotConfig, then slotsswap to complete or   *)
(* resetSlotConfig to cancel), together with the part of ARM it talks to.  *)
(*                                                                         *)
(* client/src/app/site/slots/swap-slots/swap-slots.component.ts            *)
(*                                                                         *)
(* The pane is a blade of its own: it loads the slots once, posts one      *)
(* operation at a time, polls the Location of a swap until it leaves 202   *)
(* or the attempts run out, and tells the other blades what it does        *)
(* through messages that the portal relays.  It can be closed by its own   *)
(* button or dismissed by the portal while an operation is under way.      *)
(*                                                                         *)
(* Bounds: PollLimit stands for the 120 attempts, MaxOpens bounds how many *)
(* times the pane is opened in a behaviour.                                *)
(***************************************************************************)
EXTENDS Naturals, Sequences

CONSTANTS
  Slots,        \* the slots of the site that are not the production one
  Production,   \* the site itself
  None,         \* no target slot
  PollLimit,    \* attempts at polling a swap
  MaxOpens      \* bound on the times the pane is opened

Sites == Slots \cup {Production}

ASSUME SwapAssumption ==
  /\ Slots # {} /\ Production \notin Slots /\ None \notin Sites
  /\ PollLimit \in Nat \ {0} /\ MaxOpens \in Nat \ {0}

Sessions == 1..MaxOpens
Operations == {"applySlotConfig", "slotsswap", "resetSlotConfig"}
Pairs == {p \in [src: Slots, dest: Sites] : p.src # p.dest}

VARIABLES
  resourceId,   \* the site or slot whose page opens the pane
  target,       \* ARM: the targetSwapSlot of each slot
  role,         \* ARM: which side of the pending swap a slot is on
  inbox,        \* ARM: the posts it has not handled yet
  job,          \* ARM: the swap each opening of the pane has started
  done,         \* ARM: what it has carried out, <<opening, operation>>
  reply,        \* the answer to the pane's post that is on its way
  pane,         \* the state of the pane
  opens,        \* how many times the pane has been opened
  mail,         \* what the portal has still to hand to the page of the slots
  unannounced,  \* the page has not read a change that it was not told of,
                \* or after which its user has kept it from loading
  overtaken     \* the last change since the pane read the slots is another pane's

armVars == <<target, role, inbox, job, done>>
history == <<unannounced, overtaken>>
paneVars == <<resourceId, armVars, reply, pane, opens, mail, history>>

(* The pane as _setupLoading leaves it, and as it is when there is none. *)
Loading ==
  [step |-> "loading", swapping |-> FALSE, executeButtonDisabled |-> TRUE,
   phases |-> <<"default", "default">>, progress |-> "none", failed |-> FALSE,
   src |-> None, dest |-> None, siteLoaded |-> FALSE, op |-> "none",
   wait |-> "no", polls |-> 0]

Closed == [Loading EXCEPT !.step = "closed"]

Idle == [state |-> "none", src |-> None, dest |-> None]

(* A swap may be pending from before: its slots name each other. *)
Pending(p) ==
  /\ target = [s \in Sites |->
       CASE s = p.src -> p.dest [] s = p.dest -> p.src [] OTHER -> None]
  /\ role = [s \in Sites |->
       CASE s = p.src -> "src" [] s = p.dest -> "dest" [] OTHER -> "none"]

SwapInit ==
  /\ resourceId \in Sites
  /\ \/ target = [s \in Sites |-> None] /\ role = [s \in Sites |-> "none"]
     \/ \E p \in Pairs : Pending(p)
  /\ inbox = {} /\ done = {} /\ job = [o \in Sessions |-> Idle]
  /\ reply = "none" /\ pane = Closed /\ opens = 0
  /\ mail = <<>> /\ unannounced = FALSE /\ overtaken = FALSE

----------------------------------------------------------------------------
(* What the pane says of an operation: broadcast to the source and to the  *)
(* destination, so that the page of the slots hears it when it is either.  *)
Message(kind, op, src, dest) == [kind |-> kind, op |-> op, src |-> src, dest |-> dest]

Broadcast(kind, op, src, dest) ==
  mail' = IF resourceId \in {src, dest}
            THEN Append(mail, Message(kind, op, src, dest)) ELSE mail

(* An operation is under way: its answer or the end of its swap is awaited. *)
Waiting == pane.wait # "no"

OpenPane ==
  /\ pane.step = "closed" /\ opens < MaxOpens
  /\ opens' = opens + 1
  /\ pane' = Loading /\ reply' = "none"

(* A mutant: the slot the pane was opened on is taken for the destination. *)
ResumedPair_AlwaysDestBug(t) ==
  IF t = Production THEN [src |-> resourceId, dest |-> t]
                    ELSE [src |-> t, dest |-> resourceId]

(* _loadPhase2 knows the pending swap only by the target of the slot it    *)
(* was opened on; production is always the destination.                    *)
ResumedPair(t) ==
  IF resourceId = Production THEN [src |-> t, dest |-> resourceId]
                             ELSE [src |-> resourceId, dest |-> t]

(* The slots are read.  Without the list there is nothing to choose from;  *)
(* without the site, production is not among the slots that are known.     *)
PaneLoaded ==
  /\ pane.step = "loading" /\ ~pane.failed
  /\ \E siteOk, slotsOk \in BOOLEAN :
       LET known == IF siteOk THEN Sites ELSE Slots
           t     == IF resourceId \in known THEN target[resourceId] ELSE None
           pair  == ResumedPair(t)
       IN  \/ /\ ~slotsOk \/ (t = None /\ known \subseteq {resourceId})
              /\ pane' = [pane EXCEPT !.failed = TRUE]
           \/ /\ slotsOk /\ t # None
              /\ pane' = [pane EXCEPT !.step = "phase2-loading",
                            !.phases = <<"done", "default">>,
                            !.src = pair.src, !.dest = pair.dest]
           \/ /\ slotsOk /\ t = None /\ ~(known \subseteq {resourceId})
              /\ pane' = [pane EXCEPT !.step = "phase1", !.siteLoaded = siteOk,
                            !.phases = <<"current", "default">>,
                            !.executeButtonDisabled = FALSE]
  /\ overtaken' = FALSE
  /\ UNCHANGED <<resourceId, armVars, reply, opens, mail, unannounced>>

(* _setupPhase2, after applySlotConfig or after the permissions are known. *)
Phase2(p) ==
  [p EXCEPT !.step = "phase2", !.phases = <<"done", "current">>,
            !.swapping = FALSE, !.executeButtonDisabled = FALSE]

(* Without the permissions the pane keeps its message and its dead button. *)
PermissionsKnown ==
  /\ pane.step = "phase2-loading" /\ ~pane.failed
  /\ pane' \in {Phase2(pane), [pane EXCEPT !.failed = TRUE]}
  /\ UNCHANGED <<resourceId, armVars, reply, opens, mail, history>>

----------------------------------------------------------------------------
(* One operation: the pane shows it as running, broadcasts that it has     *)
(* started and posts it.                                                   *)
Start(op, p, step, phases) ==
  /\ pane' = [pane EXCEPT !.step = step, !.phases = phases, !.swapping = TRUE,
                !.executeButtonDisabled = TRUE, !.progress = "spinner",
                !.src = p.src, !.dest = p.dest, !.op = op, !.wait = "post", !.polls = 0]
  /\ inbox' = inbox \cup {[op |-> op, src |-> p.src, dest |-> p.dest, from |-> opens]}
  /\ reply' = "none"
  /\ Broadcast("started", op, p.src, p.dest)
  /\ UNCHANGED <<resourceId, target, role, job, done, opens, history>>

(* Production is never offered as a source, and as a destination only when *)
(* it could be read or the pane was opened on it.                          *)
Choices ==
  {p \in Pairs : p.dest = Production => pane.siteLoaded \/ resourceId = Production}

ExecutePhase1 ==
  /\ pane.step = "phase1" /\ ~pane.executeButtonDisabled
  /\ \E p \in Choices :
       \/ Start("slotsswap", p, "phase1-executing", <<"running", "default">>)
       \/ Start("applySlotConfig", p, "phase1-executing", <<"running", "default">>)

ExecutePhase2 ==
  /\ pane.step = "phase2" /\ ~pane.executeButtonDisabled
  /\ \E op \in {"slotsswap", "resetSlotConfig"} :
       Start(op, [src |-> pane.src, dest |-> pane.dest],
             "phase2-executing", <<"done", "running">>)

(* The end of an operation is broadcast whatever its outcome.              *)
Finish(p) ==
  /\ pane' = [p EXCEPT !.swapping = FALSE, !.wait = "no"]
  /\ reply' = "none"
  /\ Broadcast("completed", pane.op, pane.src, pane.dest)
  /\ UNCHANGED <<resourceId, armVars, opens, history>>

(* The subscription of _applySlotConfig: a failure leaves the pane in its  *)
(* first phase with a dead button.                                         *)
ApplyAnswered ==
  /\ pane.wait = "post" /\ pane.op = "applySlotConfig" /\ reply # "none"
  /\ IF reply = "error"
       THEN Finish([pane EXCEPT !.progress = "error", !.phases = <<"failed", "null">>])
       ELSE Finish(Phase2([pane EXCEPT !.progress = "success"]))

(* _setupCompletedPhase: a swap of one phase ends in a step of its own.    *)
Completed(p, multiPhase, success) ==
  [p EXCEPT !.step = IF multiPhase THEN "phase2-complete" ELSE "complete",
            !.phases = <<"done", IF success THEN "done" ELSE "failed">>]

ResetAnswered ==
  /\ pane.wait = "post" /\ pane.op = "resetSlotConfig" /\ reply # "none"
  /\ LET success == reply # "error"
     IN  Finish(Completed([pane EXCEPT !.progress =
                  IF success THEN "success" ELSE "error"], TRUE, success))

(* The outcome of a swap: the step shows which of the phases has run it.   *)
SwapFinished(progress) ==
  Finish(Completed([pane EXCEPT !.progress = progress],
                   pane.step = "phase2-executing", progress = "success"))

(* A mutant: the pane can be closed as soon as the swap is accepted. *)
SwapAnswered_ClearsBug ==
  /\ pane.wait = "post" /\ pane.op = "slotsswap" /\ reply # "none"
  /\ IF reply = "location"
       THEN /\ pane' = [pane EXCEPT !.wait = "poll", !.swapping = FALSE]
            /\ reply' = "none"
            /\ UNCHANGED <<resourceId, armVars, opens, mail, history>>
       ELSE SwapFinished("error")

SwapAnswered ==
  /\ pane.wait = "post" /\ pane.op = "slotsswap" /\ reply # "none"
  /\ IF reply = "location"
       THEN /\ pane' = [pane EXCEPT !.wait = "poll"]
            /\ reply' = "none"
            /\ UNCHANGED <<resourceId, armVars, opens, mail, history>>
       ELSE SwapFinished("error")

(* The status at the Location; any request may fail on its own.            *)
Statuses == {"error",
  CASE job[opens].state = "running" -> "202"
    [] job[opens].state = "done" -> "200"
    [] OTHER -> "error"}

(* A mutant: the filter lets a 202 pass one attempt too late. *)
Passes_OffByOneBug(status, polls) == status # "202" \/ polls = PollLimit + 1

(* take counts the answers and filter the 202 among them: what passes the  *)
(* filter is the outcome, and when take has had enough there is no other.  *)
Passes(status, polls) == status # "202" \/ polls = PollLimit
Enough(polls) == polls = PollLimit

(* A mutant: any answer that is not an error is a success. *)
Outcome_AcceptedBug(status) == IF status = "error" THEN "error" ELSE "success"

Outcome(status) ==
  CASE status = "200" -> "success" [] status = "202" -> "warning" [] OTHER -> "error"

Poll ==
  /\ pane.wait = "poll" /\ pane.polls < PollLimit
  /\ \E status \in Statuses :
       LET polls == pane.polls + 1
       IN  \/ /\ Passes(status, polls)
              /\ SwapFinished(Outcome(status))
           \/ /\ ~Passes(status, polls)
              /\ pane' = [pane EXCEPT !.polls = polls,
                            !.wait = IF Enough(polls) THEN "never" ELSE "poll"]
              /\ UNCHANGED <<resourceId, armVars, reply, opens, mail, history>>

(* The button that closes the pane is dead while an operation runs.        *)
ClosePanel ==
  /\ pane.step # "closed" /\ ~pane.swapping
  /\ pane' = Closed /\ reply' = "none"
  /\ mail' = Append(mail, Message("closed", "none", None, None))
  /\ UNCHANGED <<resourceId, armVars, opens, history>>

(* The portal takes the blade away, whatever it is doing: its subscriptions*)
(* go with it, and the page hears only that the pane is closed.            *)
Dismiss ==
  /\ pane.step # "closed"
  /\ pane' = Closed /\ reply' = "none"
  /\ mail' = Append(mail, Message("closed", "none", None, None))
  /\ unannounced' = (unannounced \/ Waiting)
  /\ UNCHANGED <<resourceId, armVars, opens, overtaken>>

----------------------------------------------------------------------------
(* ARM.  It takes an operation on two slots only when neither is pending   *)
(* with a third one nor the other way round, and no swap is running; any   *)
(* post may also fail.                                                     *)
Running == \E o \in Sessions : job[o].state = "running"

Takes(p) ==
  /\ ~Running
  /\ target[p.src] \in {None, p.dest} /\ target[p.dest] \in {None, p.src}
  /\ p.op = "resetSlotConfig" => target[p.src] = p.dest
  /\ p.op = "applySlotConfig" => role[p.src] # "dest"

(* The answer reaches the pane that is waiting for it, if it still is.     *)
Answer(p, r) ==
  reply' = IF p.from = opens /\ pane.wait = "post" THEN r ELSE reply

(* A change the page is not going to be told of: nobody waits for it.  One *)
(* that an earlier opening has left behind overtakes the pane of today.    *)
Changes(from) ==
  /\ unannounced' = (unannounced \/ ~(from = opens /\ Waiting))
  /\ overtaken' = (from # opens)

SetPair(p, t1, t2, r1, r2) ==
  /\ target' = [target EXCEPT ![p.src] = t1, ![p.dest] = t2]
  /\ role' = [role EXCEPT ![p.src] = r1, ![p.dest] = r2]

ArmRefuses ==
  \E p \in inbox :
    /\ inbox' = inbox \ {p}
    /\ Answer(p, "error")
    /\ UNCHANGED <<resourceId, target, role, job, done, pane, opens, mail, history>>

(* The settings are applied or reset at once; the answer can be lost.      *)
ArmConfigures ==
  \E p \in inbox, r \in {"ok", "error"} :
    /\ Takes(p) /\ p.op # "slotsswap"
    /\ inbox' = inbox \ {p}
    /\ IF p.op = "applySlotConfig" THEN SetPair(p, p.dest, p.src, "src", "dest")
                                   ELSE SetPair(p, None, None, "none", "none")
    /\ done' = done \cup {<<p.from, p.op>>}
    /\ Answer(p, r) /\ Changes(p.from)
    /\ UNCHANGED <<resourceId, job, pane, opens, mail>>

ArmStartsSwap ==
  \E p \in inbox, r \in {"location", "noLocation", "error"} :
    /\ Takes(p) /\ p.op = "slotsswap"
    /\ inbox' = inbox \ {p}
    /\ job' = [job EXCEPT ![p.from] = [state |-> "running", src |-> p.src, dest |-> p.dest]]
    /\ Answer(p, r)
    /\ UNCHANGED <<resourceId, target, role, done, pane, opens, mail, history>>

(* A swap that is carried out is no longer pending; one that fails may be. *)
ArmEndsSwap ==
  \E o \in Sessions, s \in {"done", "failed"} :
    /\ job[o].state = "running"
    /\ job' = [job EXCEPT ![o].state = s]
    /\ \/ SetPair(job[o], None, None, "none", "none") /\ Changes(o)
       \/ s = "failed" /\ UNCHANGED <<target, role, history>>
    /\ done' = IF s = "done" THEN done \cup {<<o, "slotsswap">>} ELSE done
    /\ UNCHANGED <<resourceId, inbox, reply, pane, opens, mail>>

ArmNext == ArmRefuses \/ ArmConfigures \/ ArmStartsSwap \/ ArmEndsSwap

PaneNext ==
  \/ PaneLoaded \/ PermissionsKnown \/ ExecutePhase1 \/ ExecutePhase2
  \/ ApplyAnswered \/ ResetAnswered \/ SwapAnswered \/ Poll
  \/ ClosePanel \/ Dismiss
=============================================================================
