-------------------------- MODULE DeploymentSlots --------------------------
(***************************************************************************)
(* The page of the deployment slots of a site or of one slot, with the     *)
(* pane that it opens to swap slots (module SwapSlots).                    *)
(*                                                                         *)
(* client/src/app/site/slots/deployment-slots/deployment-slots.component.ts*)
(*                                                                         *)
(* The page learns what the pane does from its messages alone: it shows    *)
(* the target of a swap from the moment it starts and loads everything     *)
(* again when it ends.  A new load abandons the one under way (switchMap). *)
(* The percentages of traffic on the page are a form: what would drop its  *)
(* edits asks the user first, who may decline.                             *)
(*                                                                         *)
(* Bound: MaxSaves limits the saves that are under way at the same time.   *)
(***************************************************************************)
EXTENDS SwapSlots, Functions

CONSTANTS
  Absent,      \* siteArm is null: not loaded, or it could not be
  MaxSaves     \* bound on the saves that overlap

ASSUME PageAssumption == MaxSaves \in Nat \ {0}

VARIABLES
  siteArm,      \* the target the page shows for its slot, or Absent
  loaded,       \* which of slots and configuration the page has
  load,         \* where the load of the page is
  read,         \* what its requests have read, once they have
  flags,        \* what decides the commands, and what the load resets
  disabled,     \* the commands that are disabled
  form,         \* mainForm: there is none, or it is clean or edited
  editable,     \* its rules can be edited
  saves         \* saves that wait for their notification, and for their answer

formVars == <<form, editable>>
pageVars == <<siteArm, loaded, load, read, flags, disabled, formVars, saves>>
vars == <<paneVars, pageVars>>

Unread == [slots |-> FALSE, config |-> FALSE, target |-> Absent]

(* What the plan of the site and the permissions of the user allow.        *)
NoAccess == [write |-> FALSE, swap |-> FALSE]

----------------------------------------------------------------------------
(* _updateDisabledState.  The command that refreshes is not among them.    *)
DisabledState(f, l) ==
  LET held == f.saving \/ f.swapControlsOpen
  IN  [save       |-> held \/ ~f.access.write \/ ~l.config,
       swap       |-> held \/ ~f.access.swap \/ ~l.slots,
       navigation |-> resourceId # Production \/ f.swapControlsOpen]

UpdateDisabledState ==
  /\ disabled' = DisabledState(flags', loaded')
  /\ editable' = (form' # "none" /\ resourceId = Production /\ ~disabled'.save)

(* _setupForm: a form without edits, if the page has what it is made of.   *)
FormFor(l) == IF l.slots /\ l.config THEN "clean" ELSE "none"

(* Rules that cannot be edited leave the form as a whole pristine.         *)
Dirty == form = "edited" /\ editable

(* _confirmIfDirty, with the consent of the user.                          *)
Confirmed == IF Dirty THEN FormFor(loaded) ELSE form

(* The head of setup: everything is forgotten and three requests are sent. *)
Nothing == [slots |-> FALSE, config |-> FALSE]

(* Mutants: what an earlier load has read is still taken up (mergeMap), or *)
(* the load forgets the pane with the save.                                *)
StartLoad_MergesBug(f) ==
  /\ flags' = [f EXCEPT !.access = NoAccess, !.saving = FALSE]
  /\ siteArm' = Absent /\ loaded' = Nothing
  /\ load' = (IF load = "read" THEN load ELSE "content")
  /\ read' = (IF load = "read" THEN read ELSE Unread)
  /\ form' = Confirmed
  /\ UpdateDisabledState

StartLoad_ForgetsPaneBug(f) ==
  /\ flags' = [f EXCEPT !.access = NoAccess, !.saving = FALSE, !.swapControlsOpen = FALSE]
  /\ siteArm' = Absent /\ loaded' = Nothing
  /\ load' = "content" /\ read' = Unread
  /\ form' = Confirmed
  /\ UpdateDisabledState

(* A save that is under way goes on, but the page is no longer saving.     *)
StartLoad(f) ==
  /\ flags' = [f EXCEPT !.access = NoAccess, !.saving = FALSE]
  /\ siteArm' = Absent /\ loaded' = Nothing
  /\ load' = "content" /\ read' = Unread
  /\ form' = Confirmed
  /\ UpdateDisabledState

(* refresh: the load reads past the cache.                                 *)
Refresh(f) == StartLoad([f EXCEPT !.refreshing = TRUE])

Init ==
  /\ SwapInit
  /\ flags = [refreshing |-> FALSE, saving |-> FALSE, swapControlsOpen |-> FALSE,
              swapOperationsComplete |-> TRUE, access |-> NoAccess]
  /\ siteArm = Absent /\ loaded = Nothing /\ load = "content" /\ read = Unread
  /\ disabled = DisabledState(flags, loaded)
  /\ form = "none" /\ editable = FALSE
  /\ saves = [begun |-> 0, posted |-> 0]

(* The requests are answered; any may fail.  The target of the page's own  *)
(* slot comes from the site or from the list of the slots.                 *)
ContentRead ==
  /\ load = "content"
  /\ \E site, slots, config \in BOOLEAN :
       read' = [slots |-> slots, config |-> config,
                target |-> IF (resourceId = Production /\ site)
                              \/ (resourceId # Production /\ slots)
                             THEN target[resourceId] ELSE Absent]
  /\ load' = "read"
  /\ unannounced' = (unannounced /\ \E m \in Range(mail) : m.kind = "started")
  /\ UNCHANGED <<resourceId, armVars, reply, pane, opens, mail, overtaken,
                 siteArm, loaded, flags, disabled, formVars, saves>>

(* The second stage of setup takes the content up and asks for the access. *)
(* The new form cannot be edited before that is known; a configuration     *)
(* that could not be read is the one a save has brought, if any.           *)
ContentLoaded ==
  /\ load = "read"
  /\ siteArm' = read.target
  /\ loaded' = [slots |-> read.slots, config |-> read.config \/ loaded.config]
  /\ form' = FormFor(loaded') /\ editable' = FALSE
  /\ load' = "permissions" /\ read' = Unread
  /\ UNCHANGED <<paneVars, flags, disabled, saves>>

(* The last stage: only now are the commands what the flags make them.     *)
PermissionsLoaded ==
  /\ load = "permissions"
  /\ \E access \in [write: BOOLEAN, swap: BOOLEAN] :
       flags' = [flags EXCEPT !.access = access, !.refreshing = FALSE]
  /\ load' = "idle"
  /\ UNCHANGED <<paneVars, siteArm, loaded, read, form, saves>>
  /\ UpdateDisabledState

(* The command of the page: it is bound to fetchingContent and to nothing  *)
(* else, neither to a save nor to an open pane nor to the last stage.      *)
RefreshCommand ==
  /\ load \notin {"content", "read"}
  /\ Refresh(flags)
  /\ UNCHANGED <<paneVars, saves>>

Edit ==
  /\ editable /\ form = "clean"
  /\ form' = "edited"
  /\ UNCHANGED <<paneVars, siteArm, loaded, load, read, flags, disabled, editable, saves>>

Discard ==
  /\ Dirty /\ ~disabled.save
  /\ form' = FormFor(loaded)
  /\ UNCHANGED <<paneVars, siteArm, loaded, load, read, flags, disabled, editable, saves>>

(* A save starts with a notification of the portal.                        *)
Save ==
  /\ Dirty /\ ~disabled.save /\ saves.begun + saves.posted < MaxSaves
  /\ flags' = [flags EXCEPT !.saving = TRUE]
  /\ saves' = [saves EXCEPT !.begun = @ + 1]
  /\ UNCHANGED <<paneVars, siteArm, loaded, load, read, form>>
  /\ UpdateDisabledState

(* Once that is open, the configuration and the form of that moment are    *)
(* put together and sent; if a load has taken them away, the save breaks   *)
(* off without another word.                                               *)
SavePosted ==
  /\ saves.begun > 0
  /\ saves' = [begun  |-> saves.begun - 1,
               posted |-> IF loaded.config /\ form # "none"
                            THEN saves.posted + 1 ELSE saves.posted]
  /\ UNCHANGED <<paneVars, siteArm, loaded, load, read, flags, disabled, formVars>>

(* A success replaces the form after the commands have been brought up to  *)
(* date: on a loaded page it can be edited, even beside an open pane.      *)
SaveAnswered ==
  /\ saves.posted > 0
  /\ saves' = [saves EXCEPT !.posted = @ - 1]
  /\ flags' = [flags EXCEPT !.saving = FALSE]
  /\ \/ /\ loaded' = [loaded EXCEPT !.config = TRUE]
        /\ form' = FormFor(loaded')
        /\ disabled' = DisabledState(flags', loaded')
        /\ editable' = (form' # "none" /\ resourceId = Production /\ load = "idle")
     \/ UNCHANGED <<loaded, form>> /\ UpdateDisabledState
  /\ UNCHANGED <<paneVars, siteArm, load, read>>

ShowSwapControls ==
  /\ ~disabled.swap
  /\ OpenPane
  /\ flags' = [flags EXCEPT !.swapControlsOpen = TRUE, !.swapOperationsComplete = FALSE]
  /\ form' = Confirmed
  /\ UNCHANGED <<resourceId, armVars, mail, history,
                 siteArm, loaded, load, read, saves>>
  /\ UpdateDisabledState

----------------------------------------------------------------------------
(* What the page does with a message of the pane.                          *)
Heard == Head(mail)

Receive ==
  /\ mail # <<>>
  /\ mail' = Tail(mail)
  /\ UNCHANGED <<resourceId, armVars, reply, pane, opens, overtaken, saves>>

(* _setTargetSwapSlot, or null for a reset; nothing without a siteArm.     *)
SwapStarted ==
  /\ Receive /\ Heard.kind = "started"
  /\ siteArm' = IF siteArm = Absent THEN Absent
                ELSE IF Heard.op = "resetSlotConfig" THEN None
                ELSE IF resourceId = Heard.src THEN Heard.dest ELSE Heard.src
  /\ UNCHANGED <<unannounced, loaded, load, read, flags, disabled, formVars>>

(* The page loads again, unless that would drop edits and the user says no:*)
(* then it is left without what has become of the operation.               *)
SwapCompleted ==
  LET heard == [flags EXCEPT !.swapOperationsComplete = Heard.op # "applySlotConfig"]
  IN  /\ Receive /\ Heard.kind = "completed"
      /\ \/ Refresh(heard) /\ UNCHANGED unannounced
         \/ /\ Dirty /\ flags' = heard /\ unannounced' = TRUE
            /\ UNCHANGED <<siteArm, loaded, load, read, disabled, formVars>>

(* Mutants: the commands, the dirty mark, or (when the page is refreshing)  *)
(* the open pane are forgotten.                                            *)
PaneClosed_NoUpdateBug ==
  /\ Receive /\ Heard.kind = "closed"
  /\ flags' = [flags EXCEPT !.swapControlsOpen = FALSE, !.swapOperationsComplete = TRUE]
  /\ UNCHANGED <<unannounced, siteArm, loaded, load, read, disabled, formVars>>

PaneClosed_StaysDirtyBug ==
  /\ Receive /\ Heard.kind = "closed"
  /\ flags' = [flags EXCEPT !.swapControlsOpen = FALSE]
  /\ UNCHANGED <<unannounced, siteArm, loaded, load, read, form>>
  /\ IF flags.refreshing THEN UNCHANGED <<disabled, editable>> ELSE UpdateDisabledState

PaneClosed_WaitsForRefreshBug ==
  /\ Receive /\ Heard.kind = "closed"
  /\ UNCHANGED <<unannounced, siteArm, loaded, load, read, form>>
  /\ IF flags.refreshing
       THEN UNCHANGED <<flags, disabled, editable>>
       ELSE /\ flags' = [flags EXCEPT !.swapControlsOpen = FALSE,
                                     !.swapOperationsComplete = TRUE]
            /\ UpdateDisabledState

(* The result of openFrameBlade; a refresh will see to the commands.       *)
PaneClosed ==
  /\ Receive /\ Heard.kind = "closed"
  /\ flags' = [flags EXCEPT !.swapControlsOpen = FALSE, !.swapOperationsComplete = TRUE]
  /\ UNCHANGED <<unannounced, siteArm, loaded, load, read, form>>
  /\ IF flags.refreshing THEN UNCHANGED <<disabled, editable>> ELSE UpdateDisabledState

PageNext ==
  \/ ContentRead \/ ContentLoaded \/ PermissionsLoaded
  \/ RefreshCommand \/ Edit \/ Discard \/ Save \/ SavePosted \/ SaveAnswered
  \/ ShowSwapControls
  \/ SwapStarted \/ SwapCompleted \/ PaneClosed

Next ==
  \/ PageNext
  \/ (PaneNext \/ ArmNext) /\ UNCHANGED pageVars

Spec == Init /\ [][Next]_vars

(* The loads of the page, its saves, the messages the portal relays, and   *)
(* the operations of the pane with their polls all go on: each request is  *)
(* answered in the end.  Nobody is obliged to press a button.              *)
Operates ==
  \/ ApplyAnswered \/ ResetAnswered \/ SwapAnswered \/ Poll
  \/ ArmRefuses \/ ArmConfigures \/ ArmStartsSwap

Fairness ==
  /\ WF_vars(ContentRead \/ ContentLoaded \/ PermissionsLoaded)
  /\ WF_vars(SavePosted \/ SaveAnswered)
  /\ WF_vars(SwapStarted \/ SwapCompleted \/ PaneClosed)
  /\ WF_vars(Operates /\ UNCHANGED pageVars)

FairSpec == Spec /\ Fairness

----------------------------------------------------------------------------
(* The values of the variables: what the page and the pane show, and what  *)
(* ARM and the portal hold for them.                                       *)
TypeOK ==
  /\ resourceId \in Sites /\ target \in [Sites -> Sites \cup {None}]
  /\ role \in [Sites -> {"src", "dest", "none"}]
  /\ inbox \subseteq [op: Operations, src: Slots, dest: Sites, from: Sessions]
  /\ job \in [Sessions -> [state: {"none", "running", "done", "failed"},
                           src: Slots \cup {None}, dest: Sites \cup {None}]]
  /\ done \subseteq Sessions \X Operations
  /\ reply \in {"none", "ok", "error", "location", "noLocation"}
  /\ pane.step \in {"closed", "loading", "phase1", "phase1-executing", "phase2-loading",
                    "phase2", "phase2-executing", "complete", "phase2-complete"}
  /\ pane.wait \in {"no", "post", "poll"} /\ pane.polls \in 0..PollLimit
  /\ pane.src \in Slots \cup {None} /\ pane.dest \in Sites \cup {None}
  /\ opens \in 0..MaxOpens
  /\ saves.begun \in 0..MaxSaves /\ saves.posted \in 0..MaxSaves
  /\ form \in {"none", "clean", "edited"} /\ editable \in BOOLEAN
  /\ unannounced \in BOOLEAN /\ overtaken \in BOOLEAN
  /\ siteArm \in Sites \cup {None, Absent}
  /\ load \in {"content", "read", "permissions", "idle"}

(* The close button comes back only when the operation is over: while a    *)
(* post is unanswered or a swap is polled the pane counts as swapping.     *)
SwappingCoversOperation == Waiting => pane.swapping

(* What the pane reports as a success has been carried out by ARM, and by  *)
(* the post of this opening: never by an attempt that ran out or a 202.    *)
SuccessIsTrue == pane.progress = "success" => <<opens, pane.op>> \in done

(* The phases of the pane never run ahead of ARM: the second phase is      *)
(* offered for a swap only if that swap is the one that is pending, with   *)
(* its source and destination the right way round when the destination is  *)
(* production or the pane was opened on the source (_loadPhase2 knows no   *)
(* more than one target).  Only an operation that a dismissed pane has     *)
(* left behind can have changed that since the pane read the slots.        *)
SecondPhaseIsPending ==
  pane.step = "phase2" /\ ~overtaken =>
    /\ target[pane.src] = pane.dest /\ target[pane.dest] = pane.src
    /\ pane.dest = Production \/ role[resourceId] # "dest" => role[pane.src] = "src"

(* A page at rest: its load is over and it has heard all the pane had to   *)
(* say, which is open no more.                                             *)
AtRest == load = "idle" /\ mail = <<>> /\ pane.step = "closed"

(* The page at rest shows the target ARM has for its slot, if it shows     *)
(* any, unless the slot was changed by what no pane has told it of.  The   *)
(* reads that were under way when an operation ended are never taken up.   *)
ViewSettles == AtRest /\ ~unannounced => siteArm \in {Absent, target[resourceId]}

(* The commands of a loaded page are the ones its flags call for, though   *)
(* the flags change at moments when the commands are left alone.           *)
CommandsFollowFlags == load = "idle" => disabled = DisabledState(flags, loaded)

(* From the moment the pane opens until the page has heard that it is gone *)
(* the page neither saves nor offers to save or to open another pane,      *)
(* whatever it loads and whichever earlier saves are answered meanwhile.   *)
PaneHoldsPage ==
  pane.step # "closed" \/ mail # <<>> =>
    ~flags.saving /\ disabled.save /\ disabled.swap

(* The page stops being dirty because of a swap when the pane is gone,     *)
(* whatever has become of the operations of the pane.                      *)
CleanWhenClosed == AtRest => flags.swapOperationsComplete

(* An operation ends: the pane does not wait for ever.                     *)
SwapEnds == pane.swapping ~> ~pane.swapping

(* The pane being closed, the page gets its commands back: unless the user *)
(* refreshes it for ever, it is neither loading nor saving nor held by a   *)
(* pane after a while.                                                     *)
PageSettles ==
  <>[][~RefreshCommand]_vars =>
    (pane.step = "closed" ~>
       ~flags.refreshing /\ ~flags.saving /\ ~flags.swapControlsOpen)
=============================================================================
