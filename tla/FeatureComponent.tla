-------------------------- MODULE FeatureComponent --------------------------
(***************************************************************************)
(* The life of the feature components of the Angular client                *)
(* (feature-component.ts, navigable-component.ts), which share a busy      *)
(* indicator: each of them is a manager of BusyState.                      *)
(*                                                                         *)
(* An input makes the component busy before it comes to setup, which may   *)
(* ignore it: a component of a dashboard is given the navigation to other  *)
(* dashboards too, and the router destroys it then.  Setup works on the    *)
(* last input (switchMap); it says that it is done by a result, or, in     *)
(* some components, before that with clearBusyEarly.  An error ends the    *)
(* stream of inputs for good.  Operations of the page, such as a save, set *)
(* and clear the busy state of the component with the same key.            *)
(***************************************************************************)
EXTENDS BusyState

CONSTANTS
  Early,                \* the components whose setup calls clearBusyEarly
  MaxInputs             \* bound: inputs, operations and events for other indicators

ASSUME EarlyAssumption == Early \subseteq Managers
ASSUME MaxInputsAssumption == MaxInputs \in Nat

VARIABLES
  life,                 \* "open", "ended" (by an error of setup) or "destroyed"
  work,                 \* setup: "idle", "loading" or "background"
  busyClearedEarly,     \* __busyClearedEarly
  operation,            \* an operation of the page is under way
  leaving,              \* the router is about to destroy the component
  inputs                \* number of inputs, operations and other events

featureVars == <<life, work, busyClearedEarly, operation, leaving, inputs>>
allVars == <<vars, featureVars>>

Life == {"open", "ended", "destroyed"}
Work == {"idle", "loading", "background"}

FeatureTypeOK ==
  /\ life \in [Managers -> Life]
  /\ work \in [Managers -> Work]
  /\ busyClearedEarly \in [Managers -> BOOLEAN]
  /\ operation \in [Managers -> BOOLEAN]
  /\ leaving \in [Managers -> BOOLEAN]
  /\ inputs \in Nat

FeatureInit ==
  /\ Init
  /\ life = [f \in Managers |-> "open"]
  /\ work = [f \in Managers |-> "idle"]
  /\ busyClearedEarly = [f \in Managers |-> FALSE]
  /\ operation = [f \in Managers |-> FALSE]
  /\ leaving = [f \in Managers |-> FALSE]
  /\ inputs = 0

CountInput == inputs < MaxInputs /\ inputs' = inputs + 1
-----------------------------------------------------------------------------
\* setInput: the component is busy, whether setup takes the input or filters it out.
\* (After an error nobody listens any more, and after ngOnDestroy neither.)
SetInput(f) ==
  /\ CountInput
  /\ life[f] = "open"
  /\ Broadcast(f, TRUE)
  /\ \/ work' = [work EXCEPT ![f] = "loading"] /\ UNCHANGED leaving
     \/ leaving' = [leaving EXCEPT ![f] = TRUE] /\ UNCHANGED work
  /\ UNCHANGED <<life, busyClearedEarly, operation>>

\* clearBusyEarly.
ClearBusyEarly(f) ==
  /\ f \in Early
  /\ work[f] = "loading"
  /\ Broadcast(f, FALSE)
  /\ work' = [work EXCEPT ![f] = "background"]
  /\ busyClearedEarly' = [busyClearedEarly EXCEPT ![f] = TRUE]
  /\ UNCHANGED <<life, operation, leaving, inputs>>

\* Setup has come to its result.
Done(f) == work[f] = IF f \in Early THEN "background" ELSE "loading"

\* A result of setup: the end of its work.  It clears the busy state of a component
\* that has never done so itself.
SetupEmits(f) ==
  /\ Done(f)
  /\ work' = [work EXCEPT ![f] = "idle"]
  /\ IF busyClearedEarly[f] THEN UNCHANGED vars ELSE Broadcast(f, FALSE)
  /\ UNCHANGED <<life, busyClearedEarly, operation, leaving, inputs>>

\* (The operators named ..._Bug are plausible mistakes, for checking that the
\* properties see them; nothing uses them.)
\* An error of setup is logged, and no more.
SetupFails_LogBug(f) ==
  /\ life[f] = "open"
  /\ work[f] # "idle"
  /\ life' = [life EXCEPT ![f] = "ended"]
  /\ work' = [work EXCEPT ![f] = "idle"]
  /\ UNCHANGED vars
  /\ UNCHANGED <<busyClearedEarly, operation, leaving, inputs>>

\* An error of setup.
SetupFails(f) ==
  /\ life[f] = "open"
  /\ work[f] # "idle"
  /\ life' = [life EXCEPT ![f] = "ended"]
  /\ work' = [work EXCEPT ![f] = "idle"]
  /\ Broadcast(f, FALSE)
  /\ UNCHANGED <<busyClearedEarly, operation, leaving, inputs>>

\* A component that goes leaves its busy state behind.
DestroyFeature_SilentBug(f) ==
  /\ life[f] # "destroyed"
  /\ life' = [life EXCEPT ![f] = "destroyed"]
  /\ work' = [work EXCEPT ![f] = "idle"]
  /\ leaving' = [leaving EXCEPT ![f] = FALSE]
  /\ UNCHANGED vars
  /\ UNCHANGED <<busyClearedEarly, operation, inputs>>

\* ngOnDestroy.
DestroyFeature(f) ==
  /\ life[f] # "destroyed"
  /\ life' = [life EXCEPT ![f] = "destroyed"]
  /\ work' = [work EXCEPT ![f] = "idle"]
  /\ leaving' = [leaving EXCEPT ![f] = FALSE]
  /\ Broadcast(f, FALSE)
  /\ UNCHANGED <<busyClearedEarly, operation, inputs>>

\* setBusy and clearBusy, called by an operation of the page; its answer may come
\* after the component has gone.
StartOperation(f) ==
  /\ CountInput
  /\ life[f] # "destroyed"
  /\ ~operation[f]
  /\ operation' = [operation EXCEPT ![f] = TRUE]
  /\ Broadcast(f, TRUE)
  /\ UNCHANGED <<life, work, busyClearedEarly, leaving>>

EndOperation(f) ==
  /\ operation[f]
  /\ operation' = [operation EXCEPT ![f] = FALSE]
  /\ Broadcast(f, FALSE)
  /\ UNCHANGED <<life, work, busyClearedEarly, leaving, inputs>>

\* The steps of the indicator and of other features.
IndicatorStep ==
  /\ \/ \E m \in Managers : Fire(m)
     \/ Create \/ Destroy \/ Direct
  /\ UNCHANGED featureVars

OtherFeature ==
  /\ CountInput
  /\ BroadcastOther
  /\ UNCHANGED <<life, work, busyClearedEarly, operation, leaving>>
-----------------------------------------------------------------------------
\* Setup comes to its end, or to the point where the component is shown.
Answered(f) == ClearBusyEarly(f) \/ SetupEmits(f) \/ SetupFails(f)

FeatureNext ==
  \/ \E f \in Managers :
       \/ SetInput(f) \/ Answered(f) \/ DestroyFeature(f)
       \/ StartOperation(f) \/ EndOperation(f)
  \/ IndicatorStep \/ OtherFeature

FeatureSpec == FeatureInit /\ [][FeatureNext]_allVars

\* The requests of setup and of an operation are answered, the router destroys the
\* component it has navigated away from, and the timers of the indicator run.
FeatureFairness ==
  \A f \in Managers :
    /\ WF_allVars(Answered(f))
    /\ WF_allVars(EndOperation(f))
    /\ WF_allVars(leaving[f] /\ DestroyFeature(f))
    /\ WF_allVars(Fire(f) /\ UNCHANGED featureVars)
-----------------------------------------------------------------------------
\* A component is busy only while there is something it waits for, whatever inputs,
\* errors, operations and early ends come together (feature-component.ts:60-76,
\* 125-131): nothing leaves the indicator on.
BusyHasReason ==
  \A f \in Managers : wants[f] => work[f] = "loading" \/ operation[f] \/ leaving[f]

\* A component that is busy stops being so (feature-component.ts:60-76, 125-131).
FeatureSettles == \A f \in Managers : wants[f] ~> ~wants[f]

\* What is needed besides to make BusyHasReason inductive: a component that has
\* gone, or whose stream of inputs has ended, has no work, and only one whose setup
\* clears early has done so.
FeatureIInv ==
  /\ FeatureTypeOK
  /\ BusyHasReason
  /\ \A f \in Managers :
       /\ work[f] # "idle" => life[f] = "open"
       /\ work[f] = "background" => f \in Early
       /\ busyClearedEarly[f] => f \in Early
       /\ leaving[f] => life[f] # "destroyed"
=============================================================================
