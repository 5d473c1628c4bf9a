----------------------------- MODULE BusyState ------------------------------
(***************************************************************************)
(* The busy indicator of the Angular client: the event stream of           *)
(* broadcast.service.ts that every indicator shares, the scope managers    *)
(* that broadcast to it and the busy-state component, for the indicators   *)
(* of one name.                                                            *)
(*                                                                         *)
(* A manager has a key of its own and broadcasts that it is busy, or not   *)
(* any more.  The stream replays its last BufferSize events, those for     *)
(* other indicators included, to a component that is created later.  The   *)
(* component applies the last event of a key when the key has been silent  *)
(* for 50 ms, and is busy while some key is.  The component that holds the *)
(* indicator may also set and clear a reserved key directly.               *)
(*                                                                         *)
(* The debounce timers of two keys may fire in either order: they change   *)
(* different keys.  clearOverallBusyState, which nobody broadcasts, is     *)
(* left out.                                                               *)
(***************************************************************************)
EXTENDS Naturals, Sequences

CONSTANTS
  Managers,             \* the managers that use the name of the indicator
  Reserved,             \* _reservedKey, "-"
  Other,                \* the managers of other indicators
  BufferSize            \* the ReplaySubject keeps 128 events

ASSUME KeysAssumption == Reserved \notin Managers /\ Other \notin Managers
ASSUME BufferAssumption == BufferSize \in Nat \ {0}

VARIABLES
  wants,                \* what each manager has broadcast last
  events,               \* number of events broadcast
  buffer,               \* the events the stream would replay
  mounted,              \* the component exists
  pending,              \* the event each debounce timer holds
  busyStateMap,         \* the keys that are set
  busy,                 \* what the component shows
  missed                \* managers that are busy, but whose event was not replayed

vars == <<wants, events, buffer, mounted, pending, busyStateMap, busy, missed>>

Keys == Managers \cup {Reserved}
Action == {"setBusyState", "clearBusyState"}
ActionOf(isBusy) == IF isBusy THEN "setBusyState" ELSE "clearBusyState"
Event == [key : Managers \cup {Other}, action : Action]

TypeOK ==
  /\ wants \in [Keys -> BOOLEAN]
  /\ events \in Nat
  /\ buffer \in Seq(Event)
  /\ Len(buffer) <= BufferSize
  /\ mounted \in BOOLEAN
  /\ pending \in [Managers -> {"none"} \cup Action]
  /\ busyStateMap \subseteq Keys
  /\ busy \in BOOLEAN
  /\ missed \subseteq Managers

Init ==
  /\ wants = [k \in Keys |-> FALSE]
  /\ events = 0
  /\ buffer = <<>>
  /\ mounted = FALSE
  /\ pending = [m \in Managers |-> "none"]
  /\ busyStateMap = {}
  /\ busy = FALSE
  /\ missed = {}
-----------------------------------------------------------------------------
\* (The operators named ..._Bug are plausible mistakes, for checking that the
\* properties see them; nothing uses them.)
\* The oldest event goes one event too early.
Replayed_ShortBug(e) ==
  IF Len(buffer) + 1 < BufferSize THEN Append(buffer, e) ELSE Append(Tail(buffer), e)

\* The stream after one more event; the oldest one goes when it is full.
Replayed(e) ==
  IF Len(buffer) < BufferSize THEN Append(buffer, e) ELSE Append(Tail(buffer), e)

\* _debounceEventsBasedOnKey: the last event of a key counts.
Debounce(m, action) == pending' = [pending EXCEPT ![m] = action]

\* setBusy and clearBusy of a manager: the component hears it, if it exists.
Broadcast(m, isBusy) ==
  /\ events' = events + 1
  /\ wants' = [wants EXCEPT ![m] = isBusy]
  /\ buffer' = Replayed([key |-> m, action |-> ActionOf(isBusy)])
  /\ \/ mounted /\ Debounce(m, ActionOf(isBusy)) /\ missed' = missed \ {m}
     \/ ~mounted /\ UNCHANGED <<pending, missed>>
  /\ UNCHANGED <<mounted, busyStateMap, busy>>

\* An event for another indicator takes its place in the stream.
BroadcastOther ==
  /\ events' = events + 1
  /\ \E action \in Action : buffer' = Replayed([key |-> Other, action |-> action])
  /\ UNCHANGED <<wants, mounted, pending, busyStateMap, busy, missed>>

\* The events of a manager that the stream still has, and the last of them.
Heard(m) == {i \in 1 .. Len(buffer) : buffer[i].key = m}

LastHeard(m) ==
  IF Heard(m) = {} THEN "none"
  ELSE buffer[CHOOSE i \in Heard(m) : \A j \in Heard(m) : j <= i].action

\* ngOnInit: the component is created and the stream is replayed to it, at once.
Create ==
  /\ ~mounted
  /\ mounted' = TRUE
  /\ pending' = [m \in Managers |-> LastHeard(m)]
  /\ missed' = {m \in Managers : wants[m] /\ Heard(m) = {}}
  /\ UNCHANGED <<wants, events, buffer, busyStateMap, busy>>

\* ngOnDestroy: the next component starts anew.  The holder of the indicator goes
\* with it.
Destroy ==
  /\ mounted
  /\ mounted' = FALSE
  /\ wants' = [wants EXCEPT ![Reserved] = FALSE]
  /\ pending' = [m \in Managers |-> "none"]
  /\ busyStateMap' = {}
  /\ busy' = FALSE
  /\ missed' = {}
  /\ UNCHANGED <<events, buffer>>
-----------------------------------------------------------------------------
\* setScopedBusyState.
Set(k) ==
  /\ busyStateMap' = busyStateMap \cup {k}
  /\ busy' = TRUE

\* clearBusyState takes the indicator away while another key is set.
Clear_AllBug(k) ==
  /\ busyStateMap' = busyStateMap \ {k}
  /\ busy' = FALSE

\* clearBusyState.
Clear(k) ==
  /\ busyStateMap' = busyStateMap \ {k}
  /\ busy' = (busyStateMap' # {})

\* The timer of a key runs, and only a set is applied.
Fire_SetBug(m) ==
  /\ pending[m] = "setBusyState" /\ Set(m)
  /\ pending' = [pending EXCEPT ![m] = "none"]
  /\ UNCHANGED <<wants, events, buffer, mounted, missed>>

\* The key has been silent for 50 ms.
Fire(m) ==
  /\ \/ pending[m] = "setBusyState" /\ Set(m)
     \/ pending[m] = "clearBusyState" /\ Clear(m)
  /\ pending' = [pending EXCEPT ![m] = "none"]
  /\ UNCHANGED <<wants, events, buffer, mounted, missed>>

\* setBusyState and clearBusyState, called on the component.
Direct ==
  /\ mounted
  /\ \/ Set(Reserved) /\ wants' = [wants EXCEPT ![Reserved] = TRUE]
     \/ Clear(Reserved) /\ wants' = [wants EXCEPT ![Reserved] = FALSE]
  /\ UNCHANGED <<events, buffer, mounted, pending, missed>>

Next ==
  \/ \E m \in Managers : Fire(m) \/ \E isBusy \in BOOLEAN : Broadcast(m, isBusy)
  \/ BroadcastOther \/ Create \/ Destroy \/ Direct

Spec == Init /\ [][Next]_vars
-----------------------------------------------------------------------------
\* Once its timers have run, the component is busy exactly when a manager is, or
\* its holder: it is neither stuck nor cleared by another manager, whether the
\* events were heard or replayed (busy-state.component.ts:84-103, 136-160).  A
\* manager whose event was not replayed is not counted.
SettledBusy ==
  mounted /\ (\A m \in Managers : pending[m] = "none") =>
    (busy <=> \E k \in Keys \ missed : wants[k])

\* No manager is missed before the stream has overflowed
\* (broadcast.service.ts:69-71, "so that we don't lose events").
NothingMissed == missed # {} => events > BufferSize

\* A manager that stays busy is shown, and when all are done the indicator goes
\* (busy-state.component.ts:141-154).
Shown ==
  /\ \A m \in Managers :
       <>[](mounted /\ wants[m] /\ m \notin missed) => <>[]busy
  /\ <>[](\A k \in Keys : ~wants[k]) => <>[]~busy

\* What is needed besides to make these properties inductive: the events that are
\* replayed or wait for a timer end with what their manager wants, a key that is
\* at rest is set exactly when its manager wants it, and no event has been lost
\* from a stream that has not overflowed.
Replay ==
  \A m \in Managers :
    /\ LastHeard(m) # "none" => LastHeard(m) = ActionOf(wants[m])
    /\ wants[m] /\ Heard(m) = {} => events > BufferSize

AtRest ==
  /\ ~mounted => /\ busyStateMap = {} /\ missed = {} /\ ~wants[Reserved]
                 /\ \A m \in Managers : pending[m] = "none"
  /\ wants[Reserved] <=> Reserved \in busyStateMap
  /\ \A m \in Managers :
       /\ pending[m] # "none" => pending[m] = ActionOf(wants[m]) /\ m \notin missed
       /\ mounted /\ pending[m] = "none" =>
            (m \in busyStateMap <=> wants[m] /\ m \notin missed)

IInv ==
  /\ TypeOK
  /\ Replay
  /\ AtRest
  /\ Len(buffer) < BufferSize => Len(buffer) = events
  /\ Len(buffer) = BufferSize => events >= BufferSize
  /\ busy <=> busyStateMap # {}
  /\ NothingMissed
=============================================================================
