----------------------- MODULE FeatureComponentProofs -----------------------
(***************************************************************************)
(* Theorems about BusyState and FeatureComponent, for any number of        *)
(* components, events and inputs, and any size of the stream.              *)
(***************************************************************************)
EXTENDS FeatureComponent, TLAPS, WellFoundedInduction

-----------------------------------------------------------------------------
(* Events of the stream.                                                   *)

\* A set of positions that is not empty has a greatest one, and CHOOSE finds it.
LEMMA Greatest ==
  ASSUME NEW n \in Nat, NEW H \in SUBSET (1 .. n), H # {}
  PROVE  LET i == CHOOSE i \in H : \A j \in H : j <= i
         IN  i \in H /\ \A j \in H : j <= i
<1> DEFINE T == {n - i : i \in H}
<1>1. T \subseteq Nat /\ T # {}
  <2>1. \A i \in H : n - i \in Nat
    OBVIOUS
  <2>2. PICK i \in H : TRUE
    OBVIOUS
  <2>3. n - i \in T
    OBVIOUS
  <2> QED BY <2>1, <2>3
<1>2. PICK x \in T : \A y \in T : ~ (<<y, x>> \in OpToRel(<, Nat))
  <2> HIDE DEF T
  <2> QED BY <1>1, WFMin, NatLessThanWellFounded
<1>3. \A y \in T : ~ (y < x)
  BY <1>1, <1>2 DEF OpToRel
<1>4. PICK i \in H : x = n - i
  OBVIOUS
<1>5. \A j \in H : j <= i
  <2> TAKE j \in H
  <2>1. n - j \in T
    OBVIOUS
  <2>2. ~ (n - j < n - i)
    BY <1>3, <1>4, <2>1
  <2> QED BY <2>2
<1> QED BY <1>4, <1>5

\* The events of a manager that the stream has.
LEMMA HeardType ==
  ASSUME TypeOK, NEW m
  PROVE  Len(buffer) \in Nat /\ Heard(m) \in SUBSET (1 .. Len(buffer))
BY DEF TypeOK, Heard

\* What is replayed of a manager is its last event.
LEMMA LastOf ==
  ASSUME NEW m, NEW n \in Nat, Heard(m) \in SUBSET (1 .. n), Heard(m) # {}
  PROVE  \E i \in Heard(m) : /\ \A j \in Heard(m) : j <= i
                             /\ LastHeard(m) = buffer[i].action
BY Greatest DEF LastHeard

\* The same of the next state.
LEMMA LastOfNext ==
  ASSUME NEW m, NEW n \in Nat, Heard(m)' \in SUBSET (1 .. n), Heard(m)' # {}
  PROVE  \E i \in Heard(m)' : /\ \A j \in Heard(m)' : j <= i
                              /\ LastHeard(m)' = buffer'[i].action
BY Greatest DEF LastHeard

\* One more event: its manager ends with it, and the others end as before, unless
\* the stream was full and has lost what it had of them.
LEMMA Heard_Replayed ==
  ASSUME TypeOK, NEW e \in Event, buffer' = Replayed(e)
  PROVE  /\ buffer' \in Seq(Event) /\ Len(buffer') \in 1 .. BufferSize
         /\ Len(buffer) < BufferSize => Len(buffer') = Len(buffer) + 1
         /\ Len(buffer) = BufferSize => Len(buffer') = BufferSize
         /\ Heard(e.key)' # {} /\ LastHeard(e.key)' = e.action
         /\ \A m : m # e.key =>
              /\ Heard(m)' # {} => Heard(m) # {} /\ LastHeard(m)' = LastHeard(m)
              /\ Heard(m)' = {} /\ Len(buffer) < BufferSize => Heard(m) = {}
<1> DEFINE n == Len(buffer')
<1>0. /\ buffer \in Seq(Event) /\ Len(buffer) \in Nat /\ Len(buffer) <= BufferSize
      /\ BufferSize \in Nat \ {0}
  BY BufferAssumption DEF TypeOK
<1>1. PICK d \in {0, 1} :
        /\ buffer' \in Seq(Event)
        /\ n = Len(buffer) + 1 - d
        /\ n \in 1 .. BufferSize
        /\ Len(buffer) < BufferSize <=> d = 0
        /\ buffer'[n] = e
        /\ \A i \in 1 .. n - 1 : i + d \in 1 .. Len(buffer) /\ buffer'[i] = buffer[i + d]
  <2>1. CASE Len(buffer) < BufferSize
    <3>1. buffer' = Append(buffer, e)
      BY <2>1 DEF Replayed
    <3>2. WITNESS 0 \in {0, 1}
    <3> QED BY <1>0, <2>1, <3>1
  <2>2. CASE Len(buffer) = BufferSize
    <3>1. buffer' = Append(Tail(buffer), e)
      BY <2>2, <1>0 DEF Replayed
    <3>2. Tail(buffer) \in Seq(Event) /\ Len(Tail(buffer)) = Len(buffer) - 1
      BY <1>0, <2>2
    <3>3. \A i \in 1 .. Len(buffer) - 1 : Tail(buffer)[i] = buffer[i + 1]
      BY <1>0, <2>2
    <3>4. WITNESS 1 \in {0, 1}
    <3> QED BY <1>0, <2>2, <3>1, <3>2, <3>3
  <2> QED BY <1>0, <2>1, <2>2
<1> HIDE DEF n
<1>2. n \in Nat /\ \A m : Heard(m)' = {i \in 1 .. n : buffer'[i].key = m}
  BY <1>1 DEF n, Heard
<1>3. \A m : Heard(m) = {i \in 1 .. Len(buffer) : buffer[i].key = m}
  BY DEF Heard
<1>4. n \in Heard(e.key)' /\ \A j \in Heard(e.key)' : j <= n
  BY <1>1, <1>2
<1>5. LastHeard(e.key)' = e.action
  <2>1. PICK i \in Heard(e.key)' : /\ \A j \in Heard(e.key)' : j <= i
                                   /\ LastHeard(e.key)' = buffer'[i].action
    BY <1>2, <1>4, LastOfNext
  <2>2. i = n
    BY <1>1, <1>2, <1>4, <2>1
  <2> QED BY <1>1, <2>1, <2>2
<1>6. ASSUME NEW m, m # e.key, Heard(m)' # {}
      PROVE  Heard(m) # {} /\ LastHeard(m)' = LastHeard(m)
  <2>1. PICK i \in Heard(m)' : /\ \A j \in Heard(m)' : j <= i
                               /\ LastHeard(m)' = buffer'[i].action
    BY <1>2, <1>6, LastOfNext
  <2>2. i \in 1 .. n - 1 /\ i + d \in Heard(m) /\ buffer'[i] = buffer[i + d]
    <3>1. i \in 1 .. n /\ buffer'[i].key = m
      BY <1>2, <2>1
    <3>2. i \in 1 .. n - 1
      BY <1>1, <1>2, <1>6, <3>1
    <3>3. i + d \in 1 .. Len(buffer) /\ buffer'[i] = buffer[i + d]
      BY <1>1, <3>2
    <3> QED BY <1>3, <3>1, <3>2, <3>3
  <2>3. PICK k \in Heard(m) : /\ \A j \in Heard(m) : j <= k
                              /\ LastHeard(m) = buffer[k].action
    BY <1>0, <1>3, <2>2, LastOf
  <2>4. k >= i + d /\ k - d \in 1 .. n - 1
    BY <1>0, <1>1, <1>2, <1>3, <2>2, <2>3
  <2>5. k - d \in Heard(m)'
    <3>1. k - d \in 1 .. n /\ (k - d) + d = k
      BY <1>0, <1>1, <1>2, <1>3, <2>3, <2>4
    <3>2. buffer'[k - d] = buffer[k] /\ buffer[k].key = m
      BY <1>1, <1>3, <2>3, <2>4, <3>1
    <3> QED BY <1>2, <3>1, <3>2
  <2>6. k = i + d
    BY <1>0, <1>1, <1>2, <1>3, <2>1, <2>2, <2>3, <2>4, <2>5
  <2> QED BY <2>1, <2>2, <2>3, <2>6
<1>7. ASSUME NEW m, Heard(m)' = {}, Len(buffer) < BufferSize
      PROVE  Heard(m) = {}
  <2> SUFFICES ASSUME NEW i \in Heard(m) PROVE FALSE
    OBVIOUS
  <2>1. d = 0 /\ i \in 1 .. n - 1 /\ i + d = i /\ buffer[i].key = m
    BY <1>0, <1>1, <1>3, <1>7
  <2>2. buffer'[i].key = m /\ i \in 1 .. n
    BY <1>1, <1>2, <2>1
  <2> QED BY <1>2, <1>7, <2>2
<1> QED BY <1>0, <1>1, <1>4, <1>5, <1>6, <1>7 DEF n

\* Nothing is replayed of a manager of whom the stream has nothing.
LEMMA NothingHeard ==
  /\ \A m : Heard(m) = {} => LastHeard(m) = "none"
  /\ \A m : Heard(m)' = {} => LastHeard(m)' = "none"
BY DEF LastHeard

-----------------------------------------------------------------------------
(* The indicator.                                                          *)

\* The invariant holds of an indicator that nobody has used.
LEMMA IndicatorInit == Init => IInv
<1> SUFFICES ASSUME Init PROVE IInv
  OBVIOUS
<1>1. buffer = <<>> /\ Len(buffer) = 0 /\ \A m : Heard(m) = {}
  BY DEF Init, Heard
<1>2. TypeOK
  <2>1. buffer \in Seq(Event) /\ Len(buffer) <= BufferSize /\ events \in Nat
    BY <1>1, BufferAssumption DEF Init
  <2>2. wants \in [Keys -> BOOLEAN] /\ pending \in [Managers -> {"none"} \cup Action]
    BY DEF Init
  <2> QED BY <2>1, <2>2 DEF Init, TypeOK
<1>3. Replay
  BY <1>1, NothingHeard DEF Init, Replay, Keys
<1>4. AtRest
  BY DEF Init, AtRest, Keys
<1> QED BY <1>1, <1>2, <1>3, <1>4, BufferAssumption DEF IInv, Init, NothingMissed

\* The stream of an indicator after an event of a manager, or of none of them.
LEMMA StreamStep ==
  ASSUME IInv, NEW e \in Event, buffer' = Replayed(e), events' = events + 1
  PROVE  /\ buffer' \in Seq(Event) /\ Len(buffer') <= BufferSize /\ events' \in Nat
         /\ Len(buffer') < BufferSize => Len(buffer') = events'
         /\ Len(buffer') = BufferSize => events' >= BufferSize
         /\ missed # {} => events' > BufferSize
         /\ Heard(e.key)' # {} /\ LastHeard(e.key)' = e.action
         /\ \A m \in Managers : m # e.key =>
              /\ LastHeard(m)' # "none" => LastHeard(m)' = ActionOf(wants[m])
              /\ wants[m] /\ Heard(m)' = {} => events' > BufferSize
<1>1. TypeOK /\ events \in Nat /\ Len(buffer) \in Nat /\ Len(buffer) <= BufferSize
      /\ BufferSize \in Nat \ {0}
  BY BufferAssumption DEF IInv, TypeOK
<1>2. /\ Len(buffer) < BufferSize => Len(buffer) = events
      /\ Len(buffer) = BufferSize => events >= BufferSize
      /\ missed # {} => events > BufferSize
  BY DEF IInv, NothingMissed
<1>3. ASSUME NEW m \in Managers, m # e.key
      PROVE  /\ LastHeard(m)' # "none" => LastHeard(m)' = ActionOf(wants[m])
             /\ wants[m] /\ Heard(m)' = {} => events' > BufferSize
  <2>1. /\ LastHeard(m) # "none" => LastHeard(m) = ActionOf(wants[m])
        /\ wants[m] /\ Heard(m) = {} => events > BufferSize
    BY <1>3 DEF IInv, Replay
  <2>2. LastHeard(m)' # "none" => Heard(m)' # {}
    BY NothingHeard
  <2>3. Heard(m)' # {} => Heard(m) # {} /\ LastHeard(m)' = LastHeard(m)
    BY <1>1, <1>3, Heard_Replayed
  <2>4. Heard(m)' = {} /\ Len(buffer) < BufferSize => Heard(m) = {}
    BY <1>1, <1>3, Heard_Replayed
  <2>5. events >= BufferSize => events' > BufferSize
    BY <1>1
  <2>6. Len(buffer) < BufferSize \/ Len(buffer) = BufferSize
    BY <1>1
  <2>7. events > BufferSize => events' > BufferSize
    BY <1>1
  <2> QED BY <1>2, <2>1, <2>2, <2>3, <2>4, <2>5, <2>6, <2>7
<1>4. /\ buffer' \in Seq(Event) /\ Len(buffer') \in 1 .. BufferSize
      /\ Len(buffer) < BufferSize => Len(buffer') = Len(buffer) + 1
      /\ Len(buffer) = BufferSize => Len(buffer') = BufferSize
      /\ Heard(e.key)' # {} /\ LastHeard(e.key)' = e.action
  BY <1>1, Heard_Replayed
<1> QED BY <1>1, <1>2, <1>3, <1>4

\* A manager sets or clears its busy state.
LEMMA BroadcastStep ==
  ASSUME IInv, NEW m \in Managers, NEW isBusy \in BOOLEAN, Broadcast(m, isBusy)
  PROVE  IInv'
<1> DEFINE e == [key |-> m, action |-> ActionOf(isBusy)]
<1>1. e \in Event /\ e.key = m /\ e.action = ActionOf(isBusy) /\ ActionOf(isBusy) \in Action
      /\ ActionOf(isBusy) # "none"
  BY DEF Event, Action, ActionOf
<1> HIDE DEF e
<1>2. buffer' = Replayed(e) /\ events' = events + 1 /\ UNCHANGED <<mounted, busyStateMap, busy>>
      /\ wants' = [wants EXCEPT ![m] = isBusy]
  BY DEF Broadcast, e
<1>3. m \in Keys /\ Reserved \in Keys /\ m # Reserved /\ wants \in [Keys -> BOOLEAN]
      /\ Managers \subseteq Keys
  BY KeysAssumption DEF Keys, IInv, TypeOK
<1>4. /\ wants' \in [Keys -> BOOLEAN]
      /\ wants'[m] = isBusy /\ \A k \in Keys \ {m} : wants'[k] = wants[k]
  BY <1>2, <1>3
<1>5. \/ mounted /\ pending' = [pending EXCEPT ![m] = ActionOf(isBusy)] /\ missed' = missed \ {m}
      \/ ~mounted /\ UNCHANGED <<pending, missed>>
  BY DEF Broadcast, Debounce
<1>6. missed' \subseteq missed
  BY <1>5
<1>7. TypeOK'
  <2>1. buffer' \in Seq(Event) /\ Len(buffer') <= BufferSize /\ events' \in Nat
    BY <1>1, <1>2, StreamStep
  <2>2. pending' \in [Managers -> {"none"} \cup Action] /\ missed' \subseteq Managers
    BY <1>1, <1>5 DEF IInv, TypeOK
  <2> QED BY <1>2, <1>4, <2>1, <2>2 DEF TypeOK, IInv
<1>8. Replay'
  <2>1. LastHeard(m)' = ActionOf(isBusy) /\ Heard(m)' # {}
    BY <1>1, <1>2, StreamStep
  <2>2. \A k \in Managers : k # m =>
          /\ LastHeard(k)' # "none" => LastHeard(k)' = ActionOf(wants[k])
          /\ wants[k] /\ Heard(k)' = {} => events' > BufferSize
    BY <1>1, <1>2, StreamStep
  <2> QED BY <1>3, <1>4, <2>1, <2>2 DEF Replay, ActionOf
<1>9. AtRest'
  <2>1. ~mounted' => /\ busyStateMap' = {} /\ missed' = {} /\ ~wants'[Reserved]
                     /\ \A k \in Managers : pending'[k] = "none"
    BY <1>2, <1>3, <1>4, <1>5 DEF IInv, AtRest
  <2>2. wants'[Reserved] <=> Reserved \in busyStateMap'
    BY <1>2, <1>3, <1>4 DEF IInv, AtRest
  <2>3. ASSUME NEW k \in Managers
        PROVE  /\ pending'[k] # "none" => pending'[k] = ActionOf(wants'[k]) /\ k \notin missed'
               /\ mounted' /\ pending'[k] = "none" =>
                    (k \in busyStateMap' <=> wants'[k] /\ k \notin missed')
    <3>1. pending \in [Managers -> {"none"} \cup Action]
      BY DEF IInv, TypeOK
    <3>2. CASE k = m
      BY <1>1, <1>2, <1>4, <1>5, <2>1, <3>1, <3>2
    <3>3. CASE k # m
      BY <1>2, <1>3, <1>4, <1>5, <3>1, <3>3 DEF IInv, AtRest
    <3> QED BY <3>2, <3>3
  <2> QED BY <2>1, <2>2, <2>3 DEF AtRest
<1>10. /\ Len(buffer') < BufferSize => Len(buffer') = events'
       /\ Len(buffer') = BufferSize => events' >= BufferSize
       /\ busy' <=> busyStateMap' # {}
       /\ missed' # {} => events' > BufferSize
  <2>1. /\ Len(buffer') < BufferSize => Len(buffer') = events'
        /\ Len(buffer') = BufferSize => events' >= BufferSize
        /\ missed # {} => events' > BufferSize
    BY <1>1, <1>2, StreamStep
  <2>2. busy' <=> busyStateMap' # {}
    BY <1>2 DEF IInv
  <2> QED BY <1>6, <2>1, <2>2
<1> QED BY <1>7, <1>8, <1>9, <1>10 DEF IInv, NothingMissed

\* An event for another indicator.
LEMMA BroadcastOtherStep ==
  ASSUME IInv, BroadcastOther
  PROVE  IInv'
<1>1. PICK action \in Action : buffer' = Replayed([key |-> Other, action |-> action])
  BY DEF BroadcastOther
<1> DEFINE e == [key |-> Other, action |-> action]
<1>2. e \in Event /\ e.key = Other /\ \A m \in Managers : m # Other
  BY KeysAssumption DEF Event
<1> HIDE DEF e
<1>3. buffer' = Replayed(e) /\ events' = events + 1
      /\ UNCHANGED <<wants, mounted, pending, busyStateMap, busy, missed>>
  BY <1>1 DEF BroadcastOther, e
<1>4. TypeOK'
  <2>1. buffer' \in Seq(Event) /\ Len(buffer') <= BufferSize /\ events' \in Nat
    BY <1>2, <1>3, StreamStep
  <2> QED BY <1>3, <2>1 DEF TypeOK, IInv
<1>5. Replay'
  <2>1. \A k \in Managers :
          /\ LastHeard(k)' # "none" => LastHeard(k)' = ActionOf(wants[k])
          /\ wants[k] /\ Heard(k)' = {} => events' > BufferSize
    BY <1>2, <1>3, StreamStep
  <2> QED BY <1>3, <2>1 DEF Replay
<1>6. AtRest'
  BY <1>3 DEF IInv, AtRest
<1>7. /\ Len(buffer') < BufferSize => Len(buffer') = events'
      /\ Len(buffer') = BufferSize => events' >= BufferSize
      /\ missed # {} => events' > BufferSize
  BY <1>2, <1>3, StreamStep
<1>8. (busy' <=> busyStateMap' # {}) /\ missed' = missed
  BY <1>3 DEF IInv
<1> QED BY <1>4, <1>5, <1>6, <1>7, <1>8 DEF IInv, NothingMissed

\* What the stream would replay does not depend on the component.
LEMMA StreamKept ==
  ASSUME IInv, UNCHANGED <<events, buffer>>,
         wants' \in [Keys -> BOOLEAN], \A m \in Managers : wants'[m] = wants[m]
  PROVE  /\ Replay' /\ buffer' \in Seq(Event) /\ Len(buffer') <= BufferSize /\ events' \in Nat
         /\ Len(buffer') < BufferSize => Len(buffer') = events'
         /\ Len(buffer') = BufferSize => events' >= BufferSize
<1>1. \A m : Heard(m)' = Heard(m)
  BY DEF Heard
<1>2. \A m : LastHeard(m)' = LastHeard(m)
  BY DEF LastHeard, Heard
<1>3. Replay'
  BY <1>1, <1>2 DEF IInv, Replay
<1> QED BY <1>3 DEF IInv, TypeOK

\* The component is created: the events that are replayed wait for their timers.
LEMMA CreateStep ==
  ASSUME IInv, Create
  PROVE  IInv'
<1>1. /\ ~mounted /\ mounted'
      /\ UNCHANGED <<wants, events, buffer, busyStateMap, busy>>
      /\ pending' = [m \in Managers |-> LastHeard(m)]
      /\ missed' = {m \in Managers : wants[m] /\ Heard(m) = {}}
  BY DEF Create
<1>2. wants \in [Keys -> BOOLEAN]
  BY DEF IInv, TypeOK
<1>3. \A m \in Managers : LastHeard(m) \in {"none"} \cup Action
  <2> TAKE m \in Managers
  <2>1. LastHeard(m) # "none" => LastHeard(m) \in Action
    BY DEF IInv, Replay, ActionOf, Action
  <2> QED BY <2>1
<1>4. TypeOK'
  BY <1>1, <1>2, <1>3, StreamKept DEF IInv, TypeOK
<1>5. \A m \in Managers :
        /\ LastHeard(m) # "none" => LastHeard(m) = ActionOf(wants[m]) /\ Heard(m) # {}
        /\ LastHeard(m) = "none" => Heard(m) = {}
  <2> TAKE m \in Managers
  <2>1. LastHeard(m) = "none" => Heard(m) = {}
    <3> SUFFICES ASSUME Heard(m) # {} PROVE LastHeard(m) # "none"
      OBVIOUS
    <3>1. TypeOK /\ Len(buffer) \in Nat /\ Heard(m) \in SUBSET (1 .. Len(buffer))
      BY HeardType DEF IInv
    <3>2. PICK i \in Heard(m) : LastHeard(m) = buffer[i].action
      BY <3>1, LastOf
    <3>3. buffer[i] \in Event
      BY <3>1, <3>2 DEF TypeOK, Heard
    <3> QED BY <3>2, <3>3 DEF Event, Action
  <2> QED BY <2>1, NothingHeard DEF IInv, Replay
<1>6. AtRest'
  <2>1. (wants'[Reserved] <=> Reserved \in busyStateMap') /\ busyStateMap' = {}
    BY <1>1 DEF IInv, AtRest
  <2> QED BY <1>1, <1>5, <2>1 DEF AtRest
<1>7. missed' # {} => events' > BufferSize
  BY <1>1 DEF IInv, Replay
<1>8. Replay' /\ (Len(buffer') < BufferSize => Len(buffer') = events')
      /\ (Len(buffer') = BufferSize => events' >= BufferSize)
  BY <1>1, <1>2, StreamKept
<1>9. busy' <=> busyStateMap' # {}
  BY <1>1 DEF IInv
<1> QED BY <1>4, <1>6, <1>7, <1>8, <1>9 DEF IInv, NothingMissed

\* The component goes, and its holder with it.
LEMMA DestroyStep ==
  ASSUME IInv, Destroy
  PROVE  IInv'
<1>1. /\ mounted' = FALSE /\ UNCHANGED <<events, buffer>>
      /\ wants' = [wants EXCEPT ![Reserved] = FALSE]
      /\ pending' = [m \in Managers |-> "none"]
      /\ busyStateMap' = {} /\ busy' = FALSE /\ missed' = {}
  BY DEF Destroy
<1>2. /\ wants' \in [Keys -> BOOLEAN] /\ ~wants'[Reserved]
      /\ \A m \in Managers : wants'[m] = wants[m]
  BY <1>1, KeysAssumption DEF IInv, TypeOK, Keys
<1>3. TypeOK'
  <2>1. buffer' \in Seq(Event) /\ Len(buffer') <= BufferSize /\ events' \in Nat
    BY <1>1, <1>2, StreamKept
  <2>2. pending' \in [Managers -> {"none"} \cup Action]
    BY <1>1
  <2> QED BY <1>1, <1>2, <2>1, <2>2 DEF TypeOK
<1>4. AtRest'
  BY <1>1, <1>2 DEF AtRest
<1>5. Replay' /\ (Len(buffer') < BufferSize => Len(buffer') = events')
      /\ (Len(buffer') = BufferSize => events' >= BufferSize)
  BY <1>1, <1>2, StreamKept
<1> QED BY <1>1, <1>3, <1>4, <1>5 DEF IInv, NothingMissed

\* A timer applies its event.
LEMMA FireStep ==
  ASSUME IInv, NEW m \in Managers, Fire(m)
  PROVE  IInv'
<1>1. /\ pending[m] # "none" /\ pending' = [pending EXCEPT ![m] = "none"]
      /\ UNCHANGED <<wants, events, buffer, mounted, missed>>
  BY DEF Fire
<1>2. /\ pending \in [Managers -> {"none"} \cup Action] /\ wants \in [Keys -> BOOLEAN]
      /\ busyStateMap \subseteq Keys /\ m \in Keys /\ m # Reserved
  BY KeysAssumption DEF IInv, TypeOK, Keys
<1>3. pending[m] = ActionOf(wants[m]) /\ m \notin missed /\ mounted
  BY <1>1 DEF IInv, AtRest
<1>4. /\ busyStateMap' \subseteq Keys /\ busy' \in BOOLEAN /\ (busy' <=> busyStateMap' # {})
      /\ m \in busyStateMap' <=> wants[m]
      /\ \A k : k # m => (k \in busyStateMap' <=> k \in busyStateMap)
  <2>1. CASE pending[m] = "setBusyState" /\ Set(m)
    <3>1. wants[m]
      BY <1>2, <1>3, <2>1 DEF ActionOf
    <3> QED BY <1>2, <2>1, <3>1 DEF Set
  <2>2. CASE pending[m] = "clearBusyState" /\ Clear(m)
    <3>1. ~wants[m]
      BY <1>2, <1>3, <2>2 DEF ActionOf
    <3> QED BY <1>2, <2>2, <3>1 DEF Clear
  <2> QED BY <2>1, <2>2 DEF Fire
<1>5. TypeOK'
  BY <1>1, <1>2, <1>4 DEF IInv, TypeOK
<1>6. AtRest'
  BY <1>1, <1>2, <1>3, <1>4 DEF IInv, AtRest
<1>7. Replay' /\ (Len(buffer') < BufferSize => Len(buffer') = events')
      /\ (Len(buffer') = BufferSize => events' >= BufferSize)
  BY <1>1, <1>2, StreamKept
<1>8. NothingMissed'
  BY <1>1 DEF IInv, NothingMissed
<1> QED BY <1>4, <1>5, <1>6, <1>7, <1>8 DEF IInv

\* The holder of the indicator sets or clears the reserved key.
LEMMA DirectStep ==
  ASSUME IInv, Direct
  PROVE  IInv'
<1>1. mounted /\ UNCHANGED <<events, buffer, mounted, pending, missed>>
  BY DEF Direct
<1>2. /\ wants \in [Keys -> BOOLEAN] /\ Reserved \in Keys /\ Reserved \notin Managers
      /\ Managers \subseteq Keys /\ busyStateMap \subseteq Keys
  BY KeysAssumption DEF IInv, TypeOK, Keys
<1>3. /\ busyStateMap' \subseteq Keys /\ busy' \in BOOLEAN /\ (busy' <=> busyStateMap' # {})
      /\ wants'[Reserved] <=> Reserved \in busyStateMap'
      /\ \A k : k # Reserved => (k \in busyStateMap' <=> k \in busyStateMap)
      /\ wants' \in [Keys -> BOOLEAN] /\ \A m \in Managers : wants'[m] = wants[m]
  <2>1. CASE Set(Reserved) /\ wants' = [wants EXCEPT ![Reserved] = TRUE]
    BY <1>2, <2>1 DEF Set
  <2>2. CASE Clear(Reserved) /\ wants' = [wants EXCEPT ![Reserved] = FALSE]
    BY <1>2, <2>2 DEF Clear
  <2> QED BY <2>1, <2>2 DEF Direct
<1>4. TypeOK'
  BY <1>1, <1>3 DEF IInv, TypeOK
<1>5. AtRest'
  <2>1. \A m \in Managers : m # Reserved
    BY <1>2
  <2> QED BY <1>1, <1>3, <2>1 DEF IInv, AtRest
<1>6. Replay' /\ (Len(buffer') < BufferSize => Len(buffer') = events')
      /\ (Len(buffer') = BufferSize => events' >= BufferSize)
  BY <1>1, <1>3, StreamKept
<1>7. NothingMissed'
  BY <1>1 DEF IInv, NothingMissed
<1> QED BY <1>3, <1>4, <1>5, <1>6, <1>7 DEF IInv

\* Nothing of the indicator changes.
LEMMA IndicatorRests ==
  ASSUME IInv, UNCHANGED vars
  PROVE  IInv'
<1>1. wants' \in [Keys -> BOOLEAN] /\ UNCHANGED <<events, buffer>> /\ wants' = wants
  BY DEF IInv, TypeOK, vars
<1>2. Replay' /\ (Len(buffer') < BufferSize => Len(buffer') = events')
      /\ (Len(buffer') = BufferSize => events' >= BufferSize)
  BY <1>1, StreamKept
<1> QED BY <1>2 DEF IInv, TypeOK, AtRest, NothingMissed, vars

\* The inductive invariant of the indicator.
THEOREM Indicator == Spec => []IInv
<1>1. IInv /\ [Next]_vars => IInv'
  BY BroadcastStep, BroadcastOtherStep, CreateStep, DestroyStep, FireStep, DirectStep,
     IndicatorRests DEF Next
<1> QED BY <1>1, IndicatorInit, PTL DEF Spec

-----------------------------------------------------------------------------
(* The components.                                                         *)

\* A step of the components is a step of the indicator, or leaves it alone.
LEMMA IsIndicatorStep ==
  ASSUME FeatureNext
  PROVE  Next \/ UNCHANGED vars
<1>1. ASSUME NEW f \in Managers, NEW isBusy \in BOOLEAN, Broadcast(f, isBusy)
      PROVE  Next
  BY <1>1 DEF Next
<1>2. ASSUME NEW f \in Managers,
             \/ SetInput(f) \/ Answered(f) \/ DestroyFeature(f)
             \/ StartOperation(f) \/ EndOperation(f)
      PROVE  Next \/ UNCHANGED vars
  <2>1. CASE SetInput(f)
    BY <1>1, <2>1 DEF SetInput
  <2>2. CASE Answered(f)
    BY <1>1, <2>2 DEF Answered, ClearBusyEarly, SetupEmits, SetupFails
  <2>3. CASE DestroyFeature(f)
    BY <1>1, <2>3 DEF DestroyFeature
  <2>4. CASE StartOperation(f) \/ EndOperation(f)
    BY <1>1, <2>4 DEF StartOperation, EndOperation
  <2> QED BY <1>2, <2>1, <2>2, <2>3, <2>4
<1>3. CASE IndicatorStep
  BY <1>3 DEF IndicatorStep, Next
<1>4. CASE OtherFeature
  BY <1>4 DEF OtherFeature, Next
<1> QED BY <1>2, <1>3, <1>4 DEF FeatureNext

\* The components use the indicator as it may be used: whatever is proved of the
\* indicator by itself holds beside them.
THEOREM FeaturesImplementIndicator == FeatureSpec => Spec
<1>1. FeatureInit => Init
  BY DEF FeatureInit
<1>2. [FeatureNext]_allVars => [Next]_vars
  BY IsIndicatorStep DEF allVars
<1> QED BY <1>1, <1>2, PTL DEF FeatureSpec, Spec

\* Once its timers have run, the indicator is right.
THEOREM IndicatorIsRight == FeatureSpec => []SettledBusy
<1>1. IInv => SettledBusy
  <2> SUFFICES ASSUME IInv, mounted, \A m \in Managers : pending[m] = "none"
               PROVE  busy <=> \E k \in Keys \ missed : wants[k]
    BY DEF SettledBusy
  <2>1. \A m \in Managers : m \in busyStateMap <=> wants[m] /\ m \notin missed
    BY DEF IInv, AtRest
  <2>2. wants[Reserved] <=> Reserved \in busyStateMap
    BY DEF IInv, AtRest
  <2>3. Reserved \notin missed /\ busyStateMap \subseteq Keys /\ (busy <=> busyStateMap # {})
    BY KeysAssumption DEF IInv, TypeOK
  <2>4. \A k \in Keys : k \in busyStateMap <=> wants[k] /\ k \notin missed
    BY <2>1, <2>2, <2>3 DEF Keys
  <2> QED BY <2>3, <2>4
<1> QED BY <1>1, Indicator, FeaturesImplementIndicator, PTL

\* A component whose event was not replayed has met a stream that overflowed.
THEOREM NobodyMissed == FeatureSpec => []NothingMissed
BY Indicator, FeaturesImplementIndicator, PTL DEF IInv

\* What is broadcast is what the manager wants, and nothing else changes.
LEMMA Wants ==
  ASSUME TypeOK, NEW f \in Managers, NEW isBusy \in BOOLEAN, Broadcast(f, isBusy)
  PROVE  wants'[f] = isBusy /\ \A g \in Managers \ {f} : wants'[g] = wants[g]
BY DEF Broadcast, TypeOK, Keys

\* A component is busy only while there is something it waits for.
LEMMA FeatureStep ==
  ASSUME TypeOK, FeatureIInv, FeatureNext
  PROVE  FeatureIInv'
<1>0. FeatureTypeOK /\ MaxInputs \in Nat
  BY MaxInputsAssumption DEF FeatureIInv
<1>1. ASSUME NEW f \in Managers, SetInput(f)
      PROVE  FeatureIInv'
  <2>1. wants'[f] /\ \A g \in Managers \ {f} : wants'[g] = wants[g]
    BY <1>1, Wants DEF SetInput
  <2>2. FeatureTypeOK'
    <3>1. work' \in [Managers -> Work] /\ leaving' \in [Managers -> BOOLEAN]
      BY <1>0, <1>1 DEF FeatureTypeOK, SetInput, Work
    <3> QED BY <1>0, <1>1, <3>1 DEF FeatureTypeOK, SetInput, CountInput
  <2>3. BusyHasReason'
    BY <1>0, <1>1, <2>1 DEF FeatureTypeOK, FeatureIInv, SetInput, BusyHasReason
  <2> QED BY <1>0, <1>1, <2>2, <2>3 DEF FeatureTypeOK, FeatureIInv, SetInput
<1>2. ASSUME NEW f \in Managers, ClearBusyEarly(f)
      PROVE  FeatureIInv'
  <2>1. ~wants'[f] /\ \A g \in Managers \ {f} : wants'[g] = wants[g]
    BY <1>2, Wants DEF ClearBusyEarly
  <2>2. FeatureTypeOK'
    BY <1>0, <1>2 DEF FeatureTypeOK, ClearBusyEarly, Work
  <2>3. BusyHasReason'
    BY <1>0, <1>2, <2>1 DEF FeatureTypeOK, FeatureIInv, ClearBusyEarly, BusyHasReason
  <2> QED BY <1>0, <1>2, <2>2, <2>3 DEF FeatureTypeOK, FeatureIInv, ClearBusyEarly
<1>3. ASSUME NEW f \in Managers, SetupEmits(f)
      PROVE  FeatureIInv'
  <2>1. /\ wants'[f] => wants[f] /\ busyClearedEarly[f]
        /\ \A g \in Managers \ {f} : wants'[g] = wants[g]
    BY <1>3, Wants DEF SetupEmits, vars
  <2>2. FeatureTypeOK'
    BY <1>0, <1>3 DEF FeatureTypeOK, SetupEmits, Work
  <2>3. busyClearedEarly[f] => work[f] # "loading"
    BY <1>3 DEF FeatureIInv, SetupEmits, Done
  <2>4. BusyHasReason'
    BY <1>0, <1>3, <2>1, <2>3 DEF FeatureTypeOK, FeatureIInv, SetupEmits, BusyHasReason
  <2> QED BY <1>0, <1>3, <2>2, <2>4 DEF FeatureTypeOK, FeatureIInv, SetupEmits
<1>4. ASSUME NEW f \in Managers, SetupFails(f)
      PROVE  FeatureIInv'
  <2>1. ~wants'[f] /\ \A g \in Managers \ {f} : wants'[g] = wants[g]
    BY <1>4, Wants DEF SetupFails
  <2>2. FeatureTypeOK'
    BY <1>0, <1>4 DEF FeatureTypeOK, SetupFails, Work, Life
  <2>3. BusyHasReason'
    BY <1>0, <1>4, <2>1 DEF FeatureTypeOK, FeatureIInv, SetupFails, BusyHasReason
  <2> QED BY <1>0, <1>4, <2>2, <2>3 DEF FeatureTypeOK, FeatureIInv, SetupFails
<1>5. ASSUME NEW f \in Managers, DestroyFeature(f)
      PROVE  FeatureIInv'
  <2>1. ~wants'[f] /\ \A g \in Managers \ {f} : wants'[g] = wants[g]
    BY <1>5, Wants DEF DestroyFeature
  <2>2. FeatureTypeOK'
    BY <1>0, <1>5 DEF FeatureTypeOK, DestroyFeature, Work, Life
  <2>3. BusyHasReason'
    BY <1>0, <1>5, <2>1 DEF FeatureTypeOK, FeatureIInv, DestroyFeature, BusyHasReason
  <2> QED BY <1>0, <1>5, <2>2, <2>3 DEF FeatureTypeOK, FeatureIInv, DestroyFeature
<1>6. ASSUME NEW f \in Managers, StartOperation(f)
      PROVE  FeatureIInv'
  <2>1. wants'[f] /\ \A g \in Managers \ {f} : wants'[g] = wants[g]
    BY <1>6, Wants DEF StartOperation
  <2>2. FeatureTypeOK'
    BY <1>0, <1>6 DEF FeatureTypeOK, StartOperation, CountInput
  <2>3. BusyHasReason'
    BY <1>0, <1>6, <2>1 DEF FeatureTypeOK, FeatureIInv, StartOperation, BusyHasReason
  <2> QED BY <1>0, <1>6, <2>2, <2>3 DEF FeatureTypeOK, FeatureIInv, StartOperation
<1>7. ASSUME NEW f \in Managers, EndOperation(f)
      PROVE  FeatureIInv'
  <2>1. ~wants'[f] /\ \A g \in Managers \ {f} : wants'[g] = wants[g]
    BY <1>7, Wants DEF EndOperation
  <2>2. FeatureTypeOK'
    BY <1>0, <1>7 DEF FeatureTypeOK, EndOperation
  <2>3. BusyHasReason'
    BY <1>0, <1>7, <2>1 DEF FeatureTypeOK, FeatureIInv, EndOperation, BusyHasReason
  <2> QED BY <1>0, <1>7, <2>2, <2>3 DEF FeatureTypeOK, FeatureIInv, EndOperation
<1>8. CASE IndicatorStep
  <2>1. \A g \in Managers : wants'[g] = wants[g]
    BY <1>8, KeysAssumption
    DEF IndicatorStep, Fire, Create, Destroy, Direct, TypeOK, Keys
  <2> QED BY <1>8, <2>1 DEF FeatureTypeOK, FeatureIInv, IndicatorStep, featureVars, BusyHasReason
<1>9. CASE OtherFeature
  <2>1. wants' = wants /\ inputs' \in Nat
    BY <1>0, <1>9 DEF OtherFeature, BroadcastOther, CountInput, FeatureTypeOK
  <2> QED BY <1>9, <2>1 DEF FeatureTypeOK, FeatureIInv, OtherFeature, BusyHasReason
<1> QED BY <1>1, <1>2, <1>3, <1>4, <1>5, <1>6, <1>7, <1>8, <1>9 DEF FeatureNext, Answered

\* The inductive invariant of the components.
THEOREM Features == FeatureSpec => []FeatureIInv
<1>1. FeatureInit => FeatureIInv
  BY DEF FeatureInit, Init, FeatureIInv, FeatureTypeOK, BusyHasReason, Life, Work, Keys
<1>2. TypeOK /\ FeatureIInv /\ [FeatureNext]_allVars => FeatureIInv'
  <2>1. ASSUME FeatureIInv, UNCHANGED allVars
        PROVE  FeatureIInv'
    BY <2>1 DEF FeatureIInv, FeatureTypeOK, BusyHasReason, allVars, featureVars, vars
  <2> QED BY <2>1, FeatureStep
<1>3. FeatureSpec => []TypeOK
  BY Indicator, FeaturesImplementIndicator, PTL DEF IInv
<1> QED BY <1>1, <1>2, <1>3, PTL DEF FeatureSpec

\* Nothing leaves a component busy without a reason, whatever inputs, errors,
\* operations and early ends come together.
THEOREM BusyForAReason == FeatureSpec => []BusyHasReason
BY Features, PTL DEF FeatureIInv
=============================================================================
