------------------------ MODULE ConfigurationProofs -------------------------
(***************************************************************************)
(* Theorems about the two pages that save the configuration of a site:     *)
(* ConfigSave, for any number of tables, objects and edits, and any use of *)
(* the objects by the tables; and SettingsForm, for any number of names,   *)
(* edits and loads.                                                        *)
(***************************************************************************)
EXTENDS ConfigSave, SettingsForm, TLAPS, WellFoundedInduction

-----------------------------------------------------------------------------
(* ConfigSave: the tables of one page, which save the objects they share.  *)

(* What a save collects.                                                   *)

\* Among tables there is a first one, and CHOOSE finds it.
LEMMA First ==
  ASSUME NEW who \in SUBSET Tables, who # {}
  PROVE  LET first == CHOOSE t \in who : \A u \in who : t <= u
         IN  first \in who
<1>1. who \subseteq Nat
  BY NumTablesAssumption DEF Tables
<1>2. PICK x \in who : \A y \in who : ~ (<<y, x>> \in OpToRel(<, Nat))
  BY <1>1, WFMin, NatLessThanWellFounded
<1>3. \A y \in who : x <= y
  <2> TAKE y \in who
  <2>1. x \in Nat /\ y \in Nat /\ <<y, x>> \in Nat \X Nat
    BY <1>1
  <2>2. ~ (y < x)
    BY <1>2, <2>1 DEF OpToRel
  <2> QED BY <2>1, <2>2
<1> QED BY <1>3

\* The parts of an object.
LEMMA PartType == 0 \in Part /\ NewObject \in Object /\ NewParts \in Parts
BY MaxEditsAssumption DEF Part, NewObject, Object, NewParts, Parts

\* A table that has not submitted an object has in its form what it has of it.
LEMMA NotSubmitted ==
  ASSUME ConfigIInv, NEW t \in Tables, HasForm(t), NEW c \in Configs, c \notin Submitted(t)
  PROVE  form[t][c] = arm[t][c][t]
BY DEF Submitted, ConfigIInv, FormShape

\* What is put of an object: the form of the tables that use it, and otherwise what
\* ARM has.
LEMMA CollectedParts ==
  ASSUME ConfigIInv, saving = "none", \A t \in Tables : HasForm(t), NEW c \in Configs
  PROVE  /\ Collected(c) \in Object
         /\ \A u, t \in Tables : c \in Submitted(u) =>
              IF c \in Uses[t] THEN Collected(c)[t] = form[t][c]
              ELSE c \notin doubt => Collected(c)[t] = stored[c][t]
<1> DEFINE who == {t \in Tables : c \in Submitted(t)}
           first == CHOOSE t \in who : \A u \in who : t <= u
<1>1. CASE who = {}
  <2>1. Collected(c) = NewObject
    BY <1>1 DEF Collected
  <2> QED BY <1>1, <2>1, PartType
<1>2. CASE who # {}
  <2>1. first \in who
    BY <1>2, First
  <2>2. Collected(c) = [t \in Tables |-> IF t \in who THEN form[t][c] ELSE arm[first][c][t]]
    BY <1>2 DEF Collected
  <2> HIDE DEF first
  <2>3. first \in Tables /\ c \in Submitted(first)
    BY <2>1
  <2>4. c \in Uses[first]
    BY <2>3 DEF Submitted, ConfigIInv, FormShape
  <2>5. \A t \in Tables : form[t][c] \in Part /\ arm[first][c][t] \in Part
    BY <2>3 DEF ConfigIInv, ConfigTypeOK, Parts, Object
  <2>6. Collected(c) \in Object
    BY <2>2, <2>5 DEF Object
  <2>7. ASSUME NEW t \in Tables
        PROVE  IF c \in Uses[t] THEN Collected(c)[t] = form[t][c]
               ELSE c \notin doubt => Collected(c)[t] = stored[c][t]
    <3>1. CASE t \in who
      <4>1. c \in Uses[t]
        BY <3>1 DEF Submitted, ConfigIInv, FormShape
      <4> QED BY <2>2, <3>1, <4>1
    <3>2. CASE t \notin who /\ c \in Uses[t]
      <4>1. arm[first][c] = arm[t][c]
        BY <2>3, <2>4, <3>2 DEF ConfigIInv, SameBase
      <4>2. form[t][c] = arm[t][c][t]
        BY <3>2, NotSubmitted
      <4> QED BY <2>2, <3>2, <4>1, <4>2
    <3>3. CASE t \notin who /\ c \notin Uses[t]
      <4>1. c \notin doubt => arm[first][c] = stored[c]
        BY <2>3, <2>4 DEF ConfigIInv, BaseIsCurrent, SaveShape, HasForm
      <4> QED BY <2>2, <3>3, <4>1
    <3> QED BY <3>1, <3>2, <3>3
  <2> QED BY <2>6, <2>7
<1> QED BY <1>1, <1>2

-----------------------------------------------------------------------------
(* The inductive invariant.                                                *)

\* The invariant holds of a page that has read nothing.
LEMMA ConfigInitInv == ConfigInit => ConfigIInv
<1> SUFFICES ASSUME ConfigInit PROVE ConfigIInv
  OBVIOUS
<1>1. ConfigTypeOK
  BY PartType DEF ConfigInit, ConfigTypeOK
<1>2. FormShape /\ SameBase /\ SaveShape
  BY DEF ConfigInit, FormShape, SameBase, SaveShape, HasForm, IsSubmitted
<1>3. BaseIsCurrent /\ EditsKept
  BY DEF ConfigInit, BaseIsCurrent, EditsKept, Dirty
<1> QED BY <1>1, <1>2, <1>3 DEF ConfigIInv

\* A table is loaded, or cannot be.
LEMMA LoadTableStep ==
  ASSUME ConfigIInv, NEW t \in Tables, LoadTable(t)
  PROVE  ConfigIInv'
<1>1. /\ ~HasForm(t) /\ saving = "none" /\ doubt = {}
      /\ \A c \in Configs : results[c] = "none" /\ ~IsSubmitted(c)
  BY DEF LoadTable, HasForm, ConfigIInv, SaveShape
<1>2. edited[t] = {} /\ wasSubmitted[t] = {}
  BY <1>1 DEF ConfigIInv, FormShape
<1>3. UNCHANGED <<stored, edited, saving, saveConfigs, wasSubmitted, results, dirtyMessage,
                  dirtyState, edits, doubt>>
  BY DEF LoadTable
<1>4. CASE /\ loading' = [loading EXCEPT ![t] = "failed"]
           /\ UNCHANGED <<arm, form, wanted>>
  <2>1. \A u \in Tables : HasForm(u)' <=> HasForm(u)
    BY <1>1, <1>4 DEF HasForm, ConfigIInv, ConfigTypeOK
  <2>2. ConfigTypeOK'
    BY <1>3, <1>4 DEF ConfigIInv, ConfigTypeOK
  <2>3. SameBase' /\ FormShape' /\ SaveShape'
    <3>1. SameBase'
      BY <1>4, <2>1 DEF ConfigIInv, SameBase
    <3>2. FormShape'
      BY <1>3, <1>4, <2>1 DEF ConfigIInv, FormShape
    <3>3. SaveShape'
      BY <1>1, <1>3, <1>4 DEF ConfigIInv, SaveShape, IsSubmitted
    <3> QED BY <3>1, <3>2, <3>3
  <2>4. BaseIsCurrent' /\ EditsKept'
    BY <1>3, <1>4, <2>1 DEF ConfigIInv, BaseIsCurrent, EditsKept, HasForm, Dirty
  <2> QED BY <2>2, <2>3, <2>4 DEF ConfigIInv
<1>5. CASE /\ loading' = [loading EXCEPT ![t] = "loaded"]
           /\ arm' = [arm EXCEPT ![t] = stored]
           /\ form' = [form EXCEPT ![t] = [c \in Configs |-> stored[c][t]]]
           /\ wanted' = [wanted EXCEPT ![t] = form'[t]]
  <2>1. ConfigTypeOK'
    <3>1. [c \in Configs |-> stored[c][t]] \in [Configs -> Part]
      BY DEF ConfigIInv, ConfigTypeOK, Object
    <3>2. form' \in Parts /\ wanted' \in Parts
      BY <1>5, <3>1 DEF ConfigIInv, ConfigTypeOK, Parts
    <3>3. arm' \in [Tables -> [Configs -> Object]]
          /\ loading' \in [Tables -> {"loading", "loaded", "failed"}]
      BY <1>5 DEF ConfigIInv, ConfigTypeOK
    <3> QED BY <1>3, <3>2, <3>3 DEF ConfigIInv, ConfigTypeOK
  <2>2. /\ arm'[t] = stored /\ HasForm(t)'
        /\ \A c \in Configs : form'[t][c] = stored[c][t] /\ wanted'[t][c] = stored[c][t]
        /\ \A u \in Tables \ {t} :
             /\ arm'[u] = arm[u] /\ form'[u] = form[u] /\ wanted'[u] = wanted[u]
             /\ loading'[u] = loading[u] /\ (HasForm(u)' <=> HasForm(u))
    BY <1>5 DEF ConfigIInv, ConfigTypeOK, Parts, HasForm
  <2>3. BaseIsCurrent'
    BY <1>1, <1>3, <2>2 DEF ConfigIInv, BaseIsCurrent, HasForm
  <2>4. SameBase'
    <3>1. \A u \in Tables, c \in Configs : c \in Uses[u] /\ HasForm(u)' => arm'[u][c] = stored[c]
      BY <1>1, <1>3, <2>2, <2>3 DEF BaseIsCurrent, HasForm
    <3>2. \A u, v \in Tables : Uses[u] \cap Uses[v] \subseteq Configs
      BY UsesAssumption
    <3> QED BY <3>1, <3>2 DEF SameBase
  <2>5. FormShape'
    BY <1>2, <1>3, <2>2 DEF ConfigIInv, FormShape
  <2>6. SaveShape'
    BY <1>1, <1>3 DEF SaveShape, IsSubmitted
  <2>7. EditsKept'
    <3>1. form' = wanted'
      BY <1>5 DEF ConfigIInv, EditsKept, ConfigTypeOK, Parts
    <3>2. dirtyState' <=> Dirty'
      BY <1>3 DEF ConfigIInv, EditsKept, Dirty
    <3>3. \A u \in Tables : Uses[u] \subseteq Configs
      BY UsesAssumption
    <3> QED BY <1>3, <2>2, <3>1, <3>2, <3>3 DEF ConfigIInv, EditsKept, HasForm
  <2> QED BY <2>1, <2>3, <2>4, <2>5, <2>6, <2>7 DEF ConfigIInv
<1> QED BY <1>4, <1>5 DEF LoadTable

\* A part is edited.
LEMMA EditTableStep ==
  ASSUME ConfigIInv, NEW t \in Tables, NEW c \in Configs, EditTable(t, c)
  PROVE  ConfigIInv'
<1>1. PICK part \in {edits + 1, arm[t][c][t]} :
        /\ form' = [form EXCEPT ![t][c] = part]
        /\ wanted' = [wanted EXCEPT ![t][c] = part]
  BY DEF EditTable
<1>2. /\ saving = "none" /\ HasForm(t) /\ c \in Uses[t] /\ edits < MaxEdits /\ edits' = edits + 1
      /\ edited' = [edited EXCEPT ![t] = @ \cup {c}]
      /\ dirtyState' = TRUE
      /\ UNCHANGED <<stored, loading, arm, saving, saveConfigs, wasSubmitted, results,
                     dirtyMessage, doubt>>
  BY DEF EditTable, HasForm
<1>3. part \in Part
  <2>1. edits + 1 \in Part
    BY <1>2, MaxEditsAssumption DEF ConfigIInv, ConfigTypeOK, Part
  <2>2. arm[t][c][t] \in Part
    BY DEF ConfigIInv, ConfigTypeOK, Object
  <2> QED BY <1>1, <2>1, <2>2
<1>4. /\ form'[t] = [form[t] EXCEPT ![c] = part] /\ edited'[t] = edited[t] \cup {c}
      /\ form \in Parts /\ form' \in Parts /\ wanted' = form' /\ form = wanted
      /\ \A u \in Tables \ {t} : form'[u] = form[u] /\ edited'[u] = edited[u]
      /\ edited' \in [Tables -> SUBSET Configs]
  BY <1>1, <1>2, <1>3 DEF ConfigIInv, ConfigTypeOK, EditsKept, Parts
<1>5. \A d \in Configs \ edited'[t] : form'[t][d] = form[t][d]
  BY <1>4 DEF Parts
<1>6. \A u \in Tables : HasForm(u)' <=> HasForm(u)
  BY <1>2 DEF HasForm
<1>7. ConfigTypeOK'
  BY <1>2, <1>4 DEF ConfigIInv, ConfigTypeOK
<1>8. SameBase' /\ BaseIsCurrent'
  BY <1>2, <1>6 DEF ConfigIInv, SameBase, BaseIsCurrent
<1>9. FormShape'
  <2> SUFFICES ASSUME NEW u \in Tables
               PROVE  /\ wasSubmitted'[u] \subseteq edited'[u] /\ edited'[u] \subseteq Uses[u]
                      /\ edited'[u] # {} => HasForm(u)'
                      /\ HasForm(u)' => \A d \in Configs \ edited'[u] : form'[u][d] = arm'[u][d][u]
    BY DEF FormShape
  <2>1. CASE u = t
    BY <1>2, <1>4, <1>5, <1>6, <2>1 DEF ConfigIInv, FormShape
  <2>2. CASE u # t
    BY <1>2, <1>4, <1>6, <2>2 DEF ConfigIInv, FormShape
  <2> QED BY <2>1, <2>2
<1>10. SaveShape'
  <2>1. \A d \in Configs : ~IsSubmitted(d) /\ ~IsSubmitted(d)'
    BY <1>2 DEF ConfigIInv, SaveShape, IsSubmitted
  <2> QED BY <1>2, <1>6, <2>1 DEF ConfigIInv, SaveShape
<1>11. EditsKept'
  <2>1. Dirty'
    BY <1>4 DEF Dirty
  <2>2. \A u \in Tables : \A d \in Uses[u] \ edited'[u] :
          loading'[u] = "loaded" => wanted'[u][d] = arm'[u][d][u]
    BY <1>4, <1>9, UsesAssumption DEF FormShape, HasForm
  <2> QED BY <1>2, <1>4, <2>1, <2>2 DEF EditsKept
<1> QED BY <1>7, <1>8, <1>9, <1>10, <1>11 DEF ConfigIInv

\* The tables that are given a new form.
LEMMA RegeneratedParts ==
  ASSUME NEW T \in SUBSET Tables, NEW objects \in [Tables -> [Configs -> Object]], form \in Parts
  PROVE  /\ Regenerated(T, objects) \in Parts
         /\ \A t \in Tables, c \in Configs :
              Regenerated(T, objects)[t][c] = IF t \in T THEN objects[t][c][t] ELSE form[t][c]
         /\ \A t \in Tables \ T : Regenerated(T, objects)[t] = form[t]
<1>1. \A t \in Tables, c \in Configs : objects[t][c][t] \in Part
  BY DEF Object
<1> QED BY <1>1 DEF Regenerated, Parts

\* The edits are discarded.
LEMMA DiscardStep ==
  ASSUME ConfigIInv, Discard
  PROVE  ConfigIInv'
<1> DEFINE loaded == {t \in Tables : HasForm(t)}
<1>1. /\ saving = "none" /\ dirtyState' = FALSE /\ wanted' = form'
      /\ edited' = [t \in Tables |-> {}]
      /\ form' = Regenerated(loaded, arm)
      /\ UNCHANGED <<stored, loading, arm, saving, saveConfigs, wasSubmitted, results,
                     dirtyMessage, edits, doubt>>
  BY DEF Discard, HasForm
<1>2. /\ form' \in Parts
      /\ \A t \in Tables, c \in Configs : HasForm(t) => form'[t][c] = arm[t][c][t]
  <2>1. loaded \in SUBSET Tables /\ arm \in [Tables -> [Configs -> Object]] /\ form \in Parts
    BY DEF ConfigIInv, ConfigTypeOK
  <2> HIDE DEF loaded
  <2>2. /\ form' \in Parts
        /\ \A t \in Tables, c \in Configs :
             form'[t][c] = IF t \in loaded THEN arm[t][c][t] ELSE form[t][c]
    <3>1. /\ Regenerated(loaded, arm) \in Parts
          /\ \A t \in Tables, c \in Configs :
               Regenerated(loaded, arm)[t][c] = IF t \in loaded THEN arm[t][c][t] ELSE form[t][c]
      BY <2>1, RegeneratedParts
    <3> QED BY <1>1, <3>1
  <2> QED BY <2>2 DEF loaded
<1>3. \A t \in Tables : HasForm(t)' <=> HasForm(t)
  BY <1>1 DEF HasForm
<1>4. ConfigTypeOK'
  BY <1>1, <1>2 DEF ConfigIInv, ConfigTypeOK
<1>5. SameBase' /\ BaseIsCurrent'
  BY <1>1, <1>3 DEF ConfigIInv, SameBase, BaseIsCurrent
<1>6. \A c \in Configs : ~IsSubmitted(c) /\ ~IsSubmitted(c)'
  BY <1>1 DEF ConfigIInv, SaveShape, IsSubmitted
<1>7. \A t \in Tables : wasSubmitted[t] = {}
  BY <1>6 DEF IsSubmitted, ConfigIInv, ConfigTypeOK
<1>8. FormShape'
  BY <1>1, <1>2, <1>3, <1>7 DEF FormShape
<1>9. SaveShape'
  BY <1>1, <1>3, <1>6 DEF ConfigIInv, SaveShape
<1>10. EditsKept'
  <2>1. ~Dirty'
    BY <1>1 DEF Dirty
  <2> QED BY <1>1, <1>2, <1>3, <2>1, UsesAssumption DEF EditsKept, HasForm
<1> QED BY <1>4, <1>5, <1>8, <1>9, <1>10 DEF ConfigIInv

\* A save begins, or turns out to be impossible.
LEMMA SaveConfigStep ==
  ASSUME ConfigIInv, SaveConfig
  PROVE  ConfigIInv'
<1>1. /\ saving = "none" /\ dirtyMessage' = TRUE
      /\ UNCHANGED <<stored, loading, arm, form, edited, results, dirtyState, edits, wanted,
                     doubt>>
  BY DEF SaveConfig
<1>2. \A t \in Tables : HasForm(t)' <=> HasForm(t)
  BY <1>1 DEF HasForm
<1>3. SameBase' /\ BaseIsCurrent' /\ EditsKept'
  BY <1>1, <1>2 DEF ConfigIInv, SameBase, BaseIsCurrent, EditsKept, Dirty
<1>4. CASE UNCHANGED <<saving, saveConfigs, wasSubmitted>>
  <2>1. ConfigTypeOK'
    BY <1>1, <1>4 DEF ConfigIInv, ConfigTypeOK
  <2>2. FormShape' /\ SaveShape'
    BY <1>1, <1>2, <1>4 DEF ConfigIInv, FormShape, SaveShape, IsSubmitted
  <2> QED BY <1>3, <2>1, <2>2 DEF ConfigIInv
<1>5. CASE /\ \A t \in Tables : HasForm(t)
           /\ saving' = "notifying"
           /\ saveConfigs' = [c \in Configs |-> Collected(c)]
           /\ wasSubmitted' = [t \in Tables |-> Submitted(t)]
  <2>1. \A t \in Tables : Submitted(t) \subseteq edited[t]
    BY DEF Submitted
  <2>2. ConfigTypeOK'
    <3>1. saveConfigs' \in [Configs -> Object]
      BY <1>1, <1>5, CollectedParts
    <3>2. wasSubmitted' \in [Tables -> SUBSET Configs]
      BY <1>5, <2>1 DEF ConfigIInv, ConfigTypeOK
    <3> QED BY <1>1, <1>5, <3>1, <3>2 DEF ConfigIInv, ConfigTypeOK
  <2>3. FormShape'
    BY <1>1, <1>2, <1>5, <2>1 DEF ConfigIInv, FormShape
  <2>4. SaveShape'
    <3>1. \A t \in Tables : HasForm(t)'
      BY <1>2, <1>5
    <3>2. \A c \in Configs : results'[c] = "none"
      BY <1>1 DEF ConfigIInv, SaveShape
    <3>3. \A c \in Configs : IsSubmitted(c)' => \A t \in Tables :
            IF c \in Uses[t] THEN saveConfigs'[c][t] = form'[t][c]
            ELSE c \notin doubt' => saveConfigs'[c][t] = stored'[c][t]
      <4> TAKE c \in Configs
      <4> HAVE IsSubmitted(c)'
      <4> TAKE t \in Tables
      <4>1. PICK u \in Tables : c \in Submitted(u)
        BY <1>5 DEF IsSubmitted
      <4> QED BY <1>1, <1>5, <4>1, CollectedParts
    <3>4. \A t \in Tables : \A c \in edited'[t] \ wasSubmitted'[t] : form'[t][c] = arm'[t][c][t]
      BY <1>1, <1>5, NotSubmitted DEF ConfigIInv, ConfigTypeOK
    <3> QED BY <1>5, <3>1, <3>2, <3>3, <3>4 DEF SaveShape
  <2> QED BY <1>3, <2>2, <2>3, <2>4 DEF ConfigIInv
<1> QED BY <1>4, <1>5 DEF SaveConfig, HasForm

\* The objects are put.
LEMMA NotificationStep ==
  ASSUME ConfigIInv, NotificationShown
  PROVE  ConfigIInv'
<1>1. /\ saving = "notifying" /\ saving' = "putting"
      /\ results' = [c \in Configs |-> IF IsSubmitted(c) THEN "waiting" ELSE "none"]
      /\ UNCHANGED <<arm, form, edited, saveConfigs, wasSubmitted, dirtyState, wanted>>
      /\ UNCHANGED <<stored, loading, dirtyMessage, edits, doubt>>
  BY DEF NotificationShown, IsSubmitted, pageVars
<1>2. /\ \A t \in Tables : HasForm(t)' <=> HasForm(t)
      /\ \A c \in Configs : IsSubmitted(c)' <=> IsSubmitted(c)
  BY <1>1 DEF HasForm, IsSubmitted
<1>3. \A c \in Configs : results[c] = "none" /\ results'[c] # "success"
  BY <1>1 DEF ConfigIInv, SaveShape
<1>4. ConfigTypeOK'
  BY <1>1 DEF ConfigIInv, ConfigTypeOK
<1>5. SameBase' /\ FormShape' /\ EditsKept'
  BY <1>1, <1>2 DEF ConfigIInv, SameBase, FormShape, EditsKept, Dirty
<1>6. BaseIsCurrent'
  <2>1. \A t \in Tables : Uses[t] \subseteq Configs
    BY UsesAssumption
  <2> QED BY <1>1, <1>3, <2>1 DEF ConfigIInv, BaseIsCurrent
<1>7. SaveShape'
  <2>1. \A c \in Configs : results'[c] # "none" <=> IsSubmitted(c)
    BY <1>1
  <2> QED BY <1>1, <1>2, <1>3, <2>1 DEF ConfigIInv, SaveShape
<1> QED BY <1>4, <1>5, <1>6, <1>7 DEF ConfigIInv

\* An object is put, whether its answer arrives or not.
LEMMA PutStep ==
  ASSUME ConfigIInv, NEW c \in Configs, Put(c)
  PROVE  ConfigIInv'
<1>1. PICK how \in {"success", "failure"}, done \in BOOLEAN :
        /\ how = "success" => done
        /\ results[c] = "waiting" /\ results' = [results EXCEPT ![c] = how]
        /\ stored' = IF done THEN [stored EXCEPT ![c] = saveConfigs[c]] ELSE stored
        /\ doubt' = IF done THEN IF how = "success" THEN doubt \ {c} ELSE doubt \cup {c}
                    ELSE doubt
        /\ UNCHANGED <<loading, arm, form, edited, saving, saveConfigs, wasSubmitted,
                       dirtyMessage, dirtyState, edits, wanted>>
  <2>1. CASE PutSucceeds(c)
    BY <2>1 DEF PutSucceeds
  <2>2. CASE PutFails(c)
    BY <2>2 DEF PutFails
  <2> QED BY <2>1, <2>2 DEF Put
<1>2. saving = "putting" /\ IsSubmitted(c) /\ \A t \in Tables : HasForm(t)
  BY <1>1 DEF ConfigIInv, SaveShape
<1>3. /\ \A t \in Tables : HasForm(t)' <=> HasForm(t)
      /\ \A d \in Configs : IsSubmitted(d)' <=> IsSubmitted(d)
  BY <1>1 DEF HasForm, IsSubmitted
<1>4. /\ stored'[c] = IF done THEN saveConfigs[c] ELSE stored[c]
      /\ results'[c] = how /\ (how = "success" => c \notin doubt')
      /\ done /\ how = "failure" => c \in doubt'
      /\ ~done => doubt' = doubt /\ how = "failure"
      /\ \A d \in Configs \ {c} : /\ stored'[d] = stored[d] /\ results'[d] = results[d]
                                  /\ d \in doubt' <=> d \in doubt
  BY <1>1 DEF ConfigIInv, ConfigTypeOK
<1>5. ConfigTypeOK'
  <2>1. stored' \in [Configs -> Object] /\ doubt' \subseteq Configs
    BY <1>1 DEF ConfigIInv, ConfigTypeOK
  <2> QED BY <1>1, <2>1 DEF ConfigIInv, ConfigTypeOK
<1>6. SameBase' /\ FormShape' /\ EditsKept'
  BY <1>1, <1>3 DEF ConfigIInv, SameBase, FormShape, EditsKept, Dirty
<1>7. BaseIsCurrent'
  <2> SUFFICES ASSUME NEW t \in Tables, NEW d \in Uses[t], d \notin doubt',
                      loading'[t] = "loaded", results'[d] # "success"
               PROVE  arm'[t][d] = stored'[d]
    BY DEF BaseIsCurrent
  <2>1. d \in Configs
    BY UsesAssumption
  <2>2. CASE d = c
    BY <1>1, <1>4, <2>2 DEF ConfigIInv, BaseIsCurrent
  <2>3. CASE d # c
    BY <1>1, <1>4, <2>1, <2>3 DEF ConfigIInv, BaseIsCurrent
  <2> QED BY <2>2, <2>3
<1>8. SaveShape'
  <2>1. \A t \in Tables : HasForm(t)'
    BY <1>2, <1>3
  <2>2. ASSUME NEW d \in Configs
        PROVE  /\ results'[d] # "none" <=> saving' = "putting" /\ IsSubmitted(d)'
               /\ results'[d] = "success" => stored'[d] = saveConfigs'[d] /\ d \notin doubt'
               /\ IsSubmitted(d)' => \A t \in Tables :
                    IF d \in Uses[t] THEN saveConfigs'[d][t] = form'[t][d]
                    ELSE d \notin doubt' => saveConfigs'[d][t] = stored'[d][t]
    <3>1. CASE d = c
      <4>1. results'[c] # "none"
        BY <1>4
      <4>2. \A t \in Tables : c \in Uses[t] => saveConfigs[c][t] = form[t][c]
        BY <1>2 DEF ConfigIInv, SaveShape
      <4>3. \A t \in Tables : c \notin Uses[t] /\ c \notin doubt' =>
              saveConfigs[c][t] = stored'[c][t]
        BY <1>2, <1>4 DEF ConfigIInv, SaveShape
      <4> QED BY <1>1, <1>2, <1>3, <1>4, <3>1, <4>1, <4>2, <4>3
    <3>2. CASE d # c
      BY <1>1, <1>3, <1>4, <3>2 DEF ConfigIInv, SaveShape
    <3> QED BY <3>1, <3>2
  <2>3. \A t \in Tables : \A d \in edited'[t] \ wasSubmitted'[t] : form'[t][d] = arm'[t][d][t]
    BY <1>1, <1>2 DEF ConfigIInv, SaveShape
  <2> QED BY <1>1, <1>2, <2>1, <2>2, <2>3 DEF SaveShape
<1> QED BY <1>5, <1>6, <1>7, <1>8 DEF ConfigIInv

\* All objects have been put or have failed: the tables take what was put, and the
\* forms of those that have failed are kept.
LEMMA SaveAnsweredStep ==
  ASSUME ConfigIInv, SaveAnswered
  PROVE  ConfigIInv'
<1> DEFINE T == {t \in Tables : ~SaveFailed(t)}
<1>1. /\ saving = "putting" /\ saving' = "none" /\ dirtyMessage' = FALSE
      /\ \A c \in Configs : results[c] \in {"none", "success", "failure"}
      /\ arm' = [t \in Tables |-> Processed(t)]
      /\ form' = Regenerated(T, arm')
      /\ edited' = [t \in Tables |-> IF SaveFailed(t) THEN edited[t] ELSE {}]
      /\ dirtyState' = \E t \in Tables : edited'[t] # {}
      /\ wasSubmitted' = [t \in Tables |-> {}]
      /\ results' = [c \in Configs |-> "none"]
      /\ UNCHANGED <<stored, loading, saveConfigs, edits, wanted, doubt>>
  BY DEF SaveAnswered
<1>2. /\ \A t \in Tables : HasForm(t) /\ HasForm(t)' /\ (HasForm(t)' <=> HasForm(t))
      /\ \A t \in Tables : wasSubmitted[t] \subseteq edited[t] /\ edited[t] \subseteq Uses[t]
      /\ \A t \in Tables : Uses[t] \subseteq Configs
  BY <1>1, UsesAssumption DEF ConfigIInv, SaveShape, FormShape, HasForm
<1>3. \A t \in Tables, c \in Configs :
        arm'[t][c] = IF results[c] = "success" /\ c \in Uses[t] THEN saveConfigs[c] ELSE arm[t][c]
  BY <1>1, <1>2 DEF Processed
<1>4. arm' \in [Tables -> [Configs -> Object]]
  BY <1>1 DEF Processed, ConfigIInv, ConfigTypeOK
<1>5. /\ form' \in Parts
      /\ \A t \in Tables, c \in Configs :
           form'[t][c] = IF SaveFailed(t) THEN form[t][c] ELSE arm'[t][c][t]
  <2>1. T \in SUBSET Tables /\ form \in Parts
    BY DEF ConfigIInv, ConfigTypeOK
  <2> HIDE DEF T
  <2>2. /\ form' \in Parts
        /\ \A t \in Tables, c \in Configs :
             form'[t][c] = IF t \in T THEN arm'[t][c][t] ELSE form[t][c]
    <3>1. form' = [t \in Tables |-> IF t \in T THEN [c \in Configs |-> arm'[t][c][t]]
                                  ELSE form[t]]
      BY <1>1 DEF Regenerated
    <3>2. \A t \in Tables, c \in Configs : arm'[t][c][t] \in Part
      BY <1>4 DEF Object
    <3> QED BY <2>1, <3>1, <3>2 DEF Parts
  <2> QED BY <2>2 DEF T
<1>6. ASSUME NEW t \in Tables, NEW c \in Configs,
             c \notin edited[t] \/ c \notin wasSubmitted[t] \/ ~SaveFailed(t)
      PROVE  form[t][c] = arm'[t][c][t]
  <2>1. CASE results[c] = "success" /\ c \in Uses[t]
    <3>1. IsSubmitted(c)
      BY <2>1 DEF ConfigIInv, SaveShape
    <3> QED BY <1>3, <2>1, <3>1 DEF ConfigIInv, SaveShape
  <2>2. CASE ~(results[c] = "success" /\ c \in Uses[t])
    <3>1. c \notin wasSubmitted[t]
      <4> SUFFICES ASSUME c \in wasSubmitted[t] PROVE FALSE
        OBVIOUS
      <4>1. c \in Uses[t] /\ c \in edited[t] /\ IsSubmitted(c)
        BY <1>2 DEF IsSubmitted
      <4>2. results[c] = "failure"
        BY <1>1, <2>2, <4>1 DEF ConfigIInv, SaveShape
      <4> QED BY <1>6, <4>1, <4>2 DEF SaveFailed
    <3>2. form[t][c] = arm[t][c][t]
      BY <1>1, <1>2, <3>1 DEF ConfigIInv, SaveShape, FormShape
    <3> QED BY <1>3, <2>2, <3>2
  <2> QED BY <2>1, <2>2
<1>7. form' = form
  <2>1. \A t \in Tables, c \in Configs : form'[t][c] = form[t][c]
    BY <1>5, <1>6
  <2>2. form \in Parts
    BY DEF ConfigIInv, ConfigTypeOK
  <2> QED BY <1>5, <2>1, <2>2 DEF Parts
<1>8. ASSUME NEW t \in Tables, NEW c \in Configs \ edited'[t]
      PROVE  form'[t][c] = arm'[t][c][t]
  BY <1>1, <1>6, <1>7, <1>8
<1>9. \A c \in Configs : ~IsSubmitted(c)'
  BY <1>1 DEF IsSubmitted
<1>10. ConfigTypeOK'
  BY <1>1, <1>4, <1>5 DEF ConfigIInv, ConfigTypeOK
<1>11. SameBase'
  BY <1>2, <1>3 DEF ConfigIInv, SameBase
<1>12. FormShape'
  BY <1>1, <1>2, <1>8 DEF FormShape
<1>13. SaveShape'
  BY <1>1, <1>2, <1>9 DEF SaveShape
<1>14. BaseIsCurrent'
  <2> SUFFICES ASSUME NEW t \in Tables, NEW c \in Uses[t], c \notin doubt
               PROVE  arm'[t][c] = stored[c]
    BY <1>1 DEF BaseIsCurrent
  <2>1. c \in Configs
    BY <1>2
  <2>2. CASE results[c] = "success"
    BY <1>3, <2>1, <2>2 DEF ConfigIInv, SaveShape
  <2>3. CASE results[c] # "success"
    BY <1>2, <1>3, <2>1, <2>3 DEF ConfigIInv, BaseIsCurrent, HasForm
  <2> QED BY <2>2, <2>3
<1>15. EditsKept'
  <2>1. form' = wanted'
    BY <1>1, <1>7 DEF ConfigIInv, EditsKept
  <2>2. dirtyState' <=> Dirty'
    BY <1>1 DEF Dirty
  <2>3. \A t \in Tables : \A c \in Uses[t] \ edited'[t] : wanted'[t][c] = arm'[t][c][t]
    BY <1>2, <1>8, <2>1
  <2> QED BY <2>1, <2>2, <2>3 DEF EditsKept
<1> QED BY <1>10, <1>11, <1>12, <1>13, <1>14, <1>15 DEF ConfigIInv

\* Nothing of the page changes.
LEMMA ConfigRests ==
  ASSUME ConfigIInv, UNCHANGED configVars
  PROVE  ConfigIInv'
<1>1. /\ \A t \in Tables : HasForm(t)' <=> HasForm(t)
      /\ \A c \in Configs : IsSubmitted(c)' <=> IsSubmitted(c)
  BY DEF HasForm, IsSubmitted, configVars
<1>2. ConfigTypeOK'
  BY DEF ConfigIInv, ConfigTypeOK, configVars
<1>3. SameBase' /\ FormShape' /\ SaveShape'
  BY <1>1 DEF ConfigIInv, SameBase, FormShape, SaveShape, configVars
<1>4. BaseIsCurrent' /\ EditsKept'
  BY DEF ConfigIInv, BaseIsCurrent, EditsKept, Dirty, configVars
<1> QED BY <1>2, <1>3, <1>4 DEF ConfigIInv

\* The inductive invariant of the configuration page.
THEOREM Configuration == ConfigSpec => []ConfigIInv
<1>1. ConfigIInv /\ [ConfigNext]_configVars => ConfigIInv'
  BY LoadTableStep, EditTableStep, DiscardStep, SaveConfigStep, NotificationStep, PutStep,
     SaveAnsweredStep, ConfigRests DEF ConfigNext
<1> QED BY <1>1, ConfigInitInv, PTL DEF ConfigSpec

\* A save that fails for some objects and not for others makes no later save put
\* back an old part.
THEOREM SavesStartFromCurrent == ConfigSpec => []BaseIsCurrent
BY Configuration, PTL DEF ConfigIInv

\* No edit is lost, whatever fails.
THEOREM NoEditLost == ConfigSpec => []EditsKept
BY Configuration, PTL DEF ConfigIInv

\* A part changes in ARM only to what its own table has in its form.
THEOREM OnlyOwnParts == ConfigSpec => OwnPartOnly
<1>1. ASSUME ConfigIInv, ConfigNext, NEW c \in Configs \ doubt, NEW t \in Tables,
             stored'[c][t] # stored[c][t]
      PROVE  stored'[c][t] = wanted[t][c]
  <2>1. PICK d \in Configs : Put(d)
    BY <1>1 DEF ConfigNext, LoadTable, EditTable, Discard, SaveConfig, NotificationShown,
       pageVars, SaveAnswered
  <2>2. results[d] = "waiting" /\ (stored' = stored \/ stored' = [stored EXCEPT ![d] = saveConfigs[d]])
    BY <2>1 DEF Put, PutSucceeds, PutFails
  <2>3. c = d /\ stored'[c] = saveConfigs[c]
    BY <1>1, <2>2 DEF ConfigIInv, ConfigTypeOK
  <2>4. IsSubmitted(c)
    BY <1>1, <2>2, <2>3 DEF ConfigIInv, SaveShape
  <2>5. c \in Uses[t]
    BY <1>1, <2>3, <2>4 DEF ConfigIInv, SaveShape
  <2> QED BY <1>1, <2>3, <2>4, <2>5 DEF ConfigIInv, SaveShape, EditsKept
<1>2. ConfigIInv /\ [ConfigNext]_configVars =>
        [\A c \in Configs \ doubt : \A t \in Tables :
           stored'[c][t] # stored[c][t] => stored'[c][t] = wanted[t][c]]_configVars
  BY <1>1
<1> QED BY <1>2, Configuration, PTL DEF ConfigSpec, OwnPartOnly

-----------------------------------------------------------------------------
(* SettingsForm: one form, and the two objects it is saved to.             *)

\* A form, and the names in it.
LEMMA FormType ==
  ASSUME NEW f \in Form
  PROVE  f.setting \in [Names -> Value] /\ f.sticky \subseteq Names
BY DEF Form

\* What a load makes of what it could read.
LEMMA FormOfType ==
  ASSUME NEW settings \in [Names -> Value], NEW names \in SUBSET Names
  PROVE  /\ FormOf(settings, names) \in Form
         /\ FormOf(settings, names).setting = settings
         /\ FormOf(settings, names).sticky = names \cap Present(settings)
BY DEF FormOf, Form, Present

\* The empty form.
LEMMA EmptyType ==
  /\ EmptyForm \in Form /\ EmptyForm.setting \in [Names -> Value]
  /\ EmptyForm.sticky = {} /\ Present(EmptyForm.setting) = {}
BY MaxChangesAssumption DEF EmptyForm, Form, Value, Present

\* Of the list that a form makes, the names that the form has are its own.
LEMMA StickyNames ==
  ASSUME NEW f \in Form, f.sticky \subseteq Present(f.setting), NEW old \in SUBSET Names
  PROVE  /\ StickySettings(f, old) \subseteq Names
         /\ StickySettings(f, old) \cap Present(f.setting) = f.sticky
BY DEF StickySettings, Form

-----------------------------------------------------------------------------
(* The inductive invariant.                                                *)

\* The invariant holds of a page that begins to load.
LEMMA SettingsInitInv == SettingsInit => SettingsIInv
<1> SUFFICES ASSUME SettingsInit PROVE SettingsIInv
  OBVIOUS
<1>1. siteSettings \in [Names -> Value] /\ EmptyForm \in Form
  BY EmptyType DEF SettingsInit
<1>2. SettingsTypeOK
  <2>1. /\ \A f \in {initialValues, values} : f.sticky \subseteq Present(f.setting)
        /\ initialValues \in Form /\ values \in Form
    BY <1>1, EmptyType DEF SettingsInit
  <2>2. changes \in Nat /\ loads \in 0 .. MaxLoads
    BY MaxLoadsAssumption DEF SettingsInit
  <2> QED BY <1>1, <2>1, <2>2 DEF SettingsInit, SettingsTypeOK, Update
<1>3. TouchedShape /\ WriteShape /\ PageIsCurrent
  BY DEF SettingsInit, TouchedShape, WriteShape, PageIsCurrent
<1> QED BY <1>2, <1>3 DEF SettingsIInv

\* A load that fails leaves what there was.
LEMMA LoadFailsStep ==
  ASSUME SettingsIInv, LoadFails
  PROVE  SettingsIInv'
<1>1. SettingsTypeOK /\ WriteShape
  BY DEF SettingsIInv
<1>2. SettingsTypeOK'
  BY <1>1 DEF LoadFails, SettingsTypeOK, armVars, permissionVars, writeVars
<1>3. TouchedShape' /\ WriteShape' /\ PageIsCurrent'
  BY <1>1 DEF LoadFails, TouchedShape, WriteShape, PageIsCurrent, armVars, permissionVars, writeVars
<1> QED BY <1>2, <1>3 DEF SettingsIInv

\* A load fills the form with what it could read.
LEMMA LoadedStep ==
  ASSUME SettingsIInv, Loaded
  PROVE  SettingsIInv'
<1>0. SettingsTypeOK /\ WriteShape
  BY DEF SettingsIInv
<1>1. PICK mayReadSettings \in BOOLEAN, readsNames \in BOOLEAN, mayWriteProduction \in BOOLEAN :
       /\ appPermissions' = (appPermissions /\ mayReadSettings)
       /\ productionPermissions' =
            /\ productionPermissions
            /\ mayReadSettings \/ isSlot
            /\ readsNames
            /\ isSlot => mayWriteProduction
       /\ slotConfigNamesFromApi' = IF mayReadSettings /\ readsNames THEN stickyNames
                                    ELSE slotConfigNamesFromApi
       /\ Fill(FormOf(IF mayReadSettings THEN siteSettings ELSE EmptyForm.setting,
                      IF readsNames THEN stickyNames ELSE {}))
       /\ knowsNames' = (mayReadSettings /\ readsNames)
       /\ siteDoubt' = IF mayReadSettings THEN FALSE ELSE siteDoubt
       /\ namesDoubt' = IF mayReadSettings /\ readsNames THEN FALSE ELSE namesDoubt
  BY DEF Loaded
<1>2. /\ page = "loading" /\ page' = "shown" /\ loadedOnce' = TRUE
      /\ UNCHANGED <<siteSettings, stickyNames, isSlot, siteUpdate, slotConfigNamesUpdate,
                     submitted, changes, loads>>
  BY DEF Loaded, armVars, writeVars
<1> DEFINE settings == IF mayReadSettings THEN siteSettings ELSE EmptyForm.setting
           names == IF readsNames THEN stickyNames ELSE {}
           loaded == FormOf(settings, names)
<1>3. settings \in [Names -> Value] /\ names \in SUBSET Names
  BY <1>0, EmptyType DEF SettingsTypeOK
<1>4. initialValues' = loaded /\ values' = loaded /\ touched' = {}
  BY <1>1 DEF Fill
<1>5. knowsNames' => settings = siteSettings /\ names = stickyNames
  BY <1>1
<1> HIDE DEF settings, names
<1>6. loaded \in Form /\ loaded.setting = settings /\ loaded.sticky = names \cap Present(settings)
  BY <1>3, FormOfType
<1> HIDE DEF loaded
<1>7. SettingsTypeOK'
  <2>1. \A f \in {initialValues', values'} : f.sticky \subseteq Present(f.setting)
    BY <1>4, <1>6
  <2>2. /\ slotConfigNamesFromApi' \subseteq Names
        /\ {loadedOnce', isSlot', appPermissions', productionPermissions', knowsNames', siteDoubt',
            namesDoubt'} \subseteq BOOLEAN
    BY <1>0, <1>1, <1>2 DEF SettingsTypeOK
  <2> QED BY <1>0, <1>2, <1>4, <1>6, <2>1, <2>2 DEF SettingsTypeOK
<1>8. TouchedShape' /\ WriteShape'
  BY <1>0, <1>2, <1>4 DEF TouchedShape, WriteShape
<1>9. PageIsCurrent'
  BY <1>1, <1>2, <1>4, <1>5, <1>6 DEF PageIsCurrent
<1> QED BY <1>7, <1>8, <1>9 DEF SettingsIInv

\* A refresh begins.
LEMMA RefreshStep ==
  ASSUME SettingsIInv, RefreshSettings
  PROVE  SettingsIInv'
<1>1. SettingsTypeOK'
  BY MaxLoadsAssumption
  DEF SettingsIInv, RefreshSettings, SettingsTypeOK, armVars, permissionVars, writeVars
<1>2. TouchedShape' /\ WriteShape' /\ PageIsCurrent'
  BY DEF SettingsIInv, RefreshSettings, TouchedShape, WriteShape, PageIsCurrent, armVars,
     permissionVars, writeVars
<1> QED BY <1>1, <1>2 DEF SettingsIInv

\* A setting is added, changed, removed, or made to stay with its slot.
LEMMA EditSettingStep ==
  ASSUME SettingsIInv, NEW n \in Names, EditSetting(n)
  PROVE  SettingsIInv'
<1>0. /\ values \in Form /\ values.setting \in [Names -> Value] /\ values.sticky \subseteq Names
      /\ values.sticky \subseteq Present(values.setting) /\ changes \in Nat
  BY FormType DEF SettingsIInv, SettingsTypeOK
<1>1. /\ page = "shown" /\ touched' = touched \cup {n} /\ changes' = changes + 1
      /\ changes + 1 \in Value \ {0}
      /\ UNCHANGED <<siteSettings, stickyNames, page, initialValues, loadedOnce,
                     slotConfigNamesFromApi, isSlot, appPermissions, productionPermissions,
                     siteUpdate, slotConfigNamesUpdate, submitted, knowsNames, siteDoubt,
                     namesDoubt, loads>>
  BY <1>0, MaxChangesAssumption DEF EditSetting, Value, armVars, permissionVars, writeVars
<1>2. /\ values' \in Form /\ values'.sticky \subseteq Present(values'.setting)
      /\ \A k \in Names \ {n} : /\ values'.setting[k] = values.setting[k]
                                /\ k \in values'.sticky <=> k \in values.sticky
  <2>1. CASE values' = [values EXCEPT !.setting[n] = changes + 1]
    <3>1. /\ values'.setting = [values.setting EXCEPT ![n] = changes + 1]
          /\ values'.sticky = values.sticky /\ values' \in Form
      BY <1>0, <1>1, <2>1 DEF Form
    <3> QED BY <1>0, <1>1, <3>1 DEF Present
  <2>2. CASE values' = [setting |-> [values.setting EXCEPT ![n] = 0],
                        sticky |-> values.sticky \ {n}]
    <3>1. 0 \in Value
      BY MaxChangesAssumption DEF Value
    <3>2. /\ values'.setting = [values.setting EXCEPT ![n] = 0]
          /\ values'.sticky = values.sticky \ {n} /\ values' \in Form
      BY <1>0, <2>2, <3>1 DEF Form
    <3> QED BY <1>0, <3>2 DEF Present
  <2>3. CASE /\ values.setting[n] # 0
             /\ values' = [values EXCEPT !.sticky = IF n \in @ THEN @ \ {n} ELSE @ \cup {n}]
    <3>1. /\ values'.setting = values.setting
          /\ values'.sticky = IF n \in values.sticky THEN values.sticky \ {n}
                              ELSE values.sticky \cup {n}
          /\ values' \in Form
      BY <1>0, <2>3 DEF Form
    <3> QED BY <1>0, <2>3, <3>1 DEF Present
  <2> QED BY <2>1, <2>2, <2>3 DEF EditSetting
<1>3. SettingsTypeOK'
  BY <1>0, <1>1, <1>2 DEF SettingsIInv, SettingsTypeOK
<1>4. TouchedShape' /\ WriteShape' /\ PageIsCurrent'
  BY <1>1, <1>2 DEF SettingsIInv, TouchedShape, WriteShape, PageIsCurrent
<1> QED BY <1>3, <1>4 DEF SettingsIInv

\* The edits are discarded.
LEMMA DiscardSettingsStep ==
  ASSUME SettingsIInv, DiscardSettings
  PROVE  SettingsIInv'
<1>1. SettingsTypeOK'
  BY DEF SettingsIInv, DiscardSettings, SettingsTypeOK, armVars, permissionVars, writeVars
<1>2. TouchedShape' /\ WriteShape' /\ PageIsCurrent'
  BY DEF SettingsIInv, DiscardSettings, TouchedShape, WriteShape, PageIsCurrent, armVars,
     permissionVars, writeVars
<1> QED BY <1>1, <1>2 DEF SettingsIInv

\* A save begins.
LEMMA SubmitStep ==
  ASSUME SettingsIInv, SubmitSettings
  PROVE  SettingsIInv'
<1>1. /\ page = "shown" /\ page' = "saving"
      /\ submitted' = StickySettings(values, slotConfigNamesFromApi)
      /\ siteUpdate' = "waiting"
      /\ slotConfigNamesUpdate' =
           IF productionPermissions /\ submitted' # slotConfigNamesFromApi THEN "waiting" ELSE "none"
      /\ UNCHANGED <<siteSettings, stickyNames, initialValues, values, loadedOnce,
                     slotConfigNamesFromApi, isSlot, appPermissions, productionPermissions,
                     touched, knowsNames, siteDoubt, namesDoubt, changes, loads>>
  BY DEF SubmitSettings, armVars, permissionVars
<1>2. submitted' \subseteq Names
  BY <1>1, StickyNames DEF SettingsIInv, SettingsTypeOK
<1>3. slotConfigNamesUpdate' \in {"waiting", "none"}
  BY <1>1
<1>4. SettingsTypeOK'
  BY <1>1, <1>2, <1>3 DEF SettingsIInv, SettingsTypeOK, Update
<1>5. TouchedShape' /\ PageIsCurrent'
  BY <1>1 DEF SettingsIInv, TouchedShape, PageIsCurrent
<1>6. WriteShape'
  <2>1. submitted' = StickySettings(values', slotConfigNamesFromApi')
    BY <1>1
  <2> QED BY <1>1, <2>1 DEF WriteShape
<1> QED BY <1>4, <1>5, <1>6 DEF SettingsIInv

\* The site is written.
LEMMA SiteUpdatedStep ==
  ASSUME SettingsIInv, SiteUpdated
  PROVE  SettingsIInv'
<1>1. /\ siteUpdate = "waiting"
      /\ \/ siteSettings' = values.setting /\ siteUpdate' \in {"success", "failure"}
         \/ siteSettings' = siteSettings /\ siteUpdate' = "failure"
      /\ siteDoubt' = (siteDoubt \/ siteSettings' # siteSettings)
      /\ UNCHANGED <<stickyNames, page, initialValues, values, loadedOnce, slotConfigNamesFromApi,
                     isSlot, appPermissions, productionPermissions, slotConfigNamesUpdate,
                     submitted, touched, knowsNames, namesDoubt, changes, loads>>
  BY DEF SiteUpdated, permissionVars
<1>2. page = "saving" /\ values.setting \in [Names -> Value]
  BY <1>1, FormType DEF SettingsIInv, SettingsTypeOK, WriteShape
<1>3. SettingsTypeOK'
  <2>1. siteSettings' \in [Names -> Value] /\ siteDoubt' \in BOOLEAN
    BY <1>1, <1>2 DEF SettingsIInv, SettingsTypeOK
  <2> QED BY <1>1, <2>1 DEF SettingsIInv, SettingsTypeOK, Update
<1>4. TouchedShape' /\ PageIsCurrent'
  BY <1>1 DEF SettingsIInv, TouchedShape, PageIsCurrent
<1>5. WriteShape'
  <2>1. StickySettings(values', slotConfigNamesFromApi') = StickySettings(values, slotConfigNamesFromApi)
    BY <1>1
  <2> QED BY <1>1, <1>2, <2>1 DEF SettingsIInv, WriteShape
<1> QED BY <1>3, <1>4, <1>5 DEF SettingsIInv

\* The list of names is written.
LEMMA SlotConfigNamesUpdatedStep ==
  ASSUME SettingsIInv, SlotConfigNamesUpdated
  PROVE  SettingsIInv'
<1>1. /\ slotConfigNamesUpdate = "waiting"
      /\ \/ stickyNames' = submitted /\ slotConfigNamesUpdate' \in {"success", "failure"}
         \/ stickyNames' = stickyNames /\ slotConfigNamesUpdate' = "failure"
      /\ namesDoubt' = (namesDoubt \/ stickyNames' # stickyNames)
      /\ UNCHANGED <<siteSettings, page, initialValues, values, loadedOnce, slotConfigNamesFromApi,
                     isSlot, appPermissions, productionPermissions, siteUpdate, submitted, touched,
                     knowsNames, siteDoubt, changes, loads>>
  BY DEF SlotConfigNamesUpdated, permissionVars
<1>2. page = "saving"
  BY <1>1 DEF SettingsIInv, WriteShape, SettingsTypeOK
<1>3. SettingsTypeOK'
  <2>1. stickyNames' \subseteq Names /\ namesDoubt' \in BOOLEAN
    BY <1>1 DEF SettingsIInv, SettingsTypeOK
  <2> QED BY <1>1, <2>1 DEF SettingsIInv, SettingsTypeOK, Update
<1>4. TouchedShape' /\ PageIsCurrent'
  BY <1>1 DEF SettingsIInv, TouchedShape, PageIsCurrent
<1>5. WriteShape'
  <2>1. StickySettings(values', slotConfigNamesFromApi') = StickySettings(values, slotConfigNamesFromApi)
    BY <1>1
  <2> QED BY <1>1, <1>2, <2>1 DEF SettingsIInv, WriteShape
<1> QED BY <1>3, <1>4, <1>5 DEF SettingsIInv

\* Both writes were done: the form is what the site has.
LEMMA SavedStep ==
  ASSUME SettingsIInv, SettingsSaved
  PROVE  SettingsIInv'
<1>1. /\ page = "saving" /\ page' = "shown"
      /\ siteUpdate = "success" /\ slotConfigNamesUpdate \in {"none", "success"}
      /\ initialValues' = values /\ values' = values /\ touched' = {}
      /\ siteDoubt' = FALSE
      /\ \/ /\ slotConfigNamesUpdate = "success"
            /\ slotConfigNamesFromApi' = submitted /\ namesDoubt' = FALSE
         \/ /\ slotConfigNamesUpdate = "none"
            /\ UNCHANGED <<slotConfigNamesFromApi, namesDoubt>>
      /\ siteUpdate' = "none" /\ slotConfigNamesUpdate' = "none"
      /\ UNCHANGED <<siteSettings, stickyNames, loadedOnce, isSlot, appPermissions,
                     productionPermissions, submitted, knowsNames, changes, loads>>
  BY DEF SettingsSaved, BothAnswered, Fill, armVars, permissionVars
<1>2. /\ submitted = StickySettings(values, slotConfigNamesFromApi)
      /\ siteSettings = values.setting
      /\ slotConfigNamesUpdate = "success" => stickyNames = submitted
      /\ slotConfigNamesUpdate = "none" /\ productionPermissions => submitted = slotConfigNamesFromApi
  BY <1>1 DEF SettingsIInv, WriteShape
<1>3. submitted \cap Present(values.setting) = values.sticky
  BY <1>2, StickyNames DEF SettingsIInv, SettingsTypeOK
<1>4. SettingsTypeOK'
  <2>1. \A f \in {initialValues', values'} : f.sticky \subseteq Present(f.setting)
    BY <1>1 DEF SettingsIInv, SettingsTypeOK
  <2>2. slotConfigNamesFromApi' \subseteq Names /\ namesDoubt' \in BOOLEAN
    BY <1>1 DEF SettingsIInv, SettingsTypeOK
  <2> QED BY <1>1, <2>1, <2>2 DEF SettingsIInv, SettingsTypeOK, Update
<1>5. TouchedShape' /\ WriteShape'
  BY <1>1 DEF TouchedShape, WriteShape
<1>6. PageIsCurrent'
  BY <1>1, <1>2, <1>3 DEF SettingsIInv, PageIsCurrent
<1> QED BY <1>4, <1>5, <1>6 DEF SettingsIInv

\* One of the writes has failed.
LEMMA NotSavedStep ==
  ASSUME SettingsIInv, SettingsNotSaved
  PROVE  SettingsIInv'
<1>1. SettingsTypeOK'
  BY DEF SettingsIInv, SettingsNotSaved, BothAnswered, SettingsTypeOK, Update, armVars,
     permissionVars
<1>2. TouchedShape' /\ WriteShape' /\ PageIsCurrent'
  BY DEF SettingsIInv, SettingsNotSaved, BothAnswered, TouchedShape, WriteShape, PageIsCurrent,
     armVars, permissionVars
<1> QED BY <1>1, <1>2 DEF SettingsIInv

\* Nothing of the page changes.
LEMMA SettingsRest ==
  ASSUME SettingsIInv, UNCHANGED settingsVars
  PROVE  SettingsIInv'
<1>1. SettingsTypeOK'
  BY DEF SettingsIInv, SettingsTypeOK, settingsVars, armVars, permissionVars, writeVars
<1>2. TouchedShape' /\ PageIsCurrent'
  BY DEF SettingsIInv, TouchedShape, PageIsCurrent, settingsVars, armVars, permissionVars, writeVars
<1>3. WriteShape'
  <2>1. StickySettings(values, slotConfigNamesFromApi)' = StickySettings(values, slotConfigNamesFromApi)
    BY DEF StickySettings, settingsVars
  <2> QED BY <2>1 DEF SettingsIInv, WriteShape, settingsVars, armVars, permissionVars, writeVars
<1> QED BY <1>1, <1>2, <1>3 DEF SettingsIInv

\* The inductive invariant of the settings page.
THEOREM Settings == SettingsSpec => []SettingsIInv
<1>1. SettingsIInv /\ [SettingsNext]_settingsVars => SettingsIInv'
  BY LoadFailsStep, LoadedStep, RefreshStep, EditSettingStep, DiscardSettingsStep, SubmitStep,
     SiteUpdatedStep, SlotConfigNamesUpdatedStep, SavedStep, NotSavedStep, SettingsRest
  DEF SettingsNext
<1> QED BY <1>1, SettingsInitInv, PTL DEF SettingsSpec

\* What the page takes for stored is what ARM has, whatever saves, failures and
\* refreshes there were.
THEOREM StoredIsKnown == SettingsSpec => []PageIsCurrent
BY Settings, PTL DEF SettingsIInv

\* A save changes the stickiness only of names that were touched, whatever names
\* the other slots have.
THEOREM OthersKept == SettingsSpec => UntouchedKept
<1>1. ASSUME SettingsIInv, SettingsNext, knowsNames, ~namesDoubt, NEW n \in Names \ touched
      PROVE  n \in stickyNames' <=> n \in stickyNames
  <2>1. CASE stickyNames' = stickyNames
    BY <2>1
  <2>2. CASE SlotConfigNamesUpdated /\ stickyNames' = submitted
    <3>1. slotConfigNamesUpdate = "waiting" /\ page = "saving" /\ productionPermissions
      BY <1>1, <2>2 DEF SlotConfigNamesUpdated, SettingsIInv, WriteShape, SettingsTypeOK
    <3>2. /\ slotConfigNamesFromApi = stickyNames
          /\ initialValues.sticky = stickyNames \cap Present(initialValues.setting)
      BY <1>1, <3>1 DEF SettingsIInv, PageIsCurrent
    <3>3. submitted = values.sticky \cup (stickyNames \ Present(values.setting))
      BY <1>1, <3>1, <3>2 DEF SettingsIInv, WriteShape, StickySettings
    <3>4. /\ n \in values.sticky <=> n \in initialValues.sticky
          /\ n \in Present(values.setting) <=> n \in Present(initialValues.setting)
      BY <1>1 DEF SettingsIInv, TouchedShape, Present
    <3> QED BY <2>2, <3>2, <3>3, <3>4
  <2>3. stickyNames' = stickyNames \/ (SlotConfigNamesUpdated /\ stickyNames' = submitted)
    BY <1>1 DEF SettingsNext, LoadFails, Loaded, RefreshSettings, DiscardSettings, EditSetting,
       SubmitSettings, SiteUpdated, SlotConfigNamesUpdated, SettingsSaved, SettingsNotSaved, armVars
  <2> QED BY <2>1, <2>2, <2>3
<1>2. SettingsIInv /\ [SettingsNext]_settingsVars =>
        [knowsNames /\ ~namesDoubt =>
           \A n \in Names \ touched : n \in stickyNames' <=> n \in stickyNames]_settingsVars
  BY <1>1
<1> QED BY <1>2, Settings, PTL DEF SettingsSpec, UntouchedKept
=============================================================================
