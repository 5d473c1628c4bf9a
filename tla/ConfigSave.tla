----------------------------- MODULE ConfigSave -----------------------------
(***************************************************************************)
(* Saving the configuration of a site in the Angular client:               *)
(* site-config.component.ts, the tables it shows, and                      *)
(* config-save-component.ts, from which they are derived.                  *)
(*                                                                         *)
(* Each table is loaded by itself and keeps the ARM objects it uses, with  *)
(* the form over them.  Two tables may use the same object, each of them a *)
(* part of it: application settings and connection strings share the slot  *)
(* configuration names, four tables share the site configuration.  A save  *)
(* puts all changed objects in parallel; each of them can fail, and a      *)
(* table keeps its form when one of its own has failed.                    *)
(*                                                                         *)
(* An object maps each table to its part, and a part is the number of the  *)
(* edit that made it.  A PUT whose answer is lost fails for the page,      *)
(* whether ARM has executed it or not.  The busy indicator covers the page *)
(* during a save, so that it is neither edited nor saved again.  That a row *)
(* which was added is deleted again is left out.                           *)
(***************************************************************************)
EXTENDS Naturals

CONSTANTS
  NumTables,            \* the tables of the page, in its order
  Configs,              \* the kinds of ARM objects
  Uses,                 \* configTypesUsed of each table
  Compared,             \* the kinds put only when the part differs from that of the object
  MaxEdits              \* bound: edits of the user

Tables == 1 .. NumTables

ASSUME NumTablesAssumption == NumTables \in Nat
ASSUME UsesAssumption == Uses \in [Tables -> SUBSET Configs]
ASSUME ComparedAssumption == Compared \subseteq Configs
ASSUME MaxEditsAssumption == MaxEdits \in Nat

VARIABLES
  stored,               \* the objects of ARM
  loading,              \* "loading", "loaded" or "failed", for each table
  arm,                  \* the objects each table keeps
  form,                 \* the part of each object in the form of its table
  edited,               \* the objects each form has touched; none: the form is pristine
  saving,               \* "none", "notifying" or "putting"
  saveConfigs,          \* the objects to put
  wasSubmitted,         \* which table has submitted them
  results,              \* of the PUTs
  dirtyMessage,         \* the page warns that a save is in progress
  dirtyState,           \* the broadcast service has the page as dirty
  edits,                \* number of edits
  wanted,               \* the part the user left in each form
  doubt                 \* the objects whose last PUT failed after its execution

configVars == <<stored, loading, arm, form, edited, saving, saveConfigs, wasSubmitted,
                results, dirtyMessage, dirtyState, edits, wanted, doubt>>
pageVars == <<stored, loading, dirtyMessage, edits, doubt>>

Part == 0 .. MaxEdits
Object == [Tables -> Part]
Parts == [Tables -> [Configs -> Part]]

ConfigTypeOK ==
  /\ stored \in [Configs -> Object]
  /\ loading \in [Tables -> {"loading", "loaded", "failed"}]
  /\ arm \in [Tables -> [Configs -> Object]]
  /\ form \in Parts
  /\ edited \in [Tables -> SUBSET Configs]
  /\ saving \in {"none", "notifying", "putting"}
  /\ saveConfigs \in [Configs -> Object]
  /\ wasSubmitted \in [Tables -> SUBSET Configs]
  /\ results \in [Configs -> {"none", "waiting", "success", "failure"}]
  /\ dirtyMessage \in BOOLEAN
  /\ dirtyState \in BOOLEAN
  /\ edits \in Nat
  /\ wanted \in Parts
  /\ doubt \subseteq Configs

NewObject == [t \in Tables |-> 0]
NewParts == [t \in Tables |-> [c \in Configs |-> 0]]

ConfigInit ==
  /\ stored = [c \in Configs |-> NewObject]
  /\ loading = [t \in Tables |-> "loading"]
  /\ arm = [t \in Tables |-> [c \in Configs |-> NewObject]]
  /\ form = NewParts
  /\ edited = [t \in Tables |-> {}]
  /\ saving = "none"
  /\ saveConfigs = [c \in Configs |-> NewObject]
  /\ wasSubmitted = [t \in Tables |-> {}]
  /\ results = [c \in Configs |-> "none"]
  /\ dirtyMessage = FALSE
  /\ dirtyState = FALSE
  /\ edits = 0
  /\ wanted = NewParts
  /\ doubt = {}
-----------------------------------------------------------------------------
\* setup of a table: its objects are read, or one of the reads fails.
LoadTable(t) ==
  /\ loading[t] = "loading"
  /\ \/ /\ loading' = [loading EXCEPT ![t] = "loaded"]
        /\ arm' = [arm EXCEPT ![t] = stored]
        /\ form' = [form EXCEPT ![t] = [c \in Configs |-> stored[c][t]]]
        /\ wanted' = [wanted EXCEPT ![t] = form'[t]]
     \/ /\ loading' = [loading EXCEPT ![t] = "failed"]
        /\ UNCHANGED <<arm, form, wanted>>
  /\ UNCHANGED <<stored, edited, saving, saveConfigs, wasSubmitted, results, dirtyMessage,
                 dirtyState, edits, doubt>>

\* The user edits the part of object c in table t, or makes it again what it was;
\* the value of mainForm changes.
EditTable(t, c) ==
  /\ saving = "none"
  /\ loading[t] = "loaded"
  /\ c \in Uses[t]
  /\ edits < MaxEdits
  /\ edits' = edits + 1
  /\ \E part \in {edits + 1, arm[t][c][t]} :
       /\ form' = [form EXCEPT ![t][c] = part]
       /\ wanted' = [wanted EXCEPT ![t][c] = part]
  /\ edited' = [edited EXCEPT ![t] = @ \cup {c}]
  /\ dirtyState' = TRUE
  /\ UNCHANGED <<stored, loading, arm, saving, saveConfigs, wasSubmitted, results,
                 dirtyMessage, doubt>>

\* mainForm.dirty.
Dirty == \E t \in Tables : edited[t] # {}

\* The tables in T are given a new form over their objects, and become pristine.
Regenerated(T, objects) ==
  [t \in Tables |-> IF t \in T THEN [c \in Configs |-> objects[t][c][t]] ELSE form[t]]

\* discard.
Discard ==
  /\ saving = "none"
  /\ Dirty
  /\ LET loaded == {t \in Tables : loading[t] = "loaded"} IN
       /\ form' = Regenerated(loaded, arm)
       /\ edited' = [t \in Tables |-> {}]
  /\ wanted' = form'
  /\ dirtyState' = FALSE
  /\ UNCHANGED <<stored, loading, arm, saving, saveConfigs, wasSubmitted, results,
                 dirtyMessage, edits, doubt>>
-----------------------------------------------------------------------------
\* _getConfigsFromForms: the objects a table submits.
Submitted(t) ==
  {c \in edited[t] : c \in Compared => form[t][c] # arm[t][c][t]}

\* getSaveConfigs of the tables, in the order of the page: the first to submit an
\* object starts from its own copy, the others go on with what they are given.
Collected(c) ==
  LET who == {t \in Tables : c \in Submitted(t)} IN
  IF who = {} THEN NewObject
  ELSE LET first == CHOOSE t \in who : \A u \in who : t <= u IN
       [t \in Tables |-> IF t \in who THEN form[t][c] ELSE arm[first][c][t]]

\* save.  It sends nothing when a form turns out not to be valid, or when it throws
\* because it comes to a table that has no form to validate.
SaveConfig ==
  /\ saving = "none"
  /\ Dirty
  /\ dirtyMessage' = TRUE
  /\ \/ /\ \A t \in Tables : loading[t] = "loaded"
        /\ saving' = "notifying"
        /\ saveConfigs' = [c \in Configs |-> Collected(c)]
        /\ wasSubmitted' = [t \in Tables |-> Submitted(t)]
     \/ UNCHANGED <<saving, saveConfigs, wasSubmitted>>
  /\ UNCHANGED <<stored, loading, arm, form, edited, results, dirtyState, edits, wanted,
                 doubt>>

\* The portal has started the notification: the objects are put.
NotificationShown ==
  /\ saving = "notifying"
  /\ saving' = "putting"
  /\ results' = [c \in Configs |-> IF \E t \in Tables : c \in wasSubmitted[t]
                                  THEN "waiting" ELSE "none"]
  /\ UNCHANGED <<arm, form, edited, saveConfigs, wasSubmitted, dirtyState, wanted>>
  /\ UNCHANGED pageVars

\* _putArm, answered with success.
PutSucceeds(c) ==
  /\ results[c] = "waiting"
  /\ stored' = [stored EXCEPT ![c] = saveConfigs[c]]
  /\ results' = [results EXCEPT ![c] = "success"]
  /\ doubt' = doubt \ {c}
  /\ UNCHANGED <<loading, arm, form, edited, saving, saveConfigs, wasSubmitted,
                 dirtyMessage, dirtyState, edits, wanted>>

\* _putArm, refused, or executed and its answer lost.
PutFails(c) ==
  /\ results[c] = "waiting"
  /\ results' = [results EXCEPT ![c] = "failure"]
  /\ \/ UNCHANGED <<stored, doubt>>
     \/ /\ stored' = [stored EXCEPT ![c] = saveConfigs[c]]
        /\ doubt' = doubt \cup {c}
  /\ UNCHANGED <<loading, arm, form, edited, saving, saveConfigs, wasSubmitted,
                 dirtyMessage, dirtyState, edits, wanted>>

\* (The operators named ..._Bug are plausible mistakes, for checking that the
\* properties see them; nothing uses them.)
\* _processSaveResult: a table is given the objects it has submitted, and not those
\* that another table has changed.
Processed_SubmittedBug(t) ==
  [c \in Configs |->
     IF results[c] = "success" /\ c \in wasSubmitted[t]
     THEN saveConfigs[c] ELSE arm[t][c]]

\* processSaveResults: a table is given every object that it needs.
Processed(t) ==
  [c \in Configs |->
     IF results[c] = "success" /\ c \in Uses[t] \cup wasSubmitted[t]
     THEN saveConfigs[c] ELSE arm[t][c]]

\* All tables are given a new form.
SaveFailed_NeverBug(t) == FALSE

\* _saveFailed.
SaveFailed(t) == \E c \in wasSubmitted[t] : results[c] = "failure"

\* save, when all PUTs have been answered: mainForm is made anew, and the tables
\* put into it either a new form or the one they had.
SaveAnswered ==
  /\ saving = "putting"
  /\ \A c \in Configs : results[c] \in {"none", "success", "failure"}
  /\ arm' = [t \in Tables |-> Processed(t)]
  /\ form' = Regenerated({t \in Tables : ~SaveFailed(t)}, arm')
  /\ edited' = [t \in Tables |-> IF SaveFailed(t) THEN edited[t] ELSE {}]
  /\ dirtyState' = \E t \in Tables : edited'[t] # {}
  /\ saving' = "none"
  /\ dirtyMessage' = FALSE
  /\ wasSubmitted' = [t \in Tables |-> {}]
  /\ results' = [c \in Configs |-> "none"]
  /\ UNCHANGED <<stored, loading, saveConfigs, edits, wanted, doubt>>
-----------------------------------------------------------------------------
Put(c) == PutSucceeds(c) \/ PutFails(c)

ConfigNext ==
  \/ \E t \in Tables : LoadTable(t) \/ \E c \in Configs : EditTable(t, c)
  \/ Discard \/ SaveConfig \/ NotificationShown \/ SaveAnswered
  \/ \E c \in Configs : Put(c)

ConfigSpec == ConfigInit /\ [][ConfigNext]_configVars
-----------------------------------------------------------------------------
\* Every table starts its next save from what ARM has, the parts of the other
\* tables included: a save that fails for some objects and not for others makes no
\* later save put back an old part (config-save-component.ts:212-225).  An object
\* whose last answer was lost is left aside.
BaseIsCurrent ==
  \A t \in Tables : \A c \in Uses[t] \ doubt :
    loading[t] = "loaded" /\ results[c] # "success" => arm[t][c] = stored[c]

\* What the user left in a form is there until the user changes or discards it,
\* whatever fails, and it is either what the table believes ARM to have or still
\* marks the page as dirty (site-config.component.ts:277-283).
EditsKept ==
  /\ form = wanted
  /\ \A t \in Tables : \A c \in Uses[t] \ edited[t] :
       loading[t] = "loaded" => wanted[t][c] = arm[t][c][t]
  /\ dirtyState <=> Dirty

\* A part changes in ARM only to what its own table has in its form
\* (app-settings.component.ts:267-270, connection-strings.component.ts:260-263).
OwnPartOnly ==
  [][\A c \in Configs \ doubt : \A t \in Tables :
       stored'[c][t] # stored[c][t] => stored'[c][t] = wanted[t][c]]_configVars

\* What is needed besides to make these properties inductive.  Tables that use the
\* same object have the same of it, and a table has in its form what it has of the
\* object, unless it is edited.  Only what a table uses is edited, and submitted
\* when it is.
HasForm(t) == loading[t] = "loaded"

SameBase ==
  \A t, u \in Tables : HasForm(t) /\ HasForm(u) =>
    \A c \in Uses[t] \cap Uses[u] : arm[t][c] = arm[u][c]

FormShape ==
  \A t \in Tables :
    /\ wasSubmitted[t] \subseteq edited[t] /\ edited[t] \subseteq Uses[t]
    /\ edited[t] # {} => HasForm(t)
    /\ HasForm(t) => \A c \in Configs \ edited[t] : form[t][c] = arm[t][c][t]

\* A save takes all tables.  An object to put has, for each table that uses it,
\* what is in its form, and for any other what ARM has; what a table has edited
\* without submitting it is as it was.
IsSubmitted(c) == \E t \in Tables : c \in wasSubmitted[t]

SaveShape ==
  /\ saving # "none" \/ doubt # {} => \A t \in Tables : HasForm(t)
  /\ saving = "none" => \A c \in Configs : ~IsSubmitted(c)
  /\ \A c \in Configs :
       /\ results[c] # "none" <=> saving = "putting" /\ IsSubmitted(c)
       /\ results[c] = "success" => stored[c] = saveConfigs[c] /\ c \notin doubt
       /\ IsSubmitted(c) => \A t \in Tables :
            IF c \in Uses[t] THEN saveConfigs[c][t] = form[t][c]
            ELSE c \notin doubt => saveConfigs[c][t] = stored[c][t]
  /\ saving # "none" =>
       \A t \in Tables : \A c \in edited[t] \ wasSubmitted[t] : form[t][c] = arm[t][c][t]

ConfigIInv ==
  /\ ConfigTypeOK
  /\ SameBase
  /\ FormShape
  /\ SaveShape
  /\ BaseIsCurrent
  /\ EditsKept
=============================================================================
