---------------------------- MODULE SettingsForm ----------------------------
(***************************************************************************)
(* The settings of the React configuration page: loading, editing and      *)
(* saving them (AppSettingsDataLoader.tsx, AppSettingsFormData.ts).        *)
(*                                                                         *)
(* A site has settings.  The names of those that stay with their slot are  *)
(* kept in one list for all slots of the app, which the page reads and     *)
(* writes beside the site; it writes the list only when it differs from    *)
(* the one it has read, and keeps the names in it that its form does not   *)
(* have.  A save is two writes in parallel, and is one for the page only   *)
(* if both succeed; an answer can be lost when the write was done.         *)
(*                                                                         *)
(* A value is the number of the edit that made it, 0 is no setting.  The   *)
(* page is not edited while it saves (PermissionsContext), and nobody else *)
(* writes.  Connection strings, whose names are treated in the same way,   *)
(* mounts and the general settings, which are written with the site, the   *)
(* key vault references and the stacks are left out; so is a swap that is  *)
(* pending, which makes the page read-only.                                *)
(***************************************************************************)
EXTENDS Naturals

CONSTANTS
  Names,                \* the names of settings
  MaxChanges,           \* bound: edits, and 1 for the value of the start
  MaxLoads              \* bound: loads

ASSUME MaxChangesAssumption == MaxChanges \in Nat
ASSUME MaxLoadsAssumption == MaxLoads \in Nat \ {0}

VARIABLES
  siteSettings,         \* ARM: the settings of the site
  stickyNames,          \* ARM: the slot configuration names
  page,                 \* "loading", "shown" or "saving"
  initialValues,        \* what the form was filled with; a page without is empty
  values,               \* the form
  loadedOnce,           \* there are initial values
  slotConfigNamesFromApi,
  isSlot,               \* the site is a slot, not the production site
  appPermissions, productionPermissions,
  siteUpdate, slotConfigNamesUpdate, \* the two writes: "none", "waiting", "success", "failure"
  submitted,            \* the list that is written
  touched,              \* names edited since the form was filled
  knowsNames,           \* the last load has read the list
  siteDoubt, namesDoubt, \* a write that was done belongs to a save that failed
  changes, loads        \* counters

armVars == <<siteSettings, stickyNames>>
permissionVars == <<appPermissions, productionPermissions>>
writeVars == <<siteUpdate, slotConfigNamesUpdate, submitted>>
settingsVars == <<armVars, page, initialValues, values, loadedOnce, slotConfigNamesFromApi,
                  isSlot, permissionVars, writeVars, touched, knowsNames, siteDoubt,
                  namesDoubt, changes, loads>>

Value == 0 .. MaxChanges
Form == [setting : [Names -> Value], sticky : SUBSET Names]
Update == {"none", "waiting", "success", "failure"}

Present(setting) == {n \in Names : setting[n] # 0}

SettingsTypeOK ==
  /\ siteSettings \in [Names -> Value]
  /\ stickyNames \subseteq Names
  /\ page \in {"loading", "shown", "saving"}
  /\ initialValues \in Form /\ values \in Form
  /\ \A f \in {initialValues, values} : f.sticky \subseteq Present(f.setting)
  /\ slotConfigNamesFromApi \subseteq Names
  /\ {loadedOnce, isSlot, appPermissions, productionPermissions, knowsNames, siteDoubt,
      namesDoubt} \subseteq BOOLEAN
  /\ {siteUpdate, slotConfigNamesUpdate} \subseteq Update
  /\ submitted \subseteq Names /\ touched \subseteq Names
  /\ changes \in Nat /\ loads \in 0 .. MaxLoads

EmptyForm == [setting |-> [n \in Names |-> 0], sticky |-> {}]

SettingsInit ==
  /\ siteSettings \in [Names -> {0, 1} \cap Value]
  /\ stickyNames \in SUBSET Names
  /\ page = "loading"
  /\ initialValues = EmptyForm /\ values = EmptyForm
  /\ loadedOnce = FALSE
  /\ slotConfigNamesFromApi = {}
  /\ isSlot \in BOOLEAN
  /\ appPermissions = TRUE /\ productionPermissions = TRUE
  /\ siteUpdate = "none" /\ slotConfigNamesUpdate = "none"
  /\ submitted = {} /\ touched = {}
  /\ knowsNames = FALSE
  /\ siteDoubt = FALSE /\ namesDoubt = FALSE
  /\ changes = 1
  /\ loads = 1
-----------------------------------------------------------------------------
\* convertStateToForm, with what could be read.
FormOf(settings, names) ==
  [setting |-> settings, sticky |-> names \cap Present(settings)]

\* Formik takes the initial values as the form.
Fill(form) == initialValues' = form /\ values' = form /\ touched' = {}

\* fetchData, when the site or its configuration cannot be read.  What the page had
\* before a refresh is still there.
LoadFails ==
  /\ page = "loading"
  /\ page' = "shown"
  /\ values' = initialValues
  /\ touched' = {}
  /\ knowsNames' = FALSE
  /\ UNCHANGED <<armVars, initialValues, loadedOnce, slotConfigNamesFromApi, isSlot,
                 permissionVars, writeVars, siteDoubt, namesDoubt, changes, loads>>

\* fetchData.  The settings may be forbidden, for want of permissions or because of
\* a lock; the list may be unreadable; and a slot needs permission for the
\* production site.
Loaded ==
  /\ page = "loading"
  /\ \E mayReadSettings, readsNames, mayWriteProduction \in BOOLEAN :
       /\ appPermissions' = (appPermissions /\ mayReadSettings)
       /\ productionPermissions' =
            /\ productionPermissions
            /\ mayReadSettings \/ isSlot
            /\ readsNames
            /\ isSlot => mayWriteProduction
       /\ slotConfigNamesFromApi' = IF mayReadSettings /\ readsNames THEN stickyNames
                                    ELSE slotConfigNamesFromApi
       /\ Fill(FormOf(IF mayReadSettings THEN siteSettings ELSE EmptyForm.setting,
                      IF readsNames THEN stickyNames ELSE {}))
       /\ knowsNames' = (mayReadSettings /\ readsNames)
       /\ siteDoubt' = IF mayReadSettings THEN FALSE ELSE siteDoubt
       /\ namesDoubt' = IF mayReadSettings /\ readsNames THEN FALSE ELSE namesDoubt
  /\ page' = "shown"
  /\ loadedOnce' = TRUE
  /\ UNCHANGED <<armVars, isSlot, writeVars, changes, loads>>

\* refreshAppSettings.
RefreshSettings ==
  /\ page = "shown"
  /\ loads < MaxLoads
  /\ loads' = loads + 1
  /\ page' = "loading"
  /\ appPermissions' = TRUE /\ productionPermissions' = TRUE
  /\ UNCHANGED <<armVars, initialValues, values, loadedOnce, slotConfigNamesFromApi, isSlot,
                 writeVars, touched, knowsNames, siteDoubt, namesDoubt, changes>>

\* The user adds a setting or changes it, removes it, or makes it stay with its slot.
EditSetting(n) ==
  /\ page = "shown"
  /\ loadedOnce
  /\ appPermissions
  /\ changes < MaxChanges
  /\ changes' = changes + 1
  /\ \/ values' = [values EXCEPT !.setting[n] = changes + 1]
     \/ /\ values.setting[n] # 0
        /\ values' = [setting |-> [values.setting EXCEPT ![n] = 0],
                      sticky |-> values.sticky \ {n}]
     \/ /\ values.setting[n] # 0
        /\ productionPermissions
        /\ values' = [values EXCEPT !.sticky = IF n \in @ THEN @ \ {n} ELSE @ \cup {n}]
  /\ touched' = touched \cup {n}
  /\ UNCHANGED <<armVars, page, initialValues, loadedOnce, slotConfigNamesFromApi, isSlot,
                 permissionVars, writeVars, knowsNames, siteDoubt, namesDoubt, loads>>

\* Discard, and resetForm.
DiscardSettings ==
  /\ page = "shown"
  /\ values # initialValues
  /\ values' = initialValues
  /\ touched' = {}
  /\ UNCHANGED <<armVars, page, initialValues, loadedOnce, slotConfigNamesFromApi, isSlot,
                 permissionVars, writeVars, knowsNames, siteDoubt, namesDoubt, changes, loads>>
-----------------------------------------------------------------------------
\* (The operators named ..._Bug are plausible mistakes, for checking that the
\* properties see them; nothing uses them.)
\* Only the names of the form are written.
StickySettings_FormOnlyBug(form, old) == form.sticky

\* getStickySettings: names that the form does not have are kept.
StickySettings(form, old) == form.sticky \cup (old \ Present(form.setting))

\* onSubmit.
SubmitSettings ==
  /\ page = "shown"
  /\ values # initialValues
  /\ page' = "saving"
  /\ submitted' = StickySettings(values, slotConfigNamesFromApi)
  /\ siteUpdate' = "waiting"
  /\ slotConfigNamesUpdate' =
       IF productionPermissions /\ submitted' # slotConfigNamesFromApi THEN "waiting" ELSE "none"
  /\ UNCHANGED <<armVars, initialValues, values, loadedOnce, slotConfigNamesFromApi, isSlot,
                 permissionVars, touched, knowsNames, siteDoubt, namesDoubt, changes, loads>>

\* updateSite: done or not, and answered accordingly unless the answer is lost.
SiteUpdated ==
  /\ siteUpdate = "waiting"
  /\ \/ siteSettings' = values.setting /\ siteUpdate' \in {"success", "failure"}
     \/ UNCHANGED siteSettings /\ siteUpdate' = "failure"
  /\ siteDoubt' = (siteDoubt \/ siteSettings' # siteSettings)
  /\ UNCHANGED <<stickyNames, page, initialValues, values, loadedOnce, slotConfigNamesFromApi,
                 isSlot, permissionVars, slotConfigNamesUpdate, submitted, touched, knowsNames,
                 namesDoubt, changes, loads>>

\* updateSlotConfigNames.
SlotConfigNamesUpdated ==
  /\ slotConfigNamesUpdate = "waiting"
  /\ \/ stickyNames' = submitted /\ slotConfigNamesUpdate' \in {"success", "failure"}
     \/ UNCHANGED stickyNames /\ slotConfigNamesUpdate' = "failure"
  /\ namesDoubt' = (namesDoubt \/ stickyNames' # stickyNames)
  /\ UNCHANGED <<siteSettings, page, initialValues, values, loadedOnce, slotConfigNamesFromApi,
                 isSlot, permissionVars, siteUpdate, submitted, touched, knowsNames, siteDoubt,
                 changes, loads>>

BothAnswered ==
  page = "saving" /\ siteUpdate # "waiting" /\ slotConfigNamesUpdate # "waiting"

\* The list that the page has read is forgotten to be replaced by the one written.
SettingsSaved_StaleBug ==
  /\ BothAnswered
  /\ siteUpdate = "success" /\ slotConfigNamesUpdate \in {"none", "success"}
  /\ Fill(values)
  /\ siteDoubt' = FALSE
  /\ namesDoubt' = IF slotConfigNamesUpdate = "success" THEN FALSE ELSE namesDoubt
  /\ page' = "shown"
  /\ siteUpdate' = "none" /\ slotConfigNamesUpdate' = "none"
  /\ UNCHANGED <<armVars, loadedOnce, slotConfigNamesFromApi, isSlot, permissionVars,
                 submitted, knowsNames, changes, loads>>

\* The end of onSubmit, with both writes done.
SettingsSaved ==
  /\ BothAnswered
  /\ siteUpdate = "success" /\ slotConfigNamesUpdate \in {"none", "success"}
  /\ Fill(values)
  /\ siteDoubt' = FALSE
  /\ IF slotConfigNamesUpdate = "success"
     THEN slotConfigNamesFromApi' = submitted /\ namesDoubt' = FALSE
     ELSE UNCHANGED <<slotConfigNamesFromApi, namesDoubt>>
  /\ page' = "shown"
  /\ siteUpdate' = "none" /\ slotConfigNamesUpdate' = "none"
  /\ UNCHANGED <<armVars, loadedOnce, isSlot, permissionVars, submitted, knowsNames, changes,
                 loads>>

\* The end of onSubmit, when one has failed: the form stays as it is.
SettingsNotSaved ==
  /\ BothAnswered
  /\ "failure" \in {siteUpdate, slotConfigNamesUpdate}
  /\ page' = "shown"
  /\ siteUpdate' = "none" /\ slotConfigNamesUpdate' = "none"
  /\ UNCHANGED <<armVars, initialValues, values, loadedOnce, slotConfigNamesFromApi, isSlot,
                 permissionVars, submitted, touched, knowsNames, siteDoubt, namesDoubt, changes,
                 loads>>
-----------------------------------------------------------------------------
SettingsNext ==
  \/ LoadFails \/ Loaded \/ RefreshSettings \/ DiscardSettings
  \/ \E n \in Names : EditSetting(n)
  \/ SubmitSettings \/ SiteUpdated \/ SlotConfigNamesUpdated
  \/ SettingsSaved \/ SettingsNotSaved

SettingsSpec == SettingsInit /\ [][SettingsNext]_settingsVars
-----------------------------------------------------------------------------
\* What the page takes for stored is what ARM has, and with it the form that is
\* clean, after any saves, failures, discards and refreshes: the settings, and the
\* list that decides what the next save writes.  A write that was done for a save
\* that failed leaves the page in doubt; for the list that lasts until a later save
\* writes it again, and one that does not is reported as a success
\* (AppSettingsDataLoader.tsx:374-389).
PageIsCurrent ==
  page # "loading" /\ knowsNames =>
    /\ ~siteDoubt => initialValues.setting = siteSettings
    /\ ~namesDoubt =>
         /\ slotConfigNamesFromApi = stickyNames
         /\ productionPermissions =>
              initialValues.sticky = stickyNames \cap Present(initialValues.setting)

\* A save changes the stickiness only of names that the user has touched, whatever
\* names the other slots have (AppSettingsFormData.ts:194-208).  That is so for a
\* page that has read the list, and is not in doubt about it.
UntouchedKept ==
  [][knowsNames /\ ~namesDoubt =>
       \A n \in Names \ touched : n \in stickyNames' <=> n \in stickyNames]_settingsVars

\* What is needed besides to make these properties inductive: the form differs from
\* its initial values in what was touched, and a save writes the form.
TouchedShape ==
  \A n \in Names \ touched :
    /\ values.setting[n] = initialValues.setting[n]
    /\ n \in values.sticky <=> n \in initialValues.sticky

WriteShape ==
  /\ page # "saving" => siteUpdate = "none" /\ slotConfigNamesUpdate = "none"
  /\ page = "saving" =>
       /\ submitted = StickySettings(values, slotConfigNamesFromApi)
       /\ siteUpdate = "success" => siteSettings = values.setting
       /\ slotConfigNamesUpdate = "success" => stickyNames = submitted
       /\ IF slotConfigNamesUpdate = "none"
          THEN productionPermissions => submitted = slotConfigNamesFromApi
          ELSE productionPermissions

SettingsIInv == SettingsTypeOK /\ TouchedShape /\ WriteShape /\ PageIsCurrent
=============================================================================
