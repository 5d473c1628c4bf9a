------------------------------ MODULE MCBlades ------------------------------
(***************************************************************************)
(* The blades of the Angular client and a page of the React client, for    *)
(* TLC.  The portal shows each blade in an iframe of its own: the modules  *)
(* below share no state, and their behaviours are independent of each      *)
(* other.  So a behaviour here chooses one of them in its first state, and *)
(* goes on with the steps of this one; the others stay in an initial state.*)
(***************************************************************************)
EXTENDS FeatureComponent, ConfigSave, Session, Console, SettingsForm, AppsTree

CONSTANTS
  AppSettings, ConnectionStrings, SlotConfigNames  \* the kinds of ARM objects

VARIABLE blade          \* the module whose steps are taken

\* Two tables of the configuration page: they share the slot configuration names.
TwoTables ==
  << {AppSettings, SlotConfigNames}, {ConnectionStrings, SlotConfigNames} >>

\* A directory in which the name of a file begins with that of another, and keys
\* of which one has a name of two characters.
TwoFiles == {<<KeyC>>, <<KeyC, KeyC>>}
TypedKeys == {<<Space>>, <<KeyC>>, <<KeyC, KeyC>>}

\* The first two apps share a subscription, and the first and the last have names
\* that contain a word which the second has not.
CONSTANTS App1, App2, App3
Subscriptions == [a \in {App1, App2, App3} |-> IF a = App3 THEN 2 ELSE 1]
TypedTerms == {Everything, Exact(App1), Exact(App3), [exact |-> FALSE, apps |-> {App1, App3}]}
ChosenSubscriptions == {<<1>>, <<1, 2>>}

bladesVars == <<allVars, configVars, sessionVars, consoleVars, settingsVars, appsVars, blade>>

BladesInit ==
  /\ blade \in {"feature", "config", "session", "console", "settings", "apps"}
  /\ FeatureInit /\ ConfigInit /\ SessionInit /\ ConsoleInit /\ SettingsInit /\ AppsInit
  /\ blade # "session" => host = "portal"
  /\ blade # "settings" => siteSettings = EmptyForm.setting /\ stickyNames = {} /\ ~isSlot
  /\ blade # "apps" => permanentResourceId = NoApp

BladesNext ==
  /\ \/ /\ blade = "feature" /\ FeatureNext
        /\ UNCHANGED <<configVars, sessionVars, consoleVars, settingsVars, appsVars>>
     \/ /\ blade = "config" /\ ConfigNext
        /\ UNCHANGED <<allVars, sessionVars, consoleVars, settingsVars, appsVars>>
     \/ /\ blade = "session" /\ SessionNext
        /\ UNCHANGED <<allVars, configVars, consoleVars, settingsVars, appsVars>>
     \/ /\ blade = "console" /\ ConsoleNext
        /\ UNCHANGED <<allVars, configVars, sessionVars, settingsVars, appsVars>>
     \/ /\ blade = "settings" /\ SettingsNext
        /\ UNCHANGED <<allVars, configVars, sessionVars, consoleVars, appsVars>>
     \/ /\ blade = "apps" /\ AppsNext
        /\ UNCHANGED <<allVars, configVars, sessionVars, consoleVars, settingsVars>>
  /\ UNCHANGED blade

BladesSpec ==
  /\ BladesInit
  /\ [][BladesNext]_bladesVars
  /\ FeatureFairness
  /\ blade = "session" => SessionFairness

\* The types, and what is needed besides to make the invariants inductive: nothing
\* relates the parts of a module in another way, whatever steps have been taken.
BladesInv ==
  /\ IInv /\ FeatureIInv /\ ConfigIInv
  /\ SessionIInv /\ ConsoleIInv /\ SettingsIInv /\ AppsIInv

\* The last token of a session reaches the services and stays there
\* (background-tasks.service.ts:33-35, user.service.ts:87-138): see TokenArrives.
SessionTokenArrives == blade = "session" => TokenArrives
=============================================================================
