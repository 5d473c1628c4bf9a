------------------------------ MODULE AppsTree ------------------------------
(***************************************************************************)
(* The list of function apps in the tree of the Angular client:            *)
(* apps-node.ts, with what it needs of side-nav.component.ts, tree-node.ts *)
(* and app-node.ts.                                                        *)
(*                                                                         *)
(* The list is searched again when a search term has stood for 500 ms, when*)
(* subscriptions are chosen, and on a refresh; a new search gives the one  *)
(* under way up (switchMap).  A search asks ARM for the apps of a batch of *)
(* subscriptions after the other; an answer may be a page, with a link to  *)
(* the next one.  A term in quotes is an exact one: all apps are asked     *)
(* for, and the list is filtered at the end, when the app is also selected.*)
(* The tree selects by itself the app that the frame was opened on, too.   *)
(*                                                                         *)
(* A term is the set of the apps whose name it matches.  The apps do not   *)
(* change; nodes below the apps, and their own loads, are left out.        *)
(***************************************************************************)
EXTENDS Naturals, Sequences

CONSTANTS
  FunctionApps,
  SubOf,                \* the subscription of each app
  Terms,                \* what the user types: [exact, apps]
  ChosenSubs,           \* the subscriptions the user chooses, as sequences
  MaxBatch,             \* MaxSubscriptionBatchSize (40)
  AppsNode, NoApp,      \* a selection, and the absence of an app
  MaxActs               \* bound: what the user does

ASSUME MaxBatchAssumption == MaxBatch \in Nat \ {0}
ASSUME MaxActsAssumption == MaxActs \in Nat
ASSUME NodesAssumption == {AppsNode, NoApp} \cap FunctionApps = {}
\* (One of the subscriptions is shown by its name, so there is one: side-nav 408.)
ASSUME ChosenSubsAssumption == \A subs \in ChosenSubs : Len(subs) \in Nat \ {0}
ASSUME TermsAssumption ==
  \A term \in Terms : term \in [exact : BOOLEAN, apps : SUBSET FunctionApps]

VARIABLES
  permanentResourceId,  \* the app that the frame was opened on
  searchTerm,           \* the last term of the stream
  debouncing,           \* it has not stood for 500 ms yet
  appliedTerm,          \* _searchTerm of the node, a set of at most one
  subscriptions,
  search,               \* the search under way
  children,
  isLoading, supportsRefresh,
  initialResourceId,    \* of the node: the app it would select
  selectedNode,
  dirtyApp,             \* the selected app has changes that are not saved
  failed,               \* a request of the last search has failed
  clicks,               \* how often the user has changed the selection
  acts

appsVars == <<permanentResourceId, searchTerm, debouncing, appliedTerm, subscriptions, search,
              children, isLoading, supportsRefresh, initialResourceId, selectedNode, dirtyApp,
              failed, clicks, acts>>
nodeVars == <<search, children, isLoading, supportsRefresh, failed>>
viewVars == <<initialResourceId, selectedNode, dirtyApp>>

Everything == [exact |-> FALSE, apps |-> FunctionApps]
Exact(app) == [exact |-> TRUE, apps |-> {app}]
Term == [exact : BOOLEAN, apps : SUBSET FunctionApps]
Search == [running : BOOLEAN, term : Term, subs : {<<>>} \cup ChosenSubs, index : Nat,
           more : BOOLEAN, rest : SUBSET FunctionApps, found : SUBSET FunctionApps]
NewSearch(term, subs) ==
  [running |-> TRUE, term |-> term, subs |-> subs, index |-> 0,
   more |-> FALSE, rest |-> {}, found |-> {}]

AppsTypeOK ==
  /\ permanentResourceId \in FunctionApps \cup {NoApp}
  /\ searchTerm \in Term
  /\ appliedTerm \in {{}} \cup {{term} : term \in Term}
  /\ subscriptions \in {<<>>} \cup ChosenSubs
  /\ search \in Search
  /\ children \subseteq FunctionApps
  /\ debouncing \in BOOLEAN /\ dirtyApp \in BOOLEAN /\ failed \in BOOLEAN
  /\ isLoading \in BOOLEAN /\ supportsRefresh \in BOOLEAN
  /\ initialResourceId \in {permanentResourceId, NoApp}
  /\ selectedNode \in FunctionApps \cup {AppsNode}
  /\ clicks \in Nat /\ acts \in 0 .. MaxActs

\* The tree has been made, and the node of the apps has been selected.
AppsInit ==
  /\ permanentResourceId \in FunctionApps \cup {NoApp}
  /\ searchTerm = IF permanentResourceId = NoApp THEN Everything ELSE Exact(permanentResourceId)
  /\ debouncing = TRUE
  /\ appliedTerm = {}
  /\ subscriptions = <<>>
  /\ search = [NewSearch(Everything, <<>>) EXCEPT !.running = FALSE]
  /\ children = {}
  /\ isLoading = FALSE /\ supportsRefresh = TRUE
  /\ initialResourceId = permanentResourceId
  /\ selectedNode = AppsNode
  /\ dirtyApp = FALSE /\ failed = FALSE
  /\ clicks = 0 /\ acts = 0

CountAct == acts < MaxActs /\ acts' = acts + 1
-----------------------------------------------------------------------------
\* (The operators named ..._Bug are plausible mistakes, for checking that the
\* properties see them; nothing uses them.)
\* The listeners are not told of an empty list: the search adds to the old one.
StartSearch_KeepBug(term, subs) ==
  /\ search' = [NewSearch(term, subs) EXCEPT !.found = children]
  /\ isLoading' = TRUE
  /\ supportsRefresh' = FALSE
  /\ failed' = FALSE
  /\ UNCHANGED children

\* _searchInfo: a search starts, from an empty list.
StartSearch(term, subs) ==
  /\ search' = NewSearch(term, subs)
  /\ children' = {}
  /\ isLoading' = TRUE
  /\ supportsRefresh' = FALSE
  /\ failed' = FALSE

\* search, searchExact and clearSearch.
TypeTerm(term) ==
  /\ CountAct
  /\ searchTerm' = term
  /\ debouncing' = (debouncing \/ term # searchTerm)
  /\ UNCHANGED <<permanentResourceId, appliedTerm, subscriptions, nodeVars, viewVars, clicks>>

\* The startup information of the frame comes again, with a new token or the like.
StartupInfoAgain ==
  /\ permanentResourceId # NoApp
  /\ TypeTerm(Exact(permanentResourceId))

\* The term has stood for 500 ms.
TermStands ==
  /\ debouncing
  /\ debouncing' = FALSE
  /\ appliedTerm' = {searchTerm}
  /\ IF subscriptions = <<>> THEN UNCHANGED nodeVars ELSE StartSearch(searchTerm, subscriptions)
  /\ UNCHANGED <<permanentResourceId, searchTerm, subscriptions, viewVars, clicks, acts>>

\* onSubscriptionsSelect.
SelectSubscriptions(subs) ==
  /\ CountAct
  /\ subscriptions' = subs
  /\ \/ appliedTerm = {} /\ UNCHANGED nodeVars
     \/ \E term \in appliedTerm : StartSearch(term, subs)
  /\ UNCHANGED <<permanentResourceId, searchTerm, debouncing, appliedTerm, viewVars, clicks>>
-----------------------------------------------------------------------------
\* The node of the apps keeps the app to select after it has been left.
InitialAfter_KeepBug(node) == initialResourceId

\* handleDeselection of a node: that of the apps forgets the app to select.
InitialAfter(node) == IF node = AppsNode THEN NoApp ELSE initialResourceId

\* shouldBlockNavChange: with changes in the app the user is asked; the answer is
\* in leave.
Blocks(leave) == dirtyApp /\ ~leave

\* select, by the user, of a node of the tree.
ClickNode(node) ==
  /\ CountAct
  /\ node # selectedNode
  /\ \E leave \in BOOLEAN :
       /\ ~Blocks(leave)
       /\ selectedNode' = node
       /\ dirtyApp' = FALSE
       /\ initialResourceId' = InitialAfter(selectedNode)
       /\ supportsRefresh' = (node = AppsNode \/ (selectedNode # AppsNode /\ supportsRefresh))
  /\ clicks' = clicks + 1
  /\ UNCHANGED <<permanentResourceId, searchTerm, debouncing, appliedTerm, subscriptions, search,
                 children, isLoading, failed>>

\* setDirtyState, by a feature of the selected app.
EditApp ==
  /\ CountAct
  /\ selectedNode # AppsNode
  /\ dirtyApp' = TRUE
  /\ UNCHANGED <<permanentResourceId, searchTerm, debouncing, appliedTerm, subscriptions,
                 nodeVars, initialResourceId, selectedNode, clicks>>

\* refresh: the search starts again, then the selected node is shown again unless
\* the user minds.  Before any subscriptions are known the search fails as it starts,
\* and the node stays loading.
RefreshApps ==
  /\ CountAct
  /\ supportsRefresh
  /\ \E term \in IF appliedTerm = {} THEN {Everything} ELSE appliedTerm :
       search' = IF subscriptions = <<>> THEN search ELSE NewSearch(term, subscriptions)
  /\ children' = {}
  /\ isLoading' = TRUE
  /\ failed' = FALSE
  /\ \E leave \in BOOLEAN :
       /\ dirtyApp' = Blocks(leave)
       /\ initialResourceId' = InitialAfter(selectedNode)
  /\ supportsRefresh' = (selectedNode = AppsNode)
  /\ UNCHANGED <<permanentResourceId, searchTerm, debouncing, appliedTerm, subscriptions,
                 selectedNode, clicks>>
-----------------------------------------------------------------------------
\* The apps of the subscriptions in subs that a term matches.
Matched(term, subs) == {a \in term.apps : SubOf[a] \in subs}

All(subs) == {subs[i] : i \in 1 .. Len(subs)}
Batch(s) ==
  {s.subs[i] : i \in {j \in 1 .. Len(s.subs) : s.index < j /\ j <= s.index + MaxBatch}}

\* What ARM has still to send for a request.
Listing(s) ==
  IF s.more THEN s.rest
  ELSE Matched(IF s.term.exact THEN Everything ELSE s.term, Batch(s))

\* _getFakeSitesArrayResult: the app the frame was opened on, for want of an answer.
Fake(s) ==
  {permanentResourceId} \cap (Matched(s.term, All(s.subs)) \ s.found)

\* _doSearch, with the apps of an answer, or of none: the search goes on with the
\* next batch, or with the link.
Found(page, rest) ==
  [search EXCEPT !.found = @ \cup page, !.more = (rest # {}), !.rest = rest,
                 !.index = @ + MaxBatch]

Over(s) == ~s.more /\ s.index >= Len(s.subs)

\* The nodes of the answer: the app to select is selected.
Opened(page) == IF initialResourceId \in page THEN initialResourceId ELSE selectedNode

\* The search goes on: an exact one leaves the list as it is.
GoesOn(page, rest) ==
  /\ ~Over(Found(page, rest))
  /\ search' = Found(page, rest)
  /\ children' = IF search.term.exact THEN children ELSE search'.found
  /\ selectedNode' = Opened(page)
  /\ initialResourceId' = IF selectedNode' = selectedNode THEN initialResourceId
                          ELSE InitialAfter(selectedNode)
  /\ supportsRefresh' = (selectedNode' = selectedNode /\ supportsRefresh)
  /\ UNCHANGED <<isLoading, dirtyApp>>

\* The search is over: an exact one filters the list and selects the app.
Ends(page, rest) ==
  /\ Over(Found(page, rest))
  /\ search' = [Found(page, rest) EXCEPT !.running = FALSE]
  /\ isLoading' = FALSE
  /\ supportsRefresh' = ~search.term.exact
  /\ children' = IF search.term.exact THEN search'.found \cap search.term.apps
                 ELSE search'.found
  /\ \E leave \in BOOLEAN :
       selectedNode' =
         IF search.term.exact /\ children' # {} /\ ~Blocks(leave)
         THEN CHOOSE a \in children' : TRUE ELSE Opened(page)
  /\ dirtyApp' = (dirtyApp /\ selectedNode' = selectedNode)
  /\ initialResourceId' = IF selectedNode' = selectedNode THEN initialResourceId
                          ELSE InitialAfter(selectedNode)

\* A request of the search is answered, or fails.
SearchAnswered ==
  /\ search.running
  /\ \/ \E page \in SUBSET Listing(search) :
          /\ page = {} => Listing(search) = {}
          /\ LET rest == Listing(search) \ page IN GoesOn(page, rest) \/ Ends(page, rest)
          /\ UNCHANGED failed
     \/ /\ GoesOn(Fake(search), {}) \/ Ends(Fake(search), {})
        /\ failed' = TRUE
  /\ UNCHANGED <<permanentResourceId, searchTerm, debouncing, appliedTerm, subscriptions, clicks,
                 acts>>
-----------------------------------------------------------------------------
AppsNext ==
  \/ \E term \in Terms : TypeTerm(term)
  \/ StartupInfoAgain \/ TermStands
  \/ \E subs \in ChosenSubs : SelectSubscriptions(subs)
  \/ \E node \in children \cup {AppsNode} : ClickNode(node)
  \/ EditApp \/ RefreshApps \/ SearchAnswered

AppsSpec == AppsInit /\ [][AppsNext]_appsVars
-----------------------------------------------------------------------------
\* When no search is under way the list is that of the term and the subscriptions
\* that are shown, however inputs, refreshes and the pages of earlier searches have
\* overlapped (apps-node.ts:85-134, 289-327).  It is complete unless a request has
\* failed; with several batches pages make it incomplete, see EverythingFound.
ListAtRest == ~search.running /\ ~debouncing /\ subscriptions # <<>>
ShouldShow == Matched(searchTerm, All(subscriptions))

ListIsOfSearch ==
  ListAtRest =>
    /\ children \subseteq ShouldShow
    /\ ~failed /\ Len(subscriptions) <= MaxBatch => children = ShouldShow

\* The selection moves without a click in two ways only: a page brings the app of
\* the frame before the user has gone anywhere, and the end of an exact search
\* selects an app it names.  So a page that comes late, or is searched again, takes
\* nobody back, whatever kind of search it is of; but the exact term that the frame
\* starts with does so at its end, wherever the user is by then
\* (apps-node.ts:107-120, 172-194, 301-306).
OpenedOnce ==
  [][selectedNode' # selectedNode /\ clicks' = clicks =>
       \/ clicks = 0 /\ selectedNode = AppsNode
       \/ /\ search.term.exact /\ search.running /\ ~search'.running
          /\ selectedNode' \in search.term.apps]_appsVars

\* A search without a failure finds all apps ("we'll query everything and then
\* filter to that item", apps-node.ts:268-269).
EverythingFound == ListAtRest /\ ~failed => children = ShouldShow

\* The node shows that it loads while a search is under way, and later only when it was
\* refreshed too early; the app to select is known only to a node that has not been
\* left; only an app has changes; and an exact search shows nothing until it is over
\* (apps-node.ts:120-126, 184-193, 309-313).
AppsShape ==
  /\ AppsTypeOK
  /\ search.running => isLoading
  /\ isLoading => search.running \/ subscriptions = <<>> \/ appliedTerm = {}
  /\ initialResourceId # NoApp => selectedNode = AppsNode /\ clicks = 0
  /\ dirtyApp => selectedNode # AppsNode
  /\ search.running /\ search.term.exact => children = {}

\* What is needed besides to make ListIsOfSearch inductive: the search under way is the
\* one of the inputs, unless no term has stood yet; what it has found and what is left
\* of a page are of its own query; and in a single batch the two together are all of it.
Queried(s) == Matched(IF s.term.exact THEN Everything ELSE s.term, All(s.subs))

SearchShape ==
  /\ ~debouncing => appliedTerm = {searchTerm}
  /\ search.running =>
       /\ search.subs # <<>> /\ subscriptions # <<>>
       /\ appliedTerm = {} \/ (appliedTerm = {search.term} /\ search.subs = subscriptions)
  /\ search.found \cup search.rest \subseteq Queried(search)
  /\ search.more <=> search.rest # {}
  /\ search.running /\ ~failed /\ Len(search.subs) <= MaxBatch =>
       \/ search.index = 0 /\ search.found = {} /\ ~search.more
       \/ search.more /\ search.found \cup search.rest = Queried(search)

AppsIInv == AppsShape /\ SearchShape /\ ListIsOfSearch
=============================================================================
