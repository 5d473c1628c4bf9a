--------------------------- MODULE AppsTreeProofs ---------------------------
(***************************************************************************)
(* Theorems about AppsTree, for any number of apps, terms, subscriptions,  *)
(* inputs and any size of a batch.                                         *)
(***************************************************************************)
EXTENDS AppsTree, TLAPS

-----------------------------------------------------------------------------
(* Searches.                                                               *)

\* The fields of a search.
LEMMA SearchType ==
  ASSUME NEW s \in Search
  PROVE  /\ s.running \in BOOLEAN /\ s.term \in Term /\ s.subs \in {<<>>} \cup ChosenSubs
         /\ s.term.exact \in BOOLEAN /\ s.term.apps \subseteq FunctionApps
         /\ s.index \in Nat /\ s.more \in BOOLEAN
         /\ s.rest \subseteq FunctionApps /\ s.found \subseteq FunctionApps
BY DEF Search, Term

\* The terms there are.
LEMMA TermsType ==
  /\ Everything \in Term
  /\ Terms \subseteq Term
  /\ \A a \in FunctionApps : Exact(a) \in Term
BY TermsAssumption DEF Everything, Exact, Term

\* The subscriptions that the user chooses are not none.
LEMMA ChosenNotNone ==
  ASSUME NEW subs \in ChosenSubs
  PROVE  subs # <<>>
<1>1. Len(subs) \in Nat \ {0}
  BY ChosenSubsAssumption
<1>2. Len(<<>>) = 0
  OBVIOUS
<1> QED BY <1>1, <1>2

\* A new search, and the shape it has.
LEMMA NewSearchShape ==
  ASSUME NEW term \in Term, NEW subs \in {<<>>} \cup ChosenSubs
  PROVE  LET s == NewSearch(term, subs)
         IN  /\ s \in Search /\ s.running /\ s.term = term /\ s.subs = subs
             /\ s.index = 0 /\ s.found = {} /\ s.rest = {} /\ ~s.more
BY DEF NewSearch, Search

\* What a search asks for is among the apps, and what its term matches is asked for.
LEMMA QueriedType ==
  ASSUME NEW s \in Search
  PROVE  /\ Queried(s) \subseteq FunctionApps
         /\ Matched(s.term, All(s.subs)) \subseteq Queried(s)
         /\ ~s.term.exact => Queried(s) = Matched(s.term, All(s.subs))
         /\ Queried(s) \cap s.term.apps \subseteq Matched(s.term, All(s.subs))
         /\ s.term.exact =>
              Queried(s) \cap s.term.apps = Matched(s.term, All(s.subs))
<1>1. s.term.exact \in BOOLEAN /\ s.term.apps \subseteq FunctionApps
  BY SearchType
<1>2. Everything.apps = FunctionApps
  BY DEF Everything
<1> QED BY <1>1, <1>2 DEF Queried, Matched

\* What is asked for next is a part of it; the first request of a search in a single
\* batch asks for all of it.
LEMMA ListingType ==
  ASSUME NEW s \in Search, s.rest \subseteq Queried(s)
  PROVE  /\ Listing(s) \subseteq Queried(s)
         /\ s.more => Listing(s) = s.rest
         /\ ~s.more /\ s.index = 0 /\ s.subs # <<>> /\ Len(s.subs) <= MaxBatch =>
              Listing(s) = Queried(s)
<1>1. Batch(s) \subseteq All(s.subs)
  BY DEF Batch, All
<1>2. ASSUME ~s.more, s.index = 0, s.subs # <<>>, Len(s.subs) <= MaxBatch
      PROVE  Batch(s) = All(s.subs)
  <2>1. Len(s.subs) \in Nat
    BY <1>2, SearchType, ChosenSubsAssumption
  <2>2. {j \in 1 .. Len(s.subs) : s.index < j /\ j <= s.index + MaxBatch} = 1 .. Len(s.subs)
    BY <1>2, <2>1, MaxBatchAssumption
  <2> QED BY <2>2 DEF Batch, All
<1> QED BY <1>1, <1>2 DEF Listing, Queried, Matched

\* A search with the apps of an answer.
LEMMA FoundType ==
  ASSUME search \in Search, NEW page \in SUBSET FunctionApps, NEW rest \in SUBSET FunctionApps
  PROVE  /\ Found(page, rest) \in Search
         /\ Found(page, rest).running = search.running
         /\ Found(page, rest).term = search.term
         /\ Found(page, rest).subs = search.subs
         /\ Found(page, rest).found = search.found \cup page
         /\ Found(page, rest).rest = rest
         /\ Found(page, rest).more = (rest # {})
         /\ Found(page, rest).index = search.index + MaxBatch
<1>1. search.index + MaxBatch \in Nat
  BY SearchType, MaxBatchAssumption
<1> QED BY <1>1 DEF Found, Search

\* The search that has ended.
LEMMA EndedType ==
  ASSUME search \in Search, NEW page \in SUBSET FunctionApps, NEW rest \in SUBSET FunctionApps,
         search' = [Found(page, rest) EXCEPT !.running = FALSE]
  PROVE  /\ search' \in Search /\ ~search'.running /\ search'.term = search.term
         /\ search'.subs = search.subs /\ search'.found = search.found \cup page
         /\ search'.rest = rest /\ search'.more = (rest # {})
<1> DEFINE f == Found(page, rest)
<1>1. /\ f \in Search /\ f.term = search.term
      /\ f.subs = search.subs /\ f.found = search.found \cup page
      /\ f.rest = rest /\ f.more = (rest # {})
  BY FoundType
<1>2. search' = [f EXCEPT !.running = FALSE]
  OBVIOUS
<1> HIDE DEF f
<1>3. /\ search' \in Search /\ ~search'.running /\ search'.term = f.term /\ search'.subs = f.subs
      /\ search'.found = f.found /\ search'.rest = f.rest /\ search'.more = f.more
  BY <1>1, <1>2 DEF Search
<1> QED BY <1>1, <1>3

\* A fake answer holds an app that the search asks for, or none.
LEMMA FakeType ==
  ASSUME search \in Search
  PROVE  Fake(search) \subseteq Queried(search) /\ Fake(search) \subseteq FunctionApps
BY QueriedType DEF Fake

-----------------------------------------------------------------------------
(* The inductive invariant.                                                *)

\* The invariant holds of a tree that has just been made.
LEMMA AppsInitInv == AppsInit => AppsIInv
<1> SUFFICES ASSUME AppsInit PROVE AppsIInv
  OBVIOUS
<1> DEFINE first == NewSearch(Everything, <<>>)
<1>1. /\ first \in Search /\ first.found = {} /\ first.rest = {} /\ ~first.more
  BY NewSearchShape, TermsType
<1> HIDE DEF first
<1>2. /\ search \in Search /\ ~search.running /\ search.found = {} /\ search.rest = {}
      /\ ~search.more
  BY <1>1 DEF AppsInit, first, Search
<1>3. searchTerm \in Term
  BY TermsType DEF AppsInit
<1>4. AppsTypeOK
  <2>1. acts \in 0 .. MaxActs /\ clicks \in Nat
    BY MaxActsAssumption DEF AppsInit
  <2> QED BY <1>2, <1>3, <2>1 DEF AppsInit, AppsTypeOK
<1>5. AppsShape
  BY <1>2, <1>4 DEF AppsInit, AppsShape
<1>6. SearchShape /\ ListIsOfSearch
  BY <1>2 DEF AppsInit, SearchShape, ListIsOfSearch, ListAtRest
<1> QED BY <1>5, <1>6 DEF AppsIInv

\* A term that is typed leaves the list alone; it is the one of the list, or it has to
\* stand first.
LEMMA TypeTermStep ==
  ASSUME AppsIInv, NEW term \in Term, TypeTerm(term)
  PROVE  AppsIInv'
<1>1. AppsShape /\ AppsTypeOK /\ SearchShape /\ ListIsOfSearch
  BY DEF AppsIInv, AppsShape
<1>2. /\ acts' = acts + 1 /\ acts < MaxActs /\ searchTerm' = term
      /\ debouncing' = (debouncing \/ term # searchTerm)
      /\ UNCHANGED <<permanentResourceId, appliedTerm, subscriptions, search, children, isLoading,
                     supportsRefresh, failed, initialResourceId, selectedNode, dirtyApp, clicks>>
  BY DEF TypeTerm, CountAct, nodeVars, viewVars
<1>3. AppsTypeOK'
  BY <1>1, <1>2, MaxActsAssumption DEF AppsTypeOK
<1>4. AppsShape'
  BY <1>1, <1>2, <1>3 DEF AppsShape
<1>5. SearchShape'
  <2>1. Queried(search') = Queried(search)
    BY <1>2
  <2>2. ~debouncing' => appliedTerm' = {searchTerm'}
    BY <1>1, <1>2 DEF SearchShape
  <2> QED BY <1>1, <1>2, <2>1, <2>2 DEF SearchShape
<1>6. ListIsOfSearch'
  <2> SUFFICES ASSUME ListAtRest'
               PROVE  ListIsOfSearch'
    BY DEF ListIsOfSearch
  <2>1. ListAtRest /\ searchTerm' = searchTerm
    BY <1>1, <1>2 DEF ListAtRest, AppsTypeOK
  <2>2. ShouldShow' = ShouldShow
    BY <1>2, <2>1 DEF ShouldShow
  <2> QED BY <1>1, <1>2, <2>1, <2>2 DEF ListIsOfSearch
<1> QED BY <1>4, <1>5, <1>6 DEF AppsIInv

\* What a search that starts leaves behind.
LEMMA Started ==
  ASSUME NEW term \in Term, NEW subs \in ChosenSubs, StartSearch(term, subs)
  PROVE  /\ search' \in Search /\ search'.running /\ search'.term = term /\ search'.subs = subs
         /\ subs # <<>>
         /\ search'.index = 0 /\ search'.found = {} /\ search'.rest = {} /\ ~search'.more
         /\ children' = {} /\ isLoading' = TRUE /\ supportsRefresh' = FALSE /\ failed' = FALSE
BY NewSearchShape, ChosenNotNone DEF StartSearch

\* A term that has stood starts a search, once there are subscriptions.
LEMMA TermStandsStep ==
  ASSUME AppsIInv, TermStands
  PROVE  AppsIInv'
<1>1. AppsShape /\ AppsTypeOK /\ SearchShape
  BY DEF AppsIInv, AppsShape
<1>2. /\ debouncing' = FALSE /\ appliedTerm' = {searchTerm}
      /\ UNCHANGED <<permanentResourceId, searchTerm, subscriptions, initialResourceId, selectedNode,
                     dirtyApp, clicks, acts>>
  BY DEF TermStands, viewVars
<1>3. CASE subscriptions = <<>>
  <2>1. UNCHANGED <<search, children, isLoading, supportsRefresh, failed>>
    BY <1>3 DEF TermStands, nodeVars
  <2>2. ~search.running
    BY <1>1, <1>3 DEF SearchShape
  <2>3. AppsTypeOK'
    BY <1>1, <1>2, <2>1 DEF AppsTypeOK
  <2>4. AppsShape'
    BY <1>1, <1>2, <1>3, <2>1, <2>3 DEF AppsShape
  <2>5. Queried(search') = Queried(search)
    BY <2>1
  <2>6. SearchShape'
    BY <1>1, <1>2, <2>1, <2>2, <2>5 DEF SearchShape
  <2>7. ListIsOfSearch'
    BY <1>2, <1>3 DEF ListIsOfSearch, ListAtRest
  <2> QED BY <2>4, <2>6, <2>7 DEF AppsIInv
<1>4. CASE subscriptions # <<>>
  <2>1. /\ StartSearch(searchTerm, subscriptions)
        /\ searchTerm \in Term /\ subscriptions \in ChosenSubs
    BY <1>1, <1>4 DEF TermStands, AppsTypeOK
  <2>2. AppsTypeOK'
    BY <1>1, <1>2, <2>1, Started DEF AppsTypeOK
  <2>3. AppsShape'
    BY <1>1, <1>2, <2>1, <2>2, Started DEF AppsShape
  <2>4. SearchShape'
    BY <1>2, <1>4, <2>1, Started DEF SearchShape
  <2>5. ListIsOfSearch'
    BY <2>1, Started DEF ListIsOfSearch, ListAtRest
  <2> QED BY <2>3, <2>4, <2>5 DEF AppsIInv
<1> QED BY <1>3, <1>4

\* Subscriptions that are chosen start a search, once a term has stood.
LEMMA SelectSubscriptionsStep ==
  ASSUME AppsIInv, NEW subs \in ChosenSubs, SelectSubscriptions(subs)
  PROVE  AppsIInv'
<1>1. AppsShape /\ AppsTypeOK /\ SearchShape
  BY DEF AppsIInv, AppsShape
<1>2. /\ acts' = acts + 1 /\ acts < MaxActs /\ subscriptions' = subs
      /\ UNCHANGED <<permanentResourceId, searchTerm, debouncing, appliedTerm, initialResourceId,
                     selectedNode, dirtyApp, clicks>>
  BY DEF SelectSubscriptions, CountAct, viewVars
<1>3. acts' \in 0 .. MaxActs /\ subs # <<>>
  BY <1>1, <1>2, MaxActsAssumption, ChosenNotNone DEF AppsTypeOK
<1>4. CASE appliedTerm = {} /\ UNCHANGED nodeVars
  <2>1. UNCHANGED <<search, children, isLoading, supportsRefresh, failed>>
    BY <1>4 DEF nodeVars
  <2>2. debouncing
    BY <1>1, <1>4 DEF SearchShape
  <2>3. AppsTypeOK'
    BY <1>1, <1>2, <1>3, <2>1 DEF AppsTypeOK
  <2>4. AppsShape'
    BY <1>1, <1>2, <1>4, <2>1, <2>3 DEF AppsShape
  <2>5. Queried(search') = Queried(search)
    BY <2>1
  <2>6. SearchShape'
    BY <1>1, <1>2, <1>3, <1>4, <2>1, <2>2, <2>5 DEF SearchShape
  <2>7. ListIsOfSearch'
    BY <1>2, <2>2 DEF ListIsOfSearch, ListAtRest
  <2> QED BY <2>4, <2>6, <2>7 DEF AppsIInv
<1>5. CASE \E term \in appliedTerm : StartSearch(term, subs)
  <2>1. PICK term \in appliedTerm : StartSearch(term, subs)
    BY <1>5
  <2>2. term \in Term
    BY <1>1 DEF AppsTypeOK
  <2>3. AppsTypeOK'
    BY <1>1, <1>2, <1>3, <2>1, <2>2, Started DEF AppsTypeOK
  <2>4. AppsShape'
    BY <1>1, <1>2, <2>1, <2>2, <2>3, Started DEF AppsShape
  <2>5. appliedTerm = {term}
    BY <1>1 DEF AppsTypeOK
  <2>6. SearchShape'
    BY <1>1, <1>2, <1>3, <2>1, <2>2, <2>5, Started DEF SearchShape
  <2>7. ListIsOfSearch'
    BY <2>1, <2>2, Started DEF ListIsOfSearch, ListAtRest
  <2> QED BY <2>4, <2>6, <2>7 DEF AppsIInv
<1> QED BY <1>4, <1>5 DEF SelectSubscriptions

\* A node of the tree that the user goes to: the list stays, and the app to select is
\* forgotten with the node of the apps.
LEMMA ClickNodeStep ==
  ASSUME AppsIInv, NEW node \in children \cup {AppsNode}, ClickNode(node)
  PROVE  AppsIInv'
<1>1. AppsShape /\ AppsTypeOK /\ SearchShape /\ ListIsOfSearch
  BY DEF AppsIInv, AppsShape
<1>2. /\ acts' = acts + 1 /\ acts < MaxActs /\ clicks' = clicks + 1
      /\ selectedNode' = node /\ dirtyApp' = FALSE /\ initialResourceId' = InitialAfter(selectedNode)
      /\ supportsRefresh' = (node = AppsNode \/ (selectedNode # AppsNode /\ supportsRefresh))
      /\ UNCHANGED <<permanentResourceId, searchTerm, debouncing, appliedTerm, subscriptions, search,
                     children, isLoading, failed>>
  BY DEF ClickNode, CountAct
<1>3. initialResourceId' = NoApp
  BY <1>1, <1>2 DEF AppsShape, InitialAfter
<1>4. AppsTypeOK'
  <2>1. acts' \in 0 .. MaxActs /\ clicks' \in Nat
    BY <1>1, <1>2, MaxActsAssumption DEF AppsTypeOK
  <2> QED BY <1>1, <1>2, <1>3, <2>1 DEF AppsTypeOK
<1>5. AppsShape'
  BY <1>1, <1>2, <1>3, <1>4 DEF AppsShape
<1>6. SearchShape' /\ ListIsOfSearch'
  <2>1. Queried(search') = Queried(search) /\ ShouldShow' = ShouldShow
    BY <1>2 DEF ShouldShow
  <2> QED BY <1>1, <1>2, <2>1 DEF SearchShape, ListIsOfSearch, ListAtRest
<1> QED BY <1>5, <1>6 DEF AppsIInv

\* Changes in the app that is selected.
LEMMA EditAppStep ==
  ASSUME AppsIInv, EditApp
  PROVE  AppsIInv'
<1>1. AppsShape /\ AppsTypeOK /\ SearchShape /\ ListIsOfSearch
  BY DEF AppsIInv, AppsShape
<1>2. /\ acts' = acts + 1 /\ acts < MaxActs /\ dirtyApp' = TRUE /\ selectedNode # AppsNode
      /\ UNCHANGED <<permanentResourceId, searchTerm, debouncing, appliedTerm, subscriptions,
                     search, children, isLoading, supportsRefresh, failed, initialResourceId,
                     selectedNode, clicks>>
  BY DEF EditApp, CountAct, nodeVars
<1>3. AppsTypeOK'
  <2>1. acts' \in 0 .. MaxActs
    BY <1>1, <1>2, MaxActsAssumption DEF AppsTypeOK
  <2> QED BY <1>1, <1>2, <2>1 DEF AppsTypeOK
<1>4. AppsShape'
  BY <1>1, <1>2, <1>3 DEF AppsShape
<1>5. SearchShape' /\ ListIsOfSearch'
  <2>1. Queried(search') = Queried(search) /\ ShouldShow' = ShouldShow
    BY <1>2 DEF ShouldShow
  <2> QED BY <1>1, <1>2, <2>1 DEF SearchShape, ListIsOfSearch, ListAtRest
<1> QED BY <1>4, <1>5 DEF AppsIInv

\* A refresh searches again, when there are subscriptions to search.
LEMMA RefreshAppsStep ==
  ASSUME AppsIInv, RefreshApps
  PROVE  AppsIInv'
<1>1. AppsShape /\ AppsTypeOK /\ SearchShape
  BY DEF AppsIInv, AppsShape
<1>2. PICK term \in IF appliedTerm = {} THEN {Everything} ELSE appliedTerm :
        search' = IF subscriptions = <<>> THEN search ELSE NewSearch(term, subscriptions)
  BY DEF RefreshApps
<1>3. /\ acts' = acts + 1 /\ acts < MaxActs
      /\ children' = {} /\ isLoading' = TRUE /\ failed' = FALSE
      /\ supportsRefresh' = (selectedNode = AppsNode)
      /\ initialResourceId' = InitialAfter(selectedNode)
      /\ UNCHANGED <<permanentResourceId, searchTerm, debouncing, appliedTerm, subscriptions,
                     selectedNode, clicks>>
  BY DEF RefreshApps, CountAct
<1>4. PICK leave \in BOOLEAN : dirtyApp' = Blocks(leave)
  BY DEF RefreshApps
<1>5. dirtyApp' \in BOOLEAN /\ (dirtyApp' => dirtyApp)
  BY <1>1, <1>4 DEF Blocks, AppsTypeOK
<1>6. initialResourceId' = NoApp
  BY <1>1, <1>3 DEF AppsShape, InitialAfter
<1>7. term \in Term /\ (appliedTerm = {} \/ appliedTerm = {term})
  BY <1>1, <1>2, TermsType DEF AppsTypeOK
<1>8. acts' \in 0 .. MaxActs
  BY <1>1, <1>3, MaxActsAssumption DEF AppsTypeOK
<1>9. CASE subscriptions = <<>>
  <2>1. search' = search /\ ~search.running
    BY <1>1, <1>2, <1>9 DEF SearchShape
  <2>2. AppsTypeOK'
    BY <1>1, <1>3, <1>5, <1>6, <1>8, <2>1 DEF AppsTypeOK
  <2>3. AppsShape'
    BY <1>1, <1>3, <1>5, <1>6, <1>9, <2>1, <2>2 DEF AppsShape
  <2>4. Queried(search') = Queried(search)
    BY <2>1
  <2>5. SearchShape'
    BY <1>1, <1>3, <2>1, <2>4 DEF SearchShape
  <2>6. ListIsOfSearch'
    BY <1>3, <1>9 DEF ListIsOfSearch, ListAtRest
  <2> QED BY <2>3, <2>5, <2>6 DEF AppsIInv
<1>10. CASE subscriptions # <<>>
  <2>1. search' = NewSearch(term, subscriptions) /\ subscriptions \in {<<>>} \cup ChosenSubs
    BY <1>1, <1>2, <1>10 DEF AppsTypeOK
  <2>2. /\ search' \in Search /\ search'.running /\ search'.term = term
        /\ search'.subs = subscriptions /\ search'.index = 0 /\ search'.found = {}
        /\ search'.rest = {} /\ ~search'.more
    BY <1>7, <2>1, NewSearchShape
  <2>3. AppsTypeOK'
    BY <1>1, <1>3, <1>5, <1>6, <1>8, <2>2 DEF AppsTypeOK
  <2>4. AppsShape'
    BY <1>1, <1>3, <1>5, <1>6, <2>2, <2>3 DEF AppsShape
  <2>5. SearchShape'
    BY <1>1, <1>3, <1>7, <1>10, <2>2 DEF SearchShape
  <2>6. ListIsOfSearch'
    BY <2>2 DEF ListIsOfSearch, ListAtRest
  <2> QED BY <2>4, <2>5, <2>6 DEF AppsIInv
<1> QED BY <1>9, <1>10

\* What an answer is, or what stands for it when the request fails.
Answer(page, rest) ==
  /\ page \in SUBSET FunctionApps /\ rest \in SUBSET FunctionApps
  /\ \/ /\ page \subseteq Listing(search) /\ rest = Listing(search) \ page
        /\ failed' = failed
     \/ page = Fake(search) /\ rest = {} /\ failed' = TRUE

\* An answer holds apps that were asked for; with what has been found before, and what
\* is left of the page, it is all there is, if the search fits into a batch.
LEMMA AnswerFits ==
  ASSUME AppsIInv, search.running, NEW page, NEW rest, Answer(page, rest)
  PROVE  /\ page \cup rest \subseteq Queried(search)
         /\ ~failed' /\ Len(search.subs) <= MaxBatch =>
              search.found \cup page \cup rest = Queried(search)
<1>1. search \in Search /\ SearchShape
  BY DEF AppsIInv, AppsShape, AppsTypeOK
<1>2. /\ search.rest \subseteq Queried(search) /\ search.found \subseteq Queried(search)
      /\ search.subs # <<>>
  BY <1>1 DEF SearchShape
<1>3. /\ Listing(search) \subseteq Queried(search)
      /\ search.more => Listing(search) = search.rest
      /\ ~search.more /\ search.index = 0 /\ search.subs # <<>> /\ Len(search.subs) <= MaxBatch =>
           Listing(search) = Queried(search)
  BY <1>1, <1>2, ListingType
<1>4. page \cup rest \subseteq Queried(search)
  BY <1>1, <1>3, FakeType DEF Answer
<1>5. ASSUME ~failed', Len(search.subs) <= MaxBatch
      PROVE  search.found \cup page \cup rest = Queried(search)
  <2>1. page \cup rest = Listing(search) /\ ~failed
    BY <1>5 DEF Answer
  <2>2. \/ search.index = 0 /\ search.found = {} /\ ~search.more
        \/ search.more /\ search.found \cup search.rest = Queried(search)
    BY <1>1, <1>5, <2>1 DEF SearchShape
  <2>3. CASE search.index = 0 /\ search.found = {} /\ ~search.more
    BY <1>2, <1>3, <1>5, <2>1, <2>3
  <2>4. CASE search.more /\ search.found \cup search.rest = Queried(search)
    BY <1>3, <2>1, <2>4
  <2> QED BY <2>2, <2>3, <2>4
<1> QED BY <1>4, <1>5

\* What the answers leave alone.
AnswerFrame ==
  UNCHANGED <<permanentResourceId, searchTerm, debouncing, appliedTerm, subscriptions, clicks, acts>>

\* A search that goes on keeps what it has found.
LEMMA GoesOnStep ==
  ASSUME AppsIInv, search.running, NEW page, NEW rest, Answer(page, rest), GoesOn(page, rest),
         AnswerFrame
  PROVE  AppsIInv'
<1>1. AppsShape /\ AppsTypeOK /\ SearchShape
  BY DEF AppsIInv, AppsShape
<1>2. /\ page \in SUBSET FunctionApps /\ rest \in SUBSET FunctionApps
      /\ failed' \in BOOLEAN /\ search \in Search
  BY <1>1 DEF Answer, AppsTypeOK
<1>3. /\ search' \in Search /\ search'.running /\ search'.term = search.term
      /\ search'.subs = search.subs /\ search'.found = search.found \cup page
      /\ search'.rest = rest /\ search'.more = (rest # {})
      /\ search'.index = search.index + MaxBatch
  <2>1. search' = Found(page, rest)
    BY DEF GoesOn
  <2>2. /\ Found(page, rest) \in Search
        /\ Found(page, rest).running = search.running
        /\ Found(page, rest).term = search.term
        /\ Found(page, rest).subs = search.subs
        /\ Found(page, rest).found = search.found \cup page
        /\ Found(page, rest).rest = rest
        /\ Found(page, rest).more = (rest # {})
        /\ Found(page, rest).index = search.index + MaxBatch
    BY <1>2, FoundType
  <2> QED BY <2>1, <2>2
<1>4. /\ children' = IF search.term.exact THEN children ELSE search'.found
      /\ selectedNode' = Opened(page)
      /\ initialResourceId' = IF selectedNode' = selectedNode THEN initialResourceId
                              ELSE InitialAfter(selectedNode)
      /\ supportsRefresh' = (selectedNode' = selectedNode /\ supportsRefresh)
      /\ UNCHANGED <<isLoading, dirtyApp>>
      /\ UNCHANGED <<permanentResourceId, searchTerm, debouncing, appliedTerm, subscriptions,
                     clicks, acts>>
  BY DEF GoesOn, AnswerFrame
<1>5. /\ search'.found \subseteq FunctionApps /\ search.index \in Nat
      /\ search'.index \in Nat /\ search.term.exact \in BOOLEAN
  BY <1>2, <1>3, SearchType
<1>6. /\ selectedNode' \in FunctionApps \cup {AppsNode}
      /\ initialResourceId' \in {initialResourceId, NoApp}
      /\ initialResourceId' # NoApp => selectedNode' = selectedNode /\ initialResourceId # NoApp
      /\ selectedNode' # selectedNode => selectedNode' \in FunctionApps
  BY <1>1, <1>2, <1>4, NodesAssumption DEF Opened, InitialAfter, AppsShape, AppsTypeOK
<1>7. AppsTypeOK'
  BY <1>1, <1>2, <1>3, <1>4, <1>5, <1>6 DEF AppsTypeOK
<1>8. AppsShape'
  <2>1. dirtyApp' => selectedNode' # AppsNode
    BY <1>1, <1>4, <1>6, NodesAssumption DEF AppsShape
  <2>2. search'.running /\ search'.term.exact => children' = {}
    BY <1>1, <1>3, <1>4 DEF AppsShape
  <2>3. isLoading' /\ (initialResourceId' # NoApp => selectedNode' = AppsNode /\ clicks' = 0)
    BY <1>1, <1>4, <1>6 DEF AppsShape
  <2> QED BY <1>3, <1>7, <2>1, <2>2, <2>3 DEF AppsShape
<1>9. SearchShape'
  <2>1. Queried(search') = Queried(search)
    BY <1>3 DEF Queried
  <2>2. search'.found \cup search'.rest \subseteq Queried(search')
    BY <1>1, <1>3, <2>1, AnswerFits DEF SearchShape
  <2>3. ASSUME ~failed', Len(search'.subs) <= MaxBatch
        PROVE  search'.more /\ search'.found \cup search'.rest = Queried(search')
    <3>1. search'.found \cup search'.rest = Queried(search')
      BY <1>3, <2>1, <2>3, AnswerFits
    <3>2. search'.more \/ ~(search'.index >= Len(search'.subs))
      BY DEF GoesOn, Over
    <3>3. Len(search.subs) \in Nat
      BY <1>1, <1>2, SearchType, ChosenSubsAssumption DEF SearchShape
    <3>4. search'.index >= Len(search'.subs)
      BY <1>3, <1>5, <2>3, <3>3, MaxBatchAssumption
    <3> QED BY <3>1, <3>2, <3>4
  <2>4. /\ search'.subs # <<>> /\ subscriptions' # <<>>
        /\ \/ appliedTerm' = {}
           \/ appliedTerm' = {search'.term} /\ search'.subs = subscriptions'
    BY <1>1, <1>3, <1>4 DEF SearchShape
  <2>5. ~debouncing' => appliedTerm' = {searchTerm'}
    BY <1>1, <1>4 DEF SearchShape
  <2> QED BY <1>3, <2>2, <2>3, <2>4, <2>5 DEF SearchShape
<1>10. ListIsOfSearch'
  BY <1>3 DEF ListIsOfSearch, ListAtRest
<1> QED BY <1>8, <1>9, <1>10 DEF AppsIInv

\* A search that is over shows what it has found, or the exact part of it.
LEMMA EndsStep ==
  ASSUME AppsIInv, search.running, NEW page, NEW rest, Answer(page, rest), Ends(page, rest),
         AnswerFrame
  PROVE  AppsIInv'
<1>1. AppsShape /\ AppsTypeOK /\ SearchShape
  BY DEF AppsIInv, AppsShape
<1>2. /\ page \in SUBSET FunctionApps /\ rest \in SUBSET FunctionApps
      /\ failed' \in BOOLEAN /\ search \in Search
  BY <1>1 DEF Answer, AppsTypeOK
<1>3. /\ search' \in Search /\ ~search'.running /\ search'.term = search.term
      /\ search'.subs = search.subs /\ search'.found = search.found \cup page
      /\ search'.rest = rest /\ search'.more = (rest # {})
  <2>1. search' = [Found(page, rest) EXCEPT !.running = FALSE]
    BY DEF Ends
  <2> QED BY <1>2, <2>1, EndedType
<1>4. /\ isLoading' = FALSE /\ supportsRefresh' = ~search.term.exact
      /\ children' = IF search.term.exact THEN search'.found \cap search.term.apps
                     ELSE search'.found
      /\ dirtyApp' = (dirtyApp /\ selectedNode' = selectedNode)
      /\ initialResourceId' = IF selectedNode' = selectedNode THEN initialResourceId
                              ELSE InitialAfter(selectedNode)
      /\ UNCHANGED <<permanentResourceId, searchTerm, debouncing, appliedTerm, subscriptions,
                     clicks, acts>>
  BY DEF Ends, AnswerFrame
<1>5. /\ search'.found \subseteq FunctionApps /\ search.term.exact \in BOOLEAN
      /\ children' \subseteq FunctionApps
  BY <1>2, <1>3, <1>4, SearchType
<1>6. rest = {}
  BY <1>2, FoundType DEF Ends, Over
<1>7. selectedNode' \in FunctionApps \cup {AppsNode}
  <2>1. PICK leave \in BOOLEAN :
          selectedNode' = IF search.term.exact /\ children' # {} /\ ~Blocks(leave)
                          THEN CHOOSE a \in children' : TRUE ELSE Opened(page)
    BY DEF Ends
  <2>2. children' # {} => (CHOOSE a \in children' : TRUE) \in children'
    OBVIOUS
  <2>3. Opened(page) \in FunctionApps \cup {AppsNode}
    BY <1>1, <1>2 DEF Opened, AppsTypeOK
  <2> QED BY <1>5, <2>1, <2>2, <2>3
<1>8. /\ initialResourceId' \in {initialResourceId, NoApp}
      /\ initialResourceId' # NoApp => selectedNode' = selectedNode /\ initialResourceId # NoApp
  BY <1>1, <1>4 DEF InitialAfter, AppsShape, AppsTypeOK
<1>9. AppsTypeOK'
  <2>1. dirtyApp' \in BOOLEAN /\ supportsRefresh' \in BOOLEAN /\ isLoading' \in BOOLEAN
    BY <1>1, <1>4, <1>5 DEF AppsTypeOK
  <2>2. initialResourceId' \in {permanentResourceId', NoApp}
    BY <1>1, <1>4, <1>8 DEF AppsTypeOK
  <2> QED BY <1>1, <1>2, <1>3, <1>4, <1>5, <1>7, <2>1, <2>2 DEF AppsTypeOK
<1>10. AppsShape'
  <2>1. dirtyApp' => selectedNode' # AppsNode
    BY <1>1, <1>4 DEF AppsShape
  <2>2. initialResourceId' # NoApp => selectedNode' = AppsNode /\ clicks' = 0
    BY <1>1, <1>4, <1>8 DEF AppsShape
  <2> QED BY <1>3, <1>4, <1>9, <2>1, <2>2 DEF AppsShape
<1>11. /\ search'.found \subseteq Queried(search)
       /\ ~failed' /\ Len(search.subs) <= MaxBatch => search'.found = Queried(search)
  BY <1>1, <1>3, <1>6, AnswerFits DEF SearchShape
<1>12. SearchShape'
  <2>1. Queried(search') = Queried(search)
    BY <1>3 DEF Queried
  <2>2. ~debouncing' => appliedTerm' = {searchTerm'}
    BY <1>1, <1>4 DEF SearchShape
  <2> QED BY <1>3, <1>6, <1>11, <2>1, <2>2 DEF SearchShape
<1>13. ListIsOfSearch'
  <2> SUFFICES ASSUME ~debouncing'
               PROVE  /\ children' \subseteq ShouldShow'
                      /\ ~failed' /\ Len(subscriptions') <= MaxBatch => children' = ShouldShow'
    BY DEF ListIsOfSearch, ListAtRest
  <2>1. searchTerm = search.term /\ search.subs = subscriptions
    BY <1>1, <1>4 DEF SearchShape
  <2>2. ShouldShow' = Matched(search.term, All(search.subs))
    BY <1>4, <2>1 DEF ShouldShow
  <2>3. children' \subseteq ShouldShow'
    BY <1>2, <1>4, <1>11, <2>2, QueriedType
  <2>4. ASSUME ~failed', Len(subscriptions') <= MaxBatch
        PROVE  children' = ShouldShow'
    <3>1. search'.found = Queried(search)
      BY <1>4, <1>11, <2>1, <2>4
    <3> QED BY <1>2, <1>4, <1>5, <2>2, <3>1, QueriedType
  <2> QED BY <2>3, <2>4
<1> QED BY <1>10, <1>12, <1>13 DEF AppsIInv

\* An answer, or a request that fails.
LEMMA SearchAnsweredStep ==
  ASSUME AppsIInv, SearchAnswered
  PROVE  AppsIInv'
<1>1. search.running /\ AnswerFrame
  BY DEF SearchAnswered, AnswerFrame
<1>2. search \in Search /\ search.rest \subseteq Queried(search)
  BY DEF AppsIInv, AppsShape, AppsTypeOK, SearchShape
<1>3. Listing(search) \subseteq FunctionApps
  BY <1>2, ListingType, QueriedType
<1>4. CASE /\ \E page \in SUBSET Listing(search) :
                /\ page = {} => Listing(search) = {}
                /\ LET rest == Listing(search) \ page IN GoesOn(page, rest) \/ Ends(page, rest)
           /\ UNCHANGED failed
  <2>1. PICK page \in SUBSET Listing(search) :
          GoesOn(page, Listing(search) \ page) \/ Ends(page, Listing(search) \ page)
    BY <1>4
  <2>2. Answer(page, Listing(search) \ page)
    BY <1>3, <1>4 DEF Answer
  <2> QED BY <1>1, <2>1, <2>2, GoesOnStep, EndsStep
<1>5. CASE /\ GoesOn(Fake(search), {}) \/ Ends(Fake(search), {})
           /\ failed' = TRUE
  <2>1. Answer(Fake(search), {})
    BY <1>2, <1>5, FakeType DEF Answer
  <2> QED BY <1>1, <1>5, <2>1, GoesOnStep, EndsStep
<1> QED BY <1>4, <1>5 DEF SearchAnswered

\* Every step keeps the invariant.
LEMMA AppsNextInv ==
  ASSUME AppsIInv, [AppsNext]_appsVars
  PROVE  AppsIInv'
<1>1. CASE UNCHANGED appsVars
  <2>1. /\ Queried(search') = Queried(search) /\ ShouldShow' = ShouldShow
    BY <1>1 DEF appsVars, ShouldShow
  <2> QED
    BY <1>1, <2>1
    DEF appsVars, AppsIInv, AppsShape, AppsTypeOK, SearchShape, ListIsOfSearch, ListAtRest
<1>2. CASE AppsNext
  <2>1. ASSUME NEW term \in Terms, TypeTerm(term)
        PROVE  AppsIInv'
    BY <2>1, TermsType, TypeTermStep
  <2>2. CASE StartupInfoAgain
    <3>1. permanentResourceId \in FunctionApps
      BY <2>2 DEF StartupInfoAgain, AppsIInv, AppsShape, AppsTypeOK
    <3> QED BY <2>2, <3>1, TermsType, TypeTermStep DEF StartupInfoAgain
  <2>3. CASE TermStands
    BY <2>3, TermStandsStep
  <2>4. ASSUME NEW subs \in ChosenSubs, SelectSubscriptions(subs)
        PROVE  AppsIInv'
    BY <2>4, SelectSubscriptionsStep
  <2>5. ASSUME NEW node \in children \cup {AppsNode}, ClickNode(node)
        PROVE  AppsIInv'
    BY <2>5, ClickNodeStep
  <2>6. CASE EditApp
    BY <2>6, EditAppStep
  <2>7. CASE RefreshApps
    BY <2>7, RefreshAppsStep
  <2>8. CASE SearchAnswered
    BY <2>8, SearchAnsweredStep
  <2> QED BY <1>2, <2>1, <2>2, <2>3, <2>4, <2>5, <2>6, <2>7, <2>8 DEF AppsNext
<1> QED BY <1>1, <1>2

\* The invariant holds in every reachable state.
THEOREM AppsInductive == AppsSpec => []AppsIInv
BY AppsInitInv, AppsNextInv, PTL DEF AppsSpec

-----------------------------------------------------------------------------
(* The properties that the run checks.                                     *)

\* When no search is under way the list is that of the term and the subscriptions
\* shown (apps-node.ts:85-134, 289-327).
THEOREM ListRight == AppsSpec => []ListIsOfSearch
<1>1. AppsIInv => ListIsOfSearch
  BY DEF AppsIInv
<1> QED BY <1>1, AppsInductive, PTL

\* The tree selects by itself only the app of the frame before the user has gone
\* anywhere, and at the end of an exact search an app that it names, which may be
\* the one of the frame (apps-node.ts:107-120, 172-194, 301-306).
THEOREM OpensOnce == AppsSpec => OpenedOnce
<1> DEFINE Once == selectedNode' # selectedNode /\ clicks' = clicks =>
                     \/ clicks = 0 /\ selectedNode = AppsNode
                     \/ /\ search.term.exact /\ search.running /\ ~search'.running
                        /\ selectedNode' \in search.term.apps
<1>1. ASSUME AppsIInv, [AppsNext]_appsVars
      PROVE  [Once]_appsVars
  <2>1. clicks \in Nat /\ AppsShape
    BY <1>1 DEF AppsIInv, AppsShape, AppsTypeOK
  <2>2. CASE UNCHANGED appsVars
    BY <2>2
  <2>3. ASSUME NEW node \in children \cup {AppsNode}, ClickNode(node)
        PROVE  Once
    <3>1. clicks' = clicks + 1
      BY <2>3 DEF ClickNode
    <3> QED BY <2>1, <3>1
  <2>4. CASE SearchAnswered
    <3>1. ASSUME NEW page, NEW rest, page \subseteq FunctionApps,
                 selectedNode' # selectedNode, GoesOn(page, rest) \/ Ends(page, rest)
          PROVE  Once
      <4>1. CASE selectedNode' = Opened(page)
        <5>1. initialResourceId \in FunctionApps
          BY <3>1, <4>1 DEF Opened
        <5> QED BY <2>1, <5>1, NodesAssumption DEF AppsShape
      <4>2. CASE selectedNode' # Opened(page)
        <5>1. Ends(page, rest)
          BY <3>1, <4>2 DEF GoesOn
        <5>2. search.term.exact /\ children' # {} /\ selectedNode' = CHOOSE a \in children' : TRUE
          BY <4>2, <5>1 DEF Ends
        <5>3. selectedNode' \in children'
          BY <5>2
        <5>4. children' \subseteq search.term.apps
          BY <5>1, <5>2 DEF Ends
        <5>5. search'.running = FALSE /\ search.running
          <6>1. search \in Search /\ Found(page, rest) = [search EXCEPT
                  !.found = search.found \cup page, !.more = (rest # {}), !.rest = rest,
                  !.index = search.index + MaxBatch]
            BY <1>1 DEF AppsIInv, AppsShape, AppsTypeOK, Found
          <6> QED BY <2>4, <5>1, <6>1 DEF Ends, SearchAnswered, Search
        <5> QED BY <5>2, <5>3, <5>4, <5>5
      <4> QED BY <4>1, <4>2
    <3>2. search \in Search /\ search.rest \subseteq Queried(search)
      BY <1>1 DEF AppsIInv, AppsShape, AppsTypeOK, SearchShape
    <3>3. Listing(search) \subseteq FunctionApps /\ Fake(search) \subseteq FunctionApps
      BY <3>2, ListingType, QueriedType, FakeType
    <3>4. \E page \in SUBSET FunctionApps, rest \in SUBSET FunctionApps :
            GoesOn(page, rest) \/ Ends(page, rest)
      BY <2>4, <3>3 DEF SearchAnswered
    <3> QED BY <3>1, <3>4
  <2>5. CASE EditApp \/ RefreshApps \/ TermStands \/ StartupInfoAgain
    BY <2>5 DEF EditApp, RefreshApps, TermStands, StartupInfoAgain, TypeTerm, viewVars
  <2>6. ASSUME NEW term \in Terms, TypeTerm(term)
        PROVE  Once
    BY <2>6 DEF TypeTerm, viewVars
  <2>7. ASSUME NEW subs \in ChosenSubs, SelectSubscriptions(subs)
        PROVE  Once
    BY <2>7 DEF SelectSubscriptions, viewVars
  <2> QED BY <1>1, <2>2, <2>3, <2>4, <2>5, <2>6, <2>7 DEF AppsNext
<1> QED BY <1>1, AppsInductive, PTL DEF AppsSpec, OpenedOnce
=============================================================================
