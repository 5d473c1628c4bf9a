# Verification of the Azure Functions portal

This directory holds TLA+ models of the parts of the portal's clients where
state, asynchrony and failure meet, the TLC configurations that check them on
small instances, and proofs of their main properties, for every value of the
constants, checked by TLAPS.

    tlc -config ArmBatch.cfg ArmBatch.tla        # one run; PROJECT.json lists all of them
    tlapm ArmBatchProofs.tla                     # the proofs of one module

`PROJECT.json` lists the components, the runs with their properties, the source
lines of every definition, the hazards each property is for, the disagreements
between code and comments, and the theorems.

## 1. The system

The repository holds three programs. All of them run in one process each, on a
JavaScript event loop: a handler runs to its end, and what interleaves are the
callbacks of HTTP requests, timers, promises and messages. This is why one action
of a model is one callback.

* `client-react/`: the React pages (rxjs 6), loaded in an iframe of the Azure
  portal.
* `client/`: the older Angular pages (rxjs 5), loaded the same way or alone.
* `server/`: a NestJS server that serves the pages and forwards some requests
  (source control providers, GitHub, storage); it keeps no state between two
  requests but its configuration.

The Azure Resource Manager (ARM), the function app, the source control providers
and the portal that holds the iframe are outside; their answers may be late, fail
or get lost.

### Components

| Component | State | Operations | What is hard | What makes it correct |
|---|---|---|---|---|
| ARM batcher (`ApiHelpers/ArmHelper.ts`) | open buffer, queue of batches, POST under way, promises of the callers, token | call, flush, post, match answers, refresh token, fail | batches overlap with direct calls; one failure meets many callers; retries | every call settles once, with its own result, in order; nothing is executed twice |
| Response cache (`shared/services/cache.service.ts`) | one item per url: value, ETag, expiry, observable in flight | send, clear, expiry, clean-up, 429 retry, 304, pass-through | late answers meet an entry that has changed; sharing of requests | no entry leads to an ended request; ETag and content agree; the creator of a request sees current content |
| Broadcast service (`broadcast.service.ts`) | replayed streams, dirty states | broadcast, subscribe, set and clear dirty | events before the subscriber exists | nobody misses an event it needs |
| Busy indicators (`busy-state/`) | keys that are set, debounce timers | set, clear, create, destroy | replay, debounce per key, several managers | shown exactly while somebody is busy |
| Feature components (`feature-component.ts`, `navigable-component.ts`) | input stream, busy key, early clear | input, setup, its result or error, operation, destruction | errors end the stream; inputs overlap, or are ignored | nothing is busy without a reason, or for ever |
| Configuration of a site (`config-save-component.ts`, `site-config.component.ts`) | per table: ARM objects and form; the objects to put and their results | load, edit, save, discard | tables share objects; the parallel requests of a save fail one by one | what is saved is what ARM has plus the edits; no edit is lost |
| Background values of the configuration page (`AppSettingsDataLoader.tsx`) | host status, count, their retries | fetch, retry, show | calls overlap after a save or a refresh | what is shown as loading is of a call that has no result; values shown together belong together |
| Form of the configuration page (`AppSettingsDataLoader.tsx`, `AppSettingsFormData.ts`) | form, permissions, names that stay with the slot | load, refresh, edit, save, discard | two parallel writes; the list of names is shared by the slots; missing permissions | after a save the page knows what is stored; names that were not touched stay |
| Portal communicator (React), portal service (Angular) | operation and notification streams | post a message, match its answer, start and stop notifications | answers in any order, or none | an answer reaches the operation it is for |
| User session (`user.service.ts`, `portal.service.ts`, `background-tasks.service.ts`) | startup information, token, reads of texts and subscriptions | take a message of the shell, ask for the token every minute, emit it | reads end in any order; requests fail; one object is changed in place | the last token reaches the services and stays |
| Slot swap (`swap-slots.component.ts`) | phase, form, progress; `targetSwapSlot` on the server | apply, swap, cancel, poll, reload | lost answers, polling limit, resumption from the state of the server | what is shown agrees with the server; no phase without a way out |
| Deployment slots page (`deployment-slots.component.ts`) | target of its slot, load under way, flags, disabled commands, form, saves under way | load, refresh, edit, save, discard, open the swap pane, hear its messages | messages during a load, a result during a refresh, a save that outlives a refresh, a pane that is dismissed | at rest it shows what ARM has and offers the right commands |
| Log streaming (both clients) | text received, indices, poll timer | start, stop, reconnect, switch | late callbacks of an aborted stream | no text lost or shown twice |
| Console (`abstract.console.component.ts`, `abstract.windows.component.ts`) | the line, whole and in parts around the cursor; history; listing of Tab; command under way | keys, Enter, Tab, paste, history, Ctrl+C | a listing that comes after the line has changed | both copies of the line agree |
| Deployment center | wizard state, authorization window | authorize, poll, deploy | window closed, answered and timed out at once | one result per authorization |
| Tree view (`apps-node.ts`, `side-nav.component.ts`) | search, term, subscriptions, list, selection | type, choose subscriptions, refresh, select, next page | searches overlap; pages come late; the tree selects by itself | the list is that of the term; no page that comes late moves the selection |
| Functions pages, plans | forms | load, save, poll | as above, one user | not modelled |
| Stacks service, scenario service | none | filters over tables | nothing concurrent | unit tests |
| Server controllers | none | forward a request | I/O only | not modelled |

Interactions: pages call the ARM batcher or the cache, never HTTP directly; both
ask the portal for tokens (through the communicator or the user service). Feature
components set and clear busy states through a scope manager, whose events reach
the indicators through the broadcast service; `FeatureComponent` composes the two.
The tables of a configuration page meet in one save, the page of the slots and its
pane in their messages and in ARM. The blades themselves run in iframes of their
own and share no state.

## 2. Modules

| Module | What it is | Lines of source |
|---|---|---|
| `ArmCalls` | abstract specification: what a caller of `MakeArmCall` is promised | `ArmHelper.ts` 134-194 |
| `ArmBatch` | the batching pipeline; implements `ArmCalls` | `ArmHelper.ts` 20-208 |
| `ArmBatchProofs` | theorems about `ArmBatch` | |
| `CacheService`, `MCCacheService` | one key of the response cache; symmetry for TLC | `cache.service.ts` 23-362 |
| `CacheServiceProofs` | theorems about `CacheService` | |
| `BusyState` | the indicators of one name, their managers and the replayed stream | `busy-state/*.ts`, `broadcast.service.ts` 69-133 |
| `FeatureComponent` | the features that share an indicator; composed with `BusyState` | `feature-component.ts` 22-131, `navigable-component.ts` 36-59 |
| `FeatureComponentProofs` | theorems about `BusyState` and `FeatureComponent` | |
| `ConfigSave` | load, edits and save of the Angular configuration page | `config-save-component.ts` 66-234, `site-config.component.ts` 142-316, `app-settings.component.ts` 77-313 |
| `Session` | how tokens reach the services | `user.service.ts` 40-147, `portal.service.ts` 497-553, `background-tasks.service.ts` 32-36 |
| `Console` | the line of the consoles | `abstract.console.component.ts` 25-544, `abstract.windows.component.ts` 64-153 |
| `SettingsForm` | the form of the React configuration page | `AppSettingsDataLoader.tsx` 83-414, `AppSettingsFormData.ts` 194-236 |
| `AppsTree`, `AppsTreeProofs` | the list of apps in the tree; theorems | `apps-node.ts` 43-329, `side-nav.component.ts` 98-383, `tree-node.ts` 103-135 |
| `ConfigurationProofs` | theorems about `ConfigSave` and `SettingsForm` | |
| `MCBlades` | `FeatureComponent`, `ConfigSave`, `Session`, `Console`, `SettingsForm` and `AppsTree` in one instance | |
| `BladesProofs` | theorems about `Session` and `Console`, and about the composition `MCBlades` | |
| `AppSettingsAsync` | background values of the configuration page | `AppSettingsDataLoader.tsx` 58-78, 298-403 |
| `SwapSlots` | the pane that swaps slots, and the part of ARM it talks to | `swap-slots.component.ts` 178-734 |
| `DeploymentSlots` | the page that opens the pane, composed with it | `deployment-slots.component.ts` 75-629 |
| `DeploymentSlotsProofs` | theorems about the page and the pane | |
| `AppSettingsAsyncProofs` | theorems about `AppSettingsAsync` | |

In each module an operator whose name ends in `Bug` is a plausible mistake in the
code beside the operator it would replace. Nothing uses them in a run as it
stands; with one of them in place TLC finds the property it is listed with
violated (`mutants` in `PROJECT.json`).

### ArmBatch

Calls are numbered as they are issued. `buffer` is the buffer of `bufferTime`,
`queue` holds the batches that `concatMap` has not started, and `post` the POST
that the batcher (sender 0) or a call with `skipBatching` (its own sender) has
under way: `sent`, then `served` when ARM has executed it, or `token` while the
portal is asked for a new token. `status` is the promise of a call: `ok` and
`failed` are `metadata.success`, `threw` a rejected promise, which only a direct
call can end with. `verdict` is what ARM has done with a request, and `doubt`
the requests given up on the wire: ARM may still execute them (`ArmServesLate`).
A failed batch emits a value without an id; every subscriber takes it, `share()`
loses its last subscriber, and buffer and queue are gone: this is `FailBatch`.

ARM answers every request of a batch it executes, in order; a reply of another
length is a hazard that is listed and not modelled.

### ArmCalls and the refinement

`ArmCalls` has the three variables of `ArmBatch` that a page can tell: `status`,
`verdict` and `doubt`. A step of the pipeline is an `Issue`, an `Execute`, an
`Answer` to some callers, a `GiveUp` of some callers, or a stutter (a flush, a
token refresh). What `ArmCalls` rules out is a success that ARM did not give, a
second execution, and an execution after a failure of a request that had not left
the browser.

### CacheService

`entry` is `_cache[key]`, `req[c]` the observable that the call of `c` has created
(with the item it found, which it holds in its closure), `caller[c]` what `c` has
been given. The observable is cold and shared: `Subscribe` starts it unless it is
running, `Unsubscribe` aborts it with its last subscriber. The resource is a
version number `data`; an ETag is the version it stands for. Requests of the same
key overlap after a clear, a clean-up (which deletes an entry in flight when it
has expired) or a failure (which deletes whatever entry there is).

### BusyState and FeatureComponent

`wants` is what each manager has broadcast last, `buffer` the events the
`ReplaySubject` holds, `pending` the event each debounce timer holds,
`busyStateMap` and `busy` those of the component. `missed` records the busy
managers whose events had been pushed out of the stream when the component was
created: it is the only way in which the indicator may be wrong, and
`NothingMissed` says that it takes an overflow.

`FeatureComponent` says who the managers are: features, each with the state of its
input stream (`life`), of its `setup` (`work`), of an operation of its page, and
`busyClearedEarly`. An input sets the busy state before `setup` sees it, so an input
that `setup` filters out leaves the feature busy until the router destroys it
(`leaving`). A step of a feature is a broadcast, a direct set or clear, or nothing to
the indicator: it is a step of `BusyState`, which is proved
(`FeaturesImplementIndicator`).

### ConfigSave

Each table keeps the ARM objects it uses (`arm`) and its part of them in a `form`;
`edited` is which of them are dirty. A save goes through the tables in the order of
the page, and each of them puts its part into `saveConfigs` (`getConfigForSave`),
into the object an earlier table has made of it, if there is one. The requests are
parallel; each has a result, and `doubt` holds the objects that ARM has changed
though the page was told of a failure. The results reach every table, and those of
which all parts were stored make their form anew. `wanted` is what the user has
typed, whatever the code makes of it; it is no part of the code.

### Session

Tokens are numbered as they are issued. In the portal the messages of the shell wait
in `inbox`; `startupToken` is the token in the one object of the portal service,
which is changed in place, and `reads` are the reads of texts (alone: of
subscriptions) that are under way, with the token they were started with. `copied`
is what the services have taken from the last emission.

### Console

`command` and `ptrPosition` are one copy of the line, `commandInParts` the other;
each key changes both, each in its own way, as in the code. A key appends its name
(`KeyNames`), which for keys such as ScrollLock has several characters, and moves the
cursor by one; `longKey`, which is no part of the code, records that this has put the
cursor out of step, until the line is divided again. `listings` counts the
listings that Tab has asked for: any of them may be answered after anything else,
and a listing gives the names that match (`Files` is a set) in any order.

### SettingsForm

`values` and `initialValues` are those of Formik, with a value for each name and the
set of names that stay with the slot; `slotConfigNamesFromApi` is the list the page
has read. A save writes the site, and the list when it has changed; each may fail,
and one that fails may have been done (`siteDoubt`, `namesDoubt`). `knowsNames` is no
part of the code: the last load has read the list.

### AppsTree

`search` is the one `switchMap` has under way: its term and subscriptions, the batch
it has come to (`index`), what is left of a page, and what it has found. A term is
the set of apps it matches. `clicks` counts what the user has selected; it is no
part of the code.

### AppSettingsAsync

`loop` is `executeWithRetries` for each call of `fetchAsyncData` and each of its
two requests, `asyncDataLatest` the object of each call, `asyncData` the state of
the page. `version` is the configuration of the app. A status other than 200 makes
another turn of the loop (`OtherStatus`). A request that gets no answer, or no new token,
is `Rejected`: these requests skip the batch, `makeArmRequest` throws, and
`executeWithRetries` catches nothing. Its value is left as it is.

### SwapSlots and DeploymentSlots

The pane is a blade in an iframe of its own, the page another: they share nothing
but the messages the portal relays (`mail`, in order, the result of the pane
last) and ARM. `pane` holds what the pane shows and what it waits for: `post` the
answer to its operation, `poll` the end of its swap. `reply` is the answer on its
way to it. ARM keeps `target` (`targetSwapSlot`, which the code expects of both
slots of a pending swap), `role` (which of the two is the source), the posts it
has not handled and the swap each opening of the pane has started. `done` is what
it has carried out. A pane can be dismissed by the portal at any moment; its
post, if there is one, is still handled.

Of ARM the model assumes what the code relies on: an operation is taken only
when neither slot is pending with a third one, nor applied the other way round,
and no swap is running; everything may also be refused, fail, or be answered with
an error although it was done.

The page has `load` for the stages of its `setup`: its requests are unanswered
(`content`), answered but not taken up (`read`), its permissions are asked
(`permissions`). A new load replaces what an earlier one has read, which is
`switchMap`. `flags` is what `_updateDisabledState` reads and `disabled` what it
writes: the code calls it at some of the changes of the flags only. No flag disables the
refresh, which is bound to `fetchingContent` alone (`deployment-slots.component.html:40-45`):
it works beside a save, beside the pane, and in the last stage of a load. `form` is
`mainForm`, whose traffic percentages are clean or edited, and `editable` says whether its
rules are enabled; what would drop edits asks the user (`_confirmIfDirty`), who may
decline. `saves` counts the saves whose notification is opened (`begun`) and those whose
answer is awaited (`posted`): a refresh forgets that the page is saving, and their answers
still come.
`unannounced` is no part of the code: it records that the target has changed, or may, with nobody
left to tell the page (the pane was dismissed, or had given up a swap that ended
later), until the page reads again. `ViewSettles` leaves out just that case. Neither is
`overtaken`: it records that the last operation that ARM has carried out since the pane was
loaded is one of an earlier opening, which had been dismissed with its post on its way.
`SecondPhaseIsPending` leaves out just that case: the pane does not read the slots again,
and cannot know that the swap it offers to complete is no longer pending.

## 3. Runs

| Run | Instance | Shows |
|---|---|---|
| `arm_batch` | 4 calls, batches of 2 | no call is lost, given another's answer, executed twice, or executed after its failure was reported; order is kept; `IInv` holds |
| `arm_batch_live` | 3 calls, batches of 2, fair | every call settles; `ArmCalls` is implemented |
| `arm_batch_comment` | 2 calls | the catch of `makeArmRequest` is reached (violation) |
| `cache` | 3 calls, 1 update, 1 retry | sharing, ETags, copies, freshness for the creator of a request; `IInv` holds |
| `cache_live` | 2 calls, fair | every subscriber is answered |
| `cache_comment` | 2 calls | an update joins a read and is not sent (violation) |
| `app_settings` | 2 calls of `fetchAsyncData`, 1 retry, fair | nothing is shown as loading of which both calls have a result, no mixture of calls, loading ends unless the request was rejected |
| `app_settings_comment` | 1 call, 3 retries | four retries are made (violation) |
| `slots` | 1 slot beside production, pane opened twice, 2 polls, 1 save at a time | the page ends with the target ARM has, the right commands and no dirty mark; it offers neither a save nor a second pane beside the pane; no false success |
| `slots_live` | 2 slots beside production, pane opened once, fair | the second phase is that of the pending swap, the right way round; operations end, the page has its commands back unless it is refreshed for ever |
| `blades` | six modules, one at a time, see below; fair | `BladesInv` (the inductive invariants and types of the six), and the properties below |
| `apps_comment` | the same instance | a search finds everything (violation) |

`blades` takes one of the six modules of `MCBlades` in its first state and stays with
it: the blades of the portal run in iframes of their own and share nothing, so there
is no interleaving of them to miss. What it shows of each:

* feature components (2, one of which clears busy early; a stream of 2 events, 3
  inputs): the settled indicator is right (`SettledBusy`), nobody is busy without a
  reason (`BusyHasReason`), who stays busy is shown (`Shown`), and what was set busy
  is cleared or destroyed (`FeatureSettles`);
* the save of the configuration (2 tables that share one of 3 objects, 3 edits):
  what a save starts from is what ARM has (`BaseIsCurrent`), an edit is stored or
  still in its form (`EditsKept`), and a write changes only the parts that were
  edited (`OwnPartOnly`);
* the session (3 tokens, 2 inputs, 2 failures, 3 reads): at rest the services have
  the last token (`CopiedIsCurrent`), which arrives in the end (`SessionTokenArrives`);
* the console (lines of up to 3 typed or pasted characters and of one more by a key name of
  2, two listings that overlap, 2 files, one of whose names begins with the other): the
  prompt shows the line that Enter would run, and the cursor where the next key acts, but
  for the long key names (`PartsMatch`);
* the settings form (2 names, 2 edits, 2 loads): at rest the page shows what is stored
  (`PageIsCurrent`), and a name that was not touched stays in the list, or out of it
  (`UntouchedKept`);
* the tree (3 apps in 2 subscriptions, batches of 1, 3 acts of the user): the list is
  that of the search (`ListIsOfSearch`), and without a click the selection moves
  only to the app of the frame before the user has gone anywhere, or to the app of an exact
  search in the step that ends it (`OpenedOnce`).

The bounds, and why they are enough:

* Four calls and batches of two let one batch be under way, one be queued and one
  be filling with direct calls beside them: the failure of a batch then meets
  calls in every place they can be in. The retries have the bound of the code, 2.
* Three callers of the cache: one fills it, and the requests of the other two
  overlap after a clear. One update makes old and new content distinct. One retry
  stands for the 12 of the code: a retry is a wait in which everything else
  happens, and the last one fails.
* A stream of two events and three inputs, each with its events for the indicator and
  for others, overflow it with a component created before, at and after the overflow;
  128 is the bound of the code.
* Two tables and three objects, one of them shared, make every relation two tables
  can have; the third edit is made after a save that failed in part.
* Three tokens let two reads overlap with a message under way, and end in either
  order, with a failure before or between them.
* A line of three characters has a cursor at both ends and between, and a key name of two
  characters in front of, behind and within another text; two listings are awaited at the
  same time; the second file completes a word the first one has completed.
* Two names and two edits: one name that is touched and one that is not, with a
  failed save before the second edit; one load that reads everything and one that
  does not.
* Three apps in two batches: one batch has pages, one has not. Three acts of the user
  are a term, a selection of subscriptions or a refresh while the search of the one
  before is under way, and a click.
* Two calls of `fetchAsyncData` are an older and a newer one. One retry makes
  three attempts. Each of the two requests of either call may be rejected.
* Two openings of the pane let an operation that a dismissed pane has left behind
  meet the next pane; two polls are one that goes on and the last one, of 120. A
  pending swap may be there from the beginning, so one opening can resume one;
  two slots beside production are needed for a swap without production. One save at a time
  (`MaxSaves`) overlaps loads, the pane and later edits; the theorems hold for any number.

The longest runs are `slots_live` (about 981 000 states, three and a half minutes),
`slots` (7.9 million states, three minutes) and `blades` (336 000 states, under three minutes: six modules and
four liveness properties).

The runs do not look for deadlocks (`CHECK_DEADLOCK FALSE`): a session may end
when the calls, events or updates of its bound have happened. That nobody waits
for ever is what the liveness properties say.

### Fairness

Fairness is stated for what the browser does by itself, and for nothing a user,
another client or a page does.

* `ArmBatch`: the timer of the buffer fires; a POST under way is answered or its
  connection fails (the browser gives up in the end); the portal answers a
  request for a token. Executing a request is not fair: ARM may never do it.
* `CacheService`: the same for each request and its callbacks. The 429 retries are
  bounded, so they need no more than weak fairness.
* `FeatureComponent`: the debounce timers run, `setup` is answered (its requests end,
  one way or another), operations end, and the router destroys what it leaves.
* `Session`: the shell answers and its messages arrive, the timer of the background
  task runs, requests and reads end. New tokens are not fair.
* `AppSettingsAsync`: a sync ends (it goes through the batch, which never rejects), a request
  is answered or rejected, the delay passes. That a request is rejected is allowed, so
  `LoadingEnds` leaves out the value of the shown call whose own request was.
* `DeploymentSlots`: requests, saves and posts are answered, the polls go on, messages are
  relayed. A user who refreshes again and again in the last stage of a load keeps the page
  loading, as the code lets him; `PageSettles` is about one who stops
  (`<>[][~RefreshCommand]_vars`). A running swap need not end, and nobody need press a button.

### Disagreements between code and comments

* `ArmHelper.ts:128` says of the catch of `makeArmRequest` "This shouldn't be hit
  since we're telling axios to not throw on error". `validateStatus` only covers
  answers: a broken connection rejects, and so does a token that the portal
  refuses (`portal-communicator.ts:311`, which rejects with no reason). Callers with
  `skipBatching` then see a rejected promise in place of `success: false`.
* `cache.service.ts:186-189` says that `force` need not matter for a request in
  flight "because 1, you're already updating the data". The request in flight may
  be a read: the key of the cache does not contain the method. A `put`, `patch`
  or `delete` is then given the observable of the read, and nothing is updated.
* `AppSettingsDataLoader.tsx:300` says "We limit retries to three". The loop makes
  `maxRetries + 1` turns after the first attempt: four retries.
* `apps-node.ts:268-269` says of an exact search "we'll query everything and then
  filter to that item". `_doSearch` counts batches and pages with one index
  (319-320): the link to the next page takes it a batch further, so the batch after
  one that has pages is never asked for. Nothing shows that the list is incomplete;
  it takes more than 40 subscriptions, and an answer in pages.

## 4. Proofs

The proofs assume of the constants what the modules declare (`...Assumption`):
numbers are natural, a buffer and a batch hold at least one element, reserved
values are none of the ordinary ones, tables use objects that exist. They hold for
every number of calls, managers, tables, names, apps, inputs and retries.

**ArmBatch.** `NoOrphan` and the other properties are not inductive as they stand.
`IInv` adds:
`History` (only issued calls have been executed or answered; what is in doubt is
settled), `PostShape` (a request in a POST is executed exactly when ARM has
served the POST, and its answer is at its position) and `PipelineOrder` (POST,
queue and buffer hold the calls in the order of issue). `PostShape` is what
makes a retry safe: a POST that is sent again was not executed. `PipelineOrder`
also says that no request is in two places, without which an answer could
settle a call whose request is still queued. A batch is never larger than the buffer
(`BatchesBounded`). `InOrder` follows from `IInv`; the
two action properties follow from it and one step; so does the refinement, with
one lemma per action of the pipeline (`Refinement`).

**CacheService.** `IInv` adds `EntryShape` (a deleted entry holds nothing; the
entry does not lead to a request that is passed through), `CallerShape` (who
waits has a request) and `AnswerShape` (an answer fits the ETag that was sent and
is not older than the call that created the request). `ValidatorMatches` must be
said of the items that requests hold, not only of the entry: status 304 puts one
of them back, and this is where the proof uses that the closure keeps its own item.

**AppSettingsAsync.** `LatestShape` says that the object of a call is loading
exactly what the call has no result of: what is under way, or was rejected. With it, a
result that shows the whole object of its call cannot show as loading what both calls have
a result of (`LoadingIsAccountedFor`).

**DeploymentSlots.** The page knows of the pane by its messages, so `IInv` says what
the queue can hold: the result of the pane is its last message (`MailInv`), and the
page counts the pane as open exactly until it has heard it (`OpenInv`). With it,
whatever occupies the page has disabled its commands (`CommandInv`), so that
neither a save nor a second pane can start beside the pane (`PaneHolds`). A refresh gives
the commands back to a page that saves, but not to one whose pane is open; an earlier save
may still be under way then, and its answer changes neither (`SaveInv`). And a result that leaves the commands
alone does so during a load, whose end recomputes them (`LoadInv`). `PaneInv` says
that an operation is awaited in the executing steps only. So much needs no
assumption on ARM but the types of what it keeps.

What the pane says of its operation does. `ArmInv` relates it to ARM: a post of this
opening that is not handled is the one the pane awaits (`PostInv`), while posts of earlier
openings may still be there; an answer on its way is to that post, and true
(`ReplyInv`); a swap that runs for this opening is the one the pane shows, it is the only
one, and no other pending swap has a part in its slots (`JobInv`); pending slots name each
other as source and destination (`TargetInv`). `SuccessIsTrue` is inductive together with
these. `SecondPhaseIsPending` has to be said earlier than the property does: of the pane that
still loads the second phase, and of an answer that will lead there (`ResumeInv`).

`PageInv` is about what the page has read. It has the target of its slot as ARM has it, and so
has a load whose answers are not taken up, unless an operation of the pane is under way,
its end is still in the queue, or `unannounced` says that nobody is left to tell of it
(`ViewInv`). A load that was answered before the operation ended is made anew when the
page hears of the end, which is where `switchMap` is needed. A message that announces
an operation is followed by one that ends it (`OrderInv`). The three invariants were checked by TLC, with 1 slot and
with 2 slots beside production and two openings of the pane, before they were proved.

**FeatureComponent.** What the indicator shows is a function of the last event of each
key that it has heard, or will when its timer fires: `IInv` of `BusyState` says so
of the replayed stream as well (`Replay`, `LastHeard`), where the last event of a key
is found by its position. An overflow is the only way to miss one, so `SettledBusy`
holds. A step of a feature is a step of the indicator or leaves it alone, which is the
refinement; `BusyHasReason` follows from what `setup`, operation and destruction owe.

**ConfigSave.** Tables that use the same object keep the same copy (`SameBase`); a form
differs from it only where it was edited (`FormShape`); and an object that is put has
the submitted parts of all its tables, and otherwise what ARM has, as long as no
request has failed after its execution (`SaveShape`). The last is why the second
table of a save must go on with the object of the first, and why a result has to reach
every table. `BaseIsCurrent`, `EditsKept` and `OwnPartOnly` follow.

**SettingsForm.** A form differs from its initial values only in names that were
touched (`TouchedShape`), and a save writes the form, and the list that the form makes
of what was read (`WriteShape`). `PageIsCurrent` needs both writes to have succeeded;
`UntouchedKept` needs that the list was read.

**AppsTree.** The search under way is that of the last inputs, unless no term has stood
yet; all it has found is of its query, and with a single batch what it has found
and what is left of the page make up the query (`SearchShape`). Several batches are left
out of the last part, since it is wrong there (`EverythingFound`). The app to select
is known only until the node of the apps is left (`AppsShape`): with the
end of an exact search, which selects an app it names, this gives `OpenedOnce`.

**Session.** `SessionIInv` follows the last token from the shell to the services. The last
message that carries a token has the last one issued, and if no message does the object has
it (`TokenOnItsWay`); the startup information comes once, before any other token, so that no
token is refused for want of the object (`StartupFirst`); and whoever ends the last read gives
the services what the object holds then. The order of the reads has no part in it,
because they emit the object and not the token they began with.

**Console.** The types, `PartsMatch` and `CursorLags` are inductive together (`ConsoleIInv`):
behind a key name of several characters the cursor is left of where the prompt shows it, so
the next key goes on with the parts, and only what divides the line again brings the two
together. Typing within the line and the
key that takes a character away put the line together from its parts: the lemma
`DividedJoined` says that it comes apart into the same parts at the cursor. A completion uses
the list of an answer that may be late, and the index that other keys have left: `NextIndex`
says that it is one of the list.

**MCBlades.** A behaviour of the composition is one of each of its modules
(`BladesAreIndependent`), so what is proved of a module holds of the instance that TLC
checks, and `BladesInv`, the conjunction of their inductive invariants, is proved from the
theorems of the six (`AllBlades`). The run checks it all the same: that is where an
invariant that is not inductive, or a mistake in a module, shows first.

Only model-checked: liveness (`EveryCallSettles`, `SubscriberAnswered`, `Shown`,
`FeatureSettles`, `SessionTokenArrives`, `LoadingEnds`, `SwapEnds`, `PageSettles`), which
needs fairness and `ENABLED`, out of the prover's reach. Every invariant and every action
property of the passing runs is a theorem. Nothing is proved by induction over data: where
a greatest or a least element is needed, as for the last space of a line or the last event
of a key, the proofs use that the natural numbers are well founded. The
proofs are of safety, and say nothing about TLC's bounds.

## 5. Not modelled

Most of the repository has no state of its own that outlives a handler: of some
150 000 lines, the larger part are views, forms whose state is kept by a library,
tables of resource strings, prices and stacks, and requests that are made and
awaited by one user at a time. The models cover the parts that keep state across
callbacks and share it; the other components are listed in `PROJECT.json`, each
with its reason.

* Log streaming: which text is shown is a question of lengths and offsets in the text
  received; a model would put texts together character by character.
* Deployment center, functions pages, plans: forms and sequences of requests of one
  user. The window that authorizes a provider is one promise, settled once.
* The portal communicator and the notifications: operations are matched by a fresh
  id; the portal, which answers them, is outside.
* Server, stacks service, scenario service: no state.
* A swap pane opened from another blade (the overview opens one): its messages reach the
  page, too. The preview of the differences and the validators of the swap form: the
  user's choice among the slots stands for them. The pane that adds a slot, and what the
  traffic percentages are. The overlay of a busy page, which keeps the mouse away, is not
  taken for a guard: the keyboard reaches the commands below it.
* What ARM and the apps do with a request; a version number stands for it.
* Several keys of the cache at once: the entries of two keys do not interact,
  except that a prefix clears many of them, which is `ClearCache` for each.
* `clearOverallBusyState`: nothing in the repository broadcasts it.
* Below the list of apps: the nodes of an app, and apps that come and go.
* Directories, messages and prompts of the consoles; key-vault references, mounts and
  the service linker of the configuration form; the trial session.
* Pure functions without state (stack filters, scenario tables, form conversions,
  validators), views, styles and resources.

Known, and covered by no property, because the code accepts it or nothing in the
repository says what should be:

* a read that was under way when the cache was cleared stores old content when it
  arrives (`cache.service.ts:259`), and the response of a POST is kept for a minute
  (191);
* a refresh of the configuration page gives the permissions back before it has read
  anything (`AppSettingsDataLoader.tsx:357`); late key-vault references make the form
  anew (421); an earlier call of `fetchAsyncData` may end last (308);
* Ctrl+C leaves the keys of the console locked until the command it gave up is
  answered, which it never is (`abstract.console.component.ts:149`);
* a pending swap between two slots that are not production is resumed the wrong way
  round from its destination (`swap-slots.component.ts:284`);
* a request for the host status or the number of functions that gets no answer, or no new
  token, leaves its value loading until the page is refreshed or saved
  (`AppSettingsDataLoader.tsx:63-78` catches nothing);
* a refresh during a save forgets the save (`deployment-slots.component.ts:174`), and the
  swap pane can then be opened with the save under way: `refreshCommandDisabled` is computed
  and bound nowhere. The answer of the old save ends the `saving` of a newer one and replaces
  a form that has been edited since; a save whose notification opens after the refresh has
  dropped the configuration breaks off with an exception;
* a key whose name has several characters leaves the cursor of the console left of where the
  prompt shows it, and a later key may then take the blank of the cursor into the line
  (`abstract.console.component.ts:520-544`);
* the exact term that the frame of an app starts with selects this app when its search ends,
  wherever the user is by then (`apps-node.ts:172-176`);
* an operation of a page and a load of it share one busy key (`feature-component.ts:66`);
* the startup information that comes again with a token replaces the term the user has
  typed (`side-nav.component.ts:122`), and the end of a search shows the refresh button
  although another node is selected (`apps-node.ts:128`);
* when the texts of the session cannot be read no later token arrives
  (`user.service.ts:57`); `SessionTokenArrives` excludes the case;
* a reply to a batch with fewer answers than requests leaves callers waiting
  (`ArmHelper.ts:75`), and `MakePagedArmCall` returns the pages before a failure as if
  they were all (259).

## 6. What could follow

* An abstract specification of a swap as the server sees it, implemented by the pane; a
  pane opened from another blade while the page saves.
* Several keys of the cache with the prefixes that clear them, and `ArmBatch` composed
  with the token that the communicator refreshes.
* The nodes below an app in the tree, whose loads overlap.
