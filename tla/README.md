# pageSDK: verification project

pageSDK is a Go library for server-driven pages. An application registers *pages*;
each page builds a form or a table (its DSL) on an *engine*, and attaches handlers to
the controls. `Application` serves the DSL over HTTP, keeps every rendered page in
memory as a *page instance*, and runs the handlers of that instance when the client
sends events. Access to pages, elements and events is decided per *access group*,
with Keycloak behind it.

This directory holds TLA+ modules of the parts whose behaviour is more than a
straight line, the TLC configurations that check them, and TLAPS proofs of what
matters most. Paths below are relative to `src/`.

## 1. The system

| Component | State it keeps | Operations | Works with |
|---|---|---|---|
| Page instances (`app/page_instances.go`) | map id → instance (page key, owner, page, last access, mutex), under `manager.mu` | `Add`, `Acquire`, `Release`, `Delete`, sweep | request pipeline, clock |
| Request pipeline (`app/application.go`: `makeGinHandler`, `deletePageInstance`) | none of its own | render, event, delete; authenticate, authorize, answer | all others |
| Authentication (`authentication/`) | JWKS keys and their expiry, under an RWMutex | `Authenticate`, refresh | realm |
| Access caches (`access/authorizer.go`, `access/keycloak_authorizer.go`) | user → groups; (user, token, group) → decision, with expiry | `HasAccess`, `Invalidate` | access source, Keycloak |
| Form engine (`engine/formengine/form_engine.go`, `form_controls.go`) | root container, form actions, handlers, routes | builder, `Routes`, `Render`, `Handle` | page, callbacks |
| Form events (`engine/formengine/runtime_context.go`) | mutations, navigation, dialogs of one event | typed getters, setters, `Add`, `Remove`, `SetError` | form engine's tree |
| Callbacks (`dialog_callbacks.go`, `navigation_callbacks.go` of both engines) | two process-wide registries, a counter | `ShowDialog`, `Open…`, answer a dialog, child result | instances |
| Table engine (`engine/tableengine/`, `table/`) | schema, handlers | builder, `Routes`, `Render`, events | page, callbacks |
| Access manifest (`access/access.go`) | registry; a YAML file | collect, merge, write, validate, compare | engines |
| Keycloak synchronisation (`access/keycloak.go`) | Keycloak's resources | `Sync`, `Diff` | manifest |
| DSL permission resolver (`access/dsl_resolver.go`) | per-call cache | `Apply` | authorizer |
| Sidebar (`sidebar/`) | registry of nodes | register, build event, publish | access registry, engines |
| Bootstrap and routes (`app/application.go`, `manifest/`) | pages, custom routes, flags | register, bootstrap, command line | engines |
| Logging (`logging/`) | request counter, day's file | middleware | every request |

How they interact: the HTTP server runs one goroutine per request. A render calls the
page's factory and `Init`, filters the DSL by permissions and then stores the page with
`Add`. An event names its instance in the query; `Acquire` finds it under
`manager.mu`, unlocks the manager and *then* waits for the instance's mutex, which a
deferred `Release` frees. Handlers may leave callbacks in the process-wide registries;
their URLs name the instance and come back as events.

What is hard, and which properties it calls for:

* **Interleaving** of requests on one instance, with deletion and expiry in between
  (`Serialized`, `NoResurrection`, `ClosedByOwnerOrIdle`); of two publications of the
  sidebar (`PublicationsAgree`); of two syncs (`SyncSpares`); of a DSL's walk and changing
  permissions (`DeliveredForOneAnswer`).
* **Bounds**: the limit of instances against a lazy sweep (`LimitRespected`, `FullOnlyWhenBusy`).
* **Failures**: refusals, errors and panics after `Acquire` (`MutexHeldByHandlers`); a handler
  that fails half-way (`ClientShowsTheDsl`); a batch of routes, a bootstrap, a sync, a write that
  stops in the middle (`RoutesAsReported`, `PanicExplained`, `SyncedAsListed`, `NothingForgotten`).
* **Staleness**: caches that are read, unlocked, filled from outside and written again
  (`BoundedStaleness`, `KeyRecentlyPublished`); a clock that is read before a lock
  (`ClosedByOwnerOrIdle`); pointers into slices that have moved (`AccessInForce`,
  `ClientShowsTheDsl`, `NothingLost`); what an earlier form or generation left
  (`AccessInForce`, `NothingForgotten`).
* **Ordering**: overlapping JWKS fetches, answers that overtake each other, clients that repeat,
  delay and keep URLs over a restart, or join parts of several (`RightHandler`,
  `AnsweredOnce`, `PageSerialized`).
* **Call sequences**: builder calls in any order, which must leave a DSL whose URLs lead to
  the right handlers under the right access groups.

`PROJECT.json` lists each hazard with its line and the properties for it.

## 2. Modules

### PageInstances, InstanceLifecycle

`PageInstances` models the manager and the handlers of `makeGinHandler` and
`deletePageInstance`. A request is a goroutine with a `pc`; its steps are cut where it
touches something shared: reading the clock (`stamp` is the local `now`, read *before*
`manager.mu` is locked), a critical section of `manager.mu`, taking and freeing the
instance's mutex. So `Acquire` is `EventReceived` (clock), then one of `AcquireMissing`,
`AcquireExpired`, `AcquireForeign`, `Acquired` (map), then `Lock`. `instance` keeps the
objects that goroutines still point to after they leave the map `instances`. Statuses are
the HTTP codes, 0 a connection dropped after a panic. `Restart` empties the memory and
leaves clients with their old ids.

The application's own code (factories, `Init`, handlers, authorizers) is a choice
between its outcomes: it succeeds, fails, is refused or panics.

`InstanceLifecycle` is the abstract specification: an instance is opened once for one key,
closed for good, no more are open than affordable, callers are admitted with the right
key and run one at a time, possibly after the instance was closed. `PageInstances`
implements it under the mapping at its end: *admitted* are the requests between
`Acquired` and `Lock`, *running* is the mutex.

### AccessCache, KeycloakAuthorizer

`AccessCache` is `CachedAuthorizer.load`: look up under the lock, ask the source without
it, store under it. The source may change and `Invalidate` may run at any moment. A
question is kept under `CacheKey`, which several questions may share; `Mistakes` are the
values an answer may have though the source never said so. `lost` and `mistaken` are
history: when the source last held a value, and when it was last answered by mistake.
`KeycloakAuthorizer` EXTENDS it with what `requestDecision` makes of the endpoint's
responses and with the answers that need no decision. A 403 of anybody, an error document
that says `access_denied` and JSON without `result` are read as denials (`LikeDenials`),
and are kept like Keycloak's own; the fingerprint of two tokens may be the same
(`CacheKey`). Nothing of the kind is read as a grant.

### JwksCache

The key cache of `KeycloakJWTAuthenticator`: look up, fetch without a lock, store, read
again, verify. The realm publishes and withdraws keys; `gone` remembers when. The HTTP
client's timeout bounds how old a document may be when it is stored. Claims and signatures
are a choice between accepted and rejected.

### Callbacks

The dialog and navigation registries, composed with `InstanceLifecycle` (INSTANCE): a
request is admitted, started and stopped as the abstract instance manager allows, which is
what the refinement proof of `PageInstances` licenses. A request names an instance it may
use and *any* dialog number or callback name: `handleDialogCallback` looks the number up
in a registry of the process and does not compare it with the instance, so `Begin` chooses
the two independently. `called` is the handler that runs, with the page it closed over. The
URLs the client was given are `links`, in any order, as often as it likes, also after a
restart; `which` in a link is history, the handler the client was shown. Navigation
callbacks are keyed by instance and function name; `NamesAssumption` is what
docs/user-guide.md:959 asks of applications.

### FormEngine

Builder calls of a page's `Init` in any order, then `Render`. A form action is its id, its
trigger, the component its URL ends with and whether it is bound to the instance. `fields`
are the inputs of the form in the order they came, those of the default container (`main`)
and those of the containers after it; the fields of the default container are a Go slice with a
capacity (doubling, as for small slices). A handle is detached when an append moves them, and
what is set on it is lost. Inputs come from `Field` with a group of their own (`OwnInputs`),
from `Container`, from the typed builder calls without one, and from the literals `CreateForm`
and `SetForm` are given (`Literals`: several fields, containers and actions). `Access` stands for
all setters: each writes one field through the handle's pointer. `handlers` survive
`CreateForm`, as in the code, and each remembers the place of the input it was given for.
`EventGroup` is the access group `Routes` puts before the handler of a control: that of the first
input with the id. `given`, `heard`, `asked` and `missed` are history: the keys and triggers the
form was given actions and listeners for, and the group the page last gave each input, through a
handle that reached it or not. The loops over form actions are recursive functions on the number
of turns (`Upsert`, `Bound`), which is how the proofs go through them. `Inputs` is shared with
`FormRuntime`: an input is found by its id, the first one wins.

### FormRuntime

The events of one instance after `Render`, and the client. A handler gets controls by id
and type, sets them, adds and removes inputs, and may fail or panic; `Handle` answers with the
mutations, or with an error and without them, while the tree keeps what was done. `Add` of
anything that is not an input (a pointer to one, a container) records a mutation and leaves the
tree (`AddNode`). Fields added at run time are a slice of the root, so `Add` can move controls
away. A dialog's handler works with the controls and the context of an earlier event, which
nobody answers any more (`reporting`, `fresh`). The client applies the mutations of the answers
in the order they arrive, which need not be that of the events, and an answer may be lost. The
initial states are `RuntimeInit`, the specification `RuntimeSpec`. `excused` collects for each id
the reasons for which the client and the page may differ: `failed`, `unheard`, `moved`,
`removed`, `twice`, `node`, `lost`, `overtaken`. `ClientShowsTheDsl` says that there are no
others. Of `failed`, `moved`, `removed` and `overtaken` the documentation says otherwise, see the
findings.

### TableEngine

The builder calls of a table page's `Init`, then `Render`, `Routes` and `Execute`. Every
action, setting and handler is named by a mark, the number of the call that made it, so that
*which* handler runs and *which* access group guards it can be told. `ensureDSL` throws
away a schema without columns (`Ensured`); handlers survive a new table; actions in the
chain of `Column(...)` get no handler, those of `Columns(...)` do. A builder's
`enabledEvents` live as long as the builder, which is why the calls carry `chained`;
`dropped` are the events that a `Features` of another builder left out. A page may keep the
builder of a column: `builders` are the columns that such builders still reach, `elsewhere`
says whether others point to columns that were moved by a later `Column` or copied by
`Columns`, and `strays` what was set on those.

### DslResolver

`Apply` on a tree with access groups, visiting a node after its parent and the children in
any order (a Go map), with one decision per group kept for the walk; the authorizer's
permissions change meanwhile. `ShownFor` and `MarkFor` are the reference definition: what
the DSL should be for one set of groups, without a walk.

### AccessManifest, KeycloakSync

`AccessManifest` has the file, the release the commands are built from, and the people who
edit. A manifest's groups are a function of `Entry`: a code and whether the entry is the
page's own or a registered one, since `generate` appends the latter to the former and nothing
merges the two. `access generate` reads and merges, empties the file and fills it. A crash in
between leaves a file that does not parse, or one that does (`Cuts`): the sections up to some
point, with the last group, element, resource, permission or key torn. A torn group reads as
switched off and may lack its type; a torn element lacks its own; a torn name is `Torn` or
`Empty`. `history` is what the manifest has been told and must remember; after a cut it starts
anew from what the cut has left, but for the permission groups, of which `permitted` keeps what
people ever wrote. `Found` has the complaints of `Validate`, `Compare` is `Compare`.

`KeycloakSync` EXTENDS it with `access sync`, which starts from a manifest that `Validate`
accepts: each HTTP call is a step, which may fail, or take effect while its reply is lost;
either ends the job. Several jobs may run at once. Keycloak is the environment: names are
unique, a second POST is refused. The list is one step: nothing removes a resource or changes
whose it is, so fetching ids one by one sees the same.

### Sidebar, Bootstrap

`Sidebar` is the registry of nodes, the validation and building of the event, and the
publications, which overlap since no lock spans building and sending. `Bootstrap` EXTENDS
it with the life of a server process: declarations in any order, whose errors a setup
callback returns or ignores, batches of routes with roll-back, the checks before gin gets the
routes, publication, a port that is in use, and another try of `Bootstrap`. gin is
external: it cleans paths, and panics on one it has, on one it does not take beside another
(`Conflicting`: wildcards of two names, a catch-all beside anything) and on a method that is not
letters (`Unroutable`).

### Application

`Application.Execute`: a process is a server or an access command. The two share no state
(the server does not read the manifest), so `Application` runs either `Bootstrap` or the
access modules, and one run checks both. Its bounds are in `MCApplication`: a process that
only generates has all releases, edits and cuts; one that also syncs has manifests of groups
and cuts between them (`MCNext`).

## 3. Checks

Twelve runs, two of which expect a violation.

| Run | Bounds | Distinct states | Shows |
|---|---|---|---|
| `instances_safety` | 2 requests, 2 ids, 2 owners, limit 1, TTL 1, clock to 3 | @instances_safety@ | limit, ownership, mutex held exactly until Release, no resurrection, reasons for closing, 404/410 only when due, 503 only when full, refinement of `InstanceLifecycle` |
| `instances_liveness` | 3 requests, 1 id, clock stopped | @instances_liveness@ | handlers never overlap, an admitted event ends |
| `foreign_event_gone` | 2 requests, 1 id, 2 owners | @foreign_event_gone@ | *violation*: see findings |
| `keycloak_decisions` | 2 queries, 2 questions of one fingerprint, TTL 1, clock to 1 | @keycloak_decisions@ | an answer is what Keycloak said of a question with that fingerprint, or a denial by mistake, less than the TTL ago |
| `jwks` | 2 verifications, 2 kids, TTL 1, timeout 0, clock to 1 | @jwks@ | a key in use was published less than TTL + timeout ago; a rotation heals |
| `callbacks` | 2 requests, 2 instances, 2 dialogs, 1 callback | @callbacks@ | the handler the client was shown, once, one at a time, never lost, with each exception that a confused request makes |
| `dialog_effects` | 1 request, 1 instance | @dialog_effects@ | *violation*: see findings |
| `form_build` | 2 controls, 2 types, 2 fields, 2 actions, 1 handle, 1 group | @form_build@ | bound URLs have handlers and no rivals, listeners are reachable under their trigger, a control's group guards its events |
| `form_runtime` | 2 ids, 2 types, 2 events of 3 calls | @form_runtime@ | the client shows what the page holds, but for eight named reasons |
| `table_pages` | 2 tables, 2 columns, 2 actions, 2 events, 4 calls | @table_pages@ | an action runs its own handler under its own group, nothing is lost but what is named, events are offered |
| `dsl_permissions` | 4 nodes, 2 groups, 3 behaviours, 1 change | @dsl_permissions@ | one set of permissions per delivered DSL, whatever the order |
| `application` | generating: 3 releases, 2 edits, 2 faults; with 2 jobs that sync: 2 releases, 1 edit, 1 fault; serving: 6 declarations, 2 bootstraps, 2 publishers | @application@ | manifest, sync, sidebar and bootstrap properties |

Why these bounds are enough to mean something. Two requests race on every pair of critical
sections; the third in `instances_liveness` is a second waiter behind a lock holder.
Two ids and a limit of one make a render sweep another's instance and be refused by it; a
clock two ticks beyond the TTL lets an instance expire between any two steps, lets
`now` be old when it is used and a last access go back. Two owners suffice because ownership is
only compared. Two queries let one store what the other reads or overtakes; two questions with one
fingerprint let one be answered what was said to the other. Two kids are an old and a new key; a
clock of one tick with a TTL of one lets a document expire, and with a timeout of 0 a fetch that
is overtaken by a tick is not stored. Two instances and two dialogs are enough to name one window and
the dialog of the other while an event of that other runs. Two form actions give one control a
generated and a second one; two fields make the slice move. Two events of three calls are a `Get`,
a change and a failure, and an answer that another overtakes. Four builder calls are a table, its
columns, a kept builder that a further column leaves behind, and what is set on it. Three
releases make a group and a binding go and come back; two faults cut a write and the
generation after it, and two jobs let one find what the other did. Groups only, in a manifest to
sync, lose nothing: `sync` reads nothing else of it. Six declarations are a page, a group, nodes
and two batches of routes with one to spare. Symmetry is used in the safety runs over values
that are only compared, never in the liveness runs.

Deadlock is checked in the `instances_*`, `keycloak_decisions`, `jwks`, `callbacks` and
violation runs. The others end: `Render` ends a build, the events and edits of a run are
bounded, a process returns or panics.

### Fairness

* `PageInstances.FairSpec`: weak fairness for a goroutine's next step once it holds the
  instance (authorizers and handlers return, which the SDK asks of the application), strong
  fairness for `Lock`: a Go mutex switches to starvation mode and hands over to a waiter
  that has waited for a millisecond, so a waiter is not overtaken for ever. Nothing is assumed of
  clients or of requests that arrive. The clock stands still in that run: time only adds
  expiries, which end requests earlier, and the property is about contention.
* `JwksCache.FairSpec`: weak fairness for each verification's next step: the HTTP client's
  timeout ends a fetch that is not answered. Nothing is assumed of the realm.

### Findings

Where the code and its documentation disagree; `PROJECT.json` quotes the lines. Two runs expect a
violation. Elsewhere the property holds with an exception that is named in it, and without the
exception TLC finds the run in error.

* `foreign_event_gone`: `Acquire` compares the TTL before page and owner, so another
  principal's event on an expired instance gets 410, not 404, and removes it.
* `dialog_effects`: what a dialog's handler records is not in the answer to the dialog.
* `ClosedByOwnerOrIdle`: the time a request read before it waited for the manager's lock is stored as
  last access, also when a later one is there, so an instance can be closed although it was
  used less than the TTL ago (`SetBack`).
* `PageSerialized`: a request that names one window and the dialog of another runs the
  other window's handler under the wrong mutex, beside an event of that window. That window cannot
  answer the dialog any more: `NoHandlerLost` says only that no handler is taken without being run.
  No URL the client was given leads there.
* `TriggerRunsItsListener`: `OnClick` and `OnChange` of one control overwrite
  each other's handler; the bound action can be the other trigger's. The property excepts controls
  given both triggers. The action of the second trigger, like that of a
  button without a listener, keeps the `{page}` placeholder in its URL.
* `AccessInForce`: a control returned by the builder loses its connection to the
  DSL when a later field moves the slice; an access group set on it then is lost (`missed`).
* `AccessInForce`: a listener given in a form that `CreateForm` replaced stays. If the new form has an
  action for its URL, it runs under the group of another input with that id, or under none. So does a listener of an input in
  a second container, if the default one has an input of its id.
* `NothingLost`: title, actions or data of a `CreateTable` without columns are lost
  at the next call (`bare`).
* `NothingLost`: what is set on a column builder after a later column moved the columns is lost,
  its access group too (`strays`).
* `EventsOffered`: `Features` of one builder switches off the events that were registered on
  another, which docs/user-guide.md:1250 says are switched on by registering them (`dropped`).
* `ClientShowsTheDsl`, four times: a handler that fails has changed the tree and its mutations are not
  sent (`failed`); a control obtained before `Add` moved the fields is accepted and written to the
  old array (`moved`); a removed control stays in the page's tree and can be set (`removed`);
  answers carry no number, so the older value can be applied last (`overtaken`).
* `NothingForgotten`: a write of the manifest that is cut short leaves a beginning that parses; the
  next generation succeeds without the permission groups that people wrote.

What the models show besides, without a document that says otherwise:

* A prefix of the manifest that holds only some of the groups parses and validates; a sync from it
  deprecates the rest. A group that was cut inside reads as switched off and stays so, and an
  element that lost its type keeps none, whatever is generated later (access.go:648).
* A group listed with elements keeps those for ever, whatever the DSL binds to it later;
  docs/user-guide.md:221 says that elements come from the DSL.
* A page's own group that is registered once more is listed twice, and `validate` refuses the
  manifest (`Found`, "duplicate group").
* A 403 of a proxy, and JSON without `result`, are kept as denials for the TTL; two tokens with the same
  first and last eight characters share the decisions of one user.
* A group keeps its parent when a release drops that parent; `validate` and `sync` then refuse
  the manifest until somebody edits it. A permission with a wildcard is refused as soon as one
  of the keys it matches is stale.
* A resource or group that leaves a release and returns comes back without its description or its
  switch.
* A resource of others with the name of a group makes every `sync` fail with 409. Groups that are
  switched off are skipped: neither updated nor deprecated.
* A node registered while the server runs is accepted, and makes every later refresh fail.
* `RegisterRoute` compares paths as they are written, gin as they are cleaned and by their
  wildcards: two spellings of one path, or of a page's, `/x/:id` beside `/x/:name`, a catch-all, and a
  method that is not letters are accepted and panic in `Bootstrap`. Calling `Bootstrap` again after a publisher
  failed panics too.

## 4. Proofs

`*_proofs` modules hold theorems for all values of the constants under the named
assumptions of the modules. Every safety invariant and action property that a passing run
checks is the subject of a theorem. Each proof joins to the property the facts that make it
inductive; TLC checked those as invariants before they were proved.

**PageInstances_proofs.** The inductive invariant `IInv` joins to the type invariant and the
properties: `instances ⊆ Known` (what is in the map was created), `StampsPast` (a local
`now` and a last access are never in the future), `RequestShape` (a request past a given
point has the operation and id that led there, and its key matched), `DistinctNewIds` (two
renders under way have different ids). `LimitRespected` and `MutexHeldByHandlers` are
part of it; `Serialized` follows from the mutex discipline, since a mutex has one holder.
`OnlyOwnerAdmitted` needs `RequestShape`, because the instance's key is compared once, in
`Acquired`, and used later. `ClosedByOwnerOrIdle` needs `StampsPast`: an instance expired at an
old `now` is expired by the clock as well, unless a late stamp set its last access back
(`SetBack`, which the property names). `FullWhenBusy` and `OwnInstanceServed` are about
statuses, so they need `Unanswered`: a request under way has no status yet, and the one it gets is
of the step that gives it. `Implementation` shows every step of
`PageInstances` to be a step of `InstanceLifecycle` or a stutter, one lemma per kind of
step (`MappedAdd`, `MappedAcquired`, `MappedLock`, `MappedRelease`, `MappedRestart`,
`MappedClosing`).

**AccessCache_proofs.** `CacheInv` says of every entry that its value was said of a question with its
key (`SaidSince`), by the source or by mistake, later than `expiresAt - TTL` (`EntriesAge`), and of
every query that an answer not yet stored was said when the query began or later (`AnswersAge`);
`HistoryPast` keeps what was said in the past. Counting the entry's life from *before* the source was
asked is what makes `Store` preserve it; `BoundedStaleness` is then a step away. The module
is also about `KeycloakAuthorizer`, which EXTENDS the cache. `DecisionFaithful`: what
`requestDecision` makes of a response is the true decision, an error, or a denial by mistake,
never a grant by mistake. With it every step of `UMANext` is one of `AccessCache` or an answer without a decision, and
`DecisionsRecent` follows. Its hypothesis, `DecisionsAssumption`, says that the values are Booleans
and that only denials are mistaken.

**JwksCache_proofs.** `KeysInv` says that the kept keys expire at most TTL from now and were
published Timeout + TTL before that or later (`KeptRecently`), that a received document was
published when it was asked for or later, and that a verification that reads the keys again finds
them fresh (`FetchedRecently`): since the expiry only moves forward, it does not matter whose
document was stored last. `KeysRecent` is `KeyRecentlyPublished`.

**Callbacks_proofs.** The state is that of the registries and of `InstanceLifecycle`, so a step is
one of each, and `IInv` joins the types of both. `LinksAnswerable`: whoever follows a link that can
still be followed finds the handler it was shown, or finds that the dialog was answered.
`DialogsFresh`: a registered dialog has a number given since the restart, and a handler that has not
run and is registered once; this is why an id that is given again after a restart meets no old
URL, whose instance is gone. `HandlersPlaced`: a callback is kept under the instance and name of its
handler, a dialog's handler belongs to an instance that was born. `RequestsRun`: a request that executes
is the instance's running one, and what it runs is what its parts led to, which need not be
one window.

**DslResolver_proofs.** `WalkInv`: a node is visited after its parent, which was kept
(`ParentsKept`); every answer kept was true at some time of the walk (`AnswersSeen`); a visited node is
as the kept answer about its group has it (`NodesResolved`). When nothing is left to visit, the
answers make one set of groups, and the nodes reached are those of the reference definition. That is an
induction along the tree, for any forest that hangs on the root.

**TableEngine_proofs.** `EntriesOwn` carries the rest: before `Render` an action has no URL, and its
handler is nowhere but under the action's own key. Marks are of calls made before
(`HandlersPast`), so a new action's is new. `BuildersInPlace`: a builder that still reaches its column
points into the schema as it is. `ColumnlessEmpty` says what `ensureDSL` may throw away, `OfferedHandled` which events are offered. After `Render`, `UrlsBound` and
`FirstBound` say which of several actions of an id has the URL. `OwnHandlerRuns` and
`RouteHasTheElementsGroup` follow from these, since the search for the access group goes through the lists
in the order the binding does.

**FormEngine_proofs, builder.** The loops are shown by induction on their turns: a set of
naturals has a least element (`Least`, from the theorem that proper subsets of finite sets
are well-founded), so a property of
the start that each turn keeps holds of the result. `BindInv` is that property for
`bindFormActionRoutes`: the result is made of the actions before, no bound action has a
rival, and each key done that has a handler and an action is reached. The invariant of Init's calls
is `HandlesFit` (an attached handle is of the first control with its id), `ListenersFit` (what a listener
remembers is the place of such an input, too), `AskedKept` (the group last asked for is on
that input, unless it was asked through a detached handle), `HeardKept` (a key that was given a
listener has one, of a trigger it was given one for), `ActionsGiven` and `GivenActions` (the actions
there are those given). `Delivered` is what `Render` makes of these.

**FormEngine_proofs, events.** `RuntimeInv` states where the client and the page differ while
something is on its way: for an id that is not excused, the mutations of the answers not
yet received and of the running handler, in the order of their events, lead from the label
the client shows to that of the DSL (`Leads`). `UpdateLeads` and `AddLeads` lengthen
that way when a handler records a mutation (a node that `Add` records without placing it is excused); `AnswerLeads`, by induction over the mutations of an
answer (`AppliedTells`), shortens it at its beginning when the client applies them, since an id with
answers overtaken is excused. `ControlsPlaced` says that a control points to the first input
with its id or was moved away, `AnswersNumbered` that answers are told apart by their
events, `TouchedRecorded` that a failing handler's mutations are excused. With nothing on its
way, `ClientShowsTheDsl` is what `Leads` says of no mutations.

**Application_proofs.** One invariant per part, joined in `AppInv`. `ManifestInv`: the file,
and what is being written, keep what the history remembers (`Kept`), name no key as active and
stale at once (`Sound`), and a generated manifest is of its release (`Current`); while no write was cut
short they are also free of torn names (`Clean`). `SyncInv`: what a job is to put, list or deprecate are access groups, to
deprecate only ones its manifest does not list (`Noted`), and what a job that runs alone has
gone past is in Keycloak (`Progress`). `RoutesInv`: the routes kept
are those reported (`RoutesKept`), gin has those of a process that was routed (`BootOrder`), and a
panic has one of the reasons named (`PanicExplained`). `SidebarInv`: every event offered
was built from registered nodes, and all offered events are equal. For the last, `NoNewNodes`: an event is built
only if every node a page is attached to is registered, so none is attached to a later node; each would need a child as
new as itself, and a finite set of such nodes holds a cycle, which `validateAcyclic` refuses (a pigeonhole
argument over a finite set).

What the theorems assume of the constants:

* As the code makes them: `TTL` and `MaxInstances` positive (the constructors replace other
  values); `Ids` finite; `TablesAssumption` and `NamesAssumption` of `TableEngine` (the names of events,
  of lists of actions and of columns are different words); `ButtonAssumption` (there are buttons); `KeysAssumption`
  (`eventKeys` sorts the keys, so there is an order of all of them); `TreeAssumption` and
  `RootedAssumption` (a DSL is decoded from JSON, a tree).
* As their types have them: `ReleasesAssumption`, `BatchesAssumption`, `RouteBatchesAssumption`,
  `FormsAssumption`, `LiteralsAssumption`, `PermissionGroupsAssumption`, `CacheKeyAssumption`,
  `MistakesAssumption`, `DecisionsAssumption`; the bounds (`MaxTime`, `MaxCalls`, `MaxShown`,
  `MaxFields`) are any natural numbers.
* Values that stand for nothing (`None`, `Nil`) are none of the values they stand beside:
  `NoneAssumption`, `NilAssumption`, `NoEntryAssumption`, `NoHandlerAssumption`, `NoRequestAssumption`,
  `NoListenerAssumption`, `TornAssumption`.
* As docs/user-guide.md:959 asks of applications: `NamesAssumption` of `Callbacks`.

Model-checked only: `AdmittedEventEnds` and `RotationHeals`, since liveness under fairness is beyond
the prover, and the two properties of the violation runs, which the code does not have.

## 5. Not modelled, and what is left

Not modelled:

* JSON, YAML and HTTP encoding, wording, layout, signatures and claims (a choice between
  accepted and rejected), the example pages and program, type declarations.
* Logging: lines for people that nothing reads back. Its two races (a request number added and
  then loaded, a file created by two requests) are listed as hazards.
* The unbounded growth of the caches and registries: noted as a hazard.
* Nested containers and the component registry of `FormEngine`; the form state of a request;
  `table/runtime.go`, which records what a table's handler tells the client.
* A page whose `Init` depends on the request: routes and access groups of events come from a
  sample page with an empty context. The models run the same `Init` for both. That code is the
  application's, and nothing in the SDK constrains it.
* `Diff` of Keycloak and the commands that only print.
* In `TableEngine`: a builder of a column that is given to `Columns` a second time. `OwnHandlerRuns` does
  not speak of actions of one id in different lists or columns, which share a URL;
  `RouteHasTheElementsGroup` does.
* In `AccessManifest`: a cut that leaves a name which is another item's; permission groups of one code
  twice; switching a group on again. A group whose own code is cut is dropped by the
  next generation. No property is about the elements of a group.
* `KeycloakSync` reads each group once, so it starts from a manifest `Validate` accepts, which has no
  duplicates.
* In `Bootstrap`: routes of a page that clash among themselves.

What is left: the composition of `Callbacks` with `PageInstances` itself, which rests here on
the refinement of `InstanceLifecycle` and is not stated as one theorem; nested containers of a
form, and what a table's handler tells the client.
