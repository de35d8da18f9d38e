# A verification project for Powerful

Powerful is a traffic generator for trying out service meshes: a Java service
that executes an *instruction* (call the next hop so many times, with so many
threads, collect the answers in such a way), a web front end to edit instructions
and cases, and a helm operator, a fork of operator-sdk v0.17, that deploys the
service from a custom resource (CR) of kind `Powerful`. This directory holds TLA+
models of the parts whose correctness depends on interleaving, failure and order,
TLC configurations, and TLAPS proofs.

## 1. Inventory

| Component | State | Operations | What is hard | Modelled |
|---|---|---|---|---|
| Execution engine (`PowerfulService`, `Instruction`, `RenderingContext`) | the thread pool; per request: instruction, trace node of the next hop, futures, result stream, one response slot per thread | `execute`, `executeForTimes`, `executeSingle`, `processLoop`, `call` | threads of one request share a node that every iteration rewrites; the pool is shared, bounded and has no queue; failing iterations, targets, templates and collections, rejected subtasks | `PowerfulService` |
| Template renderer (`StringRenderer`) | none | `render` | can fail, inside the `try` and outside of it, and can render to nothing | what it makes of a target, a template and the response headers |
| Remote invokers (`Http-`, `Dubbo-`, `GrpcRemoteInvoker`, `GrpcClientInterceptor`) | caches of channels, a header map | `invoke` | a header map shared by concurrent gRPC calls | as one step of the engine |
| Entry points, cases, validator, wiring | saved cases, static resources | REST, Dubbo and gRPC handlers | concurrent edits of cases | no |
| Leader election (`pkg/leader`) | the lock ConfigMap, the pods | `Become` | crashes, lost answers, eviction, reused names, garbage collection | `Leader` |
| Helm reconciler (`pkg/helm/controller/reconcile.go`) | CR, cache, work queue | `Reconcile` | stale cache, conflicts, crashes between two writes, deletion at any time | `HelmReconciler` |
| Release manager (`pkg/helm/release`) | helm's storage, the release's resources | `Sync`, `InstallRelease`, `UpdateRelease`, `ReconcileRelease`, `UninstallRelease` | operations of several writes that fail or stop half way, and their undoing | `HelmReconciler` |
| CR status (`pkg/helm/internal/types`) | conditions, summary, release | `SetCondition`, `RemoveCondition` | the summary is refreshed on some paths only | `HelmAppStatus` |
| Watches (`controller.go`, `watches.go`, `predicates.go`) | the watch table | `Add`, `watchDependentResources` | check and set under different locks | delivery only |
| Istio extension (`qz_ext.go`) | labels and values of the CR, labels of the namespace | `setupNamespaceAndIstioEnv`, `withoutIstioEnv` | the object that is written is not the one that was read | `IstioEnv` |
| Case editor (`powerful-front/src/App.tsx`, `data.ts`, `SaveTools.tsx`, `yaml.ts`) | a case as form and as text, the console, the list of cases, requests in flight; saved cases in localStorage | edit, load, submit, save, show, copy, clear | late and reordered answers, two copies of one case, unfinished rows, several tabs | `CaseData`, `App`, `CaseStore` |
| Service worker (`registerServiceWorker.js`, `index.tsx`, `static/service-worker.js`) | the browser's registration, pages under its control | `register`, `registerValidSW`, `checkValidServiceWorker`, `unregister` | the script that removes a worker is served by it; reloads; outages | `ServiceWorker` |
| Array layout, clipboard, chart, images, the other parts of operator-sdk | | | | no |

Interactions. An entry point calls `execute` in a thread of the web container;
`execute` runs iterations in that thread or in the pool and calls the next
instance through an invoker, which is another instance's entry point. `run.go` of
the operator calls `Become` and starts the controllers when it returns. A
controller reads the CR from a cache, calls the release manager, and writes the
CR. The case editor asks an instance's server for cases and has it execute one
(`/caseList`, `/c/`, `/e`), within the scope of the page's address; its tabs share
localStorage and one service worker registration. What is correct:

* engine: every iteration happens exactly once, results are those of their own
  request and iteration, an error stays within its iteration, requests end and
  the pool drains;
* leader: at most one pod leads, and a leader is replaced when it is gone;
* operator: no edit is lost, a release is uninstalled with its CR, the cluster,
  the namespace and the status converge to the spec;
* case editor: form and text are the same case, what is executed is validated as it
  says and reaches the server with its scope, the console keeps up with the answers,
  a save loses no case that nobody else touches;
* service worker: users come to see what is deployed.

`PROJECT.json` lists the hazards at their lines and the properties aimed at each.

## 2. Modules

### PowerfulService (engine)

One action per step that another thread can observe. A request `r` is also its
web thread; `Runners` are web threads and pool workers. `Execute`, `Submit`,
`Reject`, `Submitted`, `Collect`, `Collected` are the web thread in `execute` and
`executeForTimes`; `Begin`, `CheckCall`, `StripCall`, `StoreStripped`, `StoreBy`,
`Lookup`, `RenderCall`, `StoreRendered`, `CheckTarget`, `Invoke`, `RenderResult`,
`Finish` are a runner in `executeSingle` and `call`, where each read and each write of
the shared node is a step of its own. `Poll`, `Expire` and `Candidates` are
`ThreadPoolExecutor` with a `SynchronousQueue` (external): a task goes to a new
core thread, to a polling thread, to a new thread, or is rejected.

Abstractions: a target is one of five classes (with the prefix `dubbo://`, a
template, rendered, cut once too often, empty), because that is what `call` tells
apart. Rendering a template gives the target, nothing, or an exception, whichever of
the instruction's `renders` it is (`Rendered`); an exception is caught in `call`, and
after an empty target nothing is invoked and the slot keeps what was in it. Header
propagation, the test method, delays and `errorByPercent` are one step whose outcome,
"ok" or "throw", is chosen per iteration from the instruction's `prep`. The values
that `collectBy` computes are left out; whether it consumes the stream (`Consumes`),
and what can fail once the stream is consumed (no `collectBy` at all, the finisher of
a `stat_` that is not a number, a response header that cannot be rendered), is kept
(`Returns`, `Outcome`).

`FreshResult` speaks of the iterations that invoked their target, and of all those of
an instruction whose target never renders to nothing (`Calling`). An iteration whose
target comes out empty shows what its thread's slot holds: the answer of an earlier
iteration of the same request. `ErrorsAbsorbed` speaks of instructions whose own
template, `collectBy` and response headers can be evaluated; whatever an iteration
does then, the rendering of its target included, stays in it.

`PowerfulServiceInvariants` states what the proofs about the engine need beyond the
properties: `WorkInv`, which TLC checks as well, and `CallInv`, `ResponseInv`,
`FailureInv`, `AcceptedInv` and `RoundsInv`, each behind the property named in its
comment.

### Leader

`Become` of every pod: read the own pod, look for the lock, create it, on
`AlreadyExists` look at the owner *that was read at the start*, delete it when it
is evicted, wait, try again. A pod is one UID; `NameOf` maps it to its name, so
that reuse of a name is an instance. Failed calls, lost answers of `Create`,
crashes and restarts of the container are bounded by `MaxFaults`. The API server,
the kubelet and the garbage collector are external. Assumed of them: an object
reads "evicted", or disappears, only after its containers have stopped; a request
takes effect while its sender waits for it or not at all. Not modelled: running
outside a cluster (no election), and locks made by something else.

`LeaderForLife` is what `doc.go` promises, without the lock's mechanics: a holder
of the lead, pods that act as the leader, and a lead that is free again only when
the holder's pod is gone. `LeadsForLife` maps the lock's owner to the holder and the
pods that have returned from `Become` to those that act.

### HelmAppStatus, IstioEnv, HelmReconciler

`HelmAppStatus` has the status functions exactly: the summary is refreshed when a
condition is *added* by `SetCondition` and when there was *nothing to remove* for
`RemoveCondition`. Messages and times are left out.

`IstioEnv` has what a release is made of (`Contents`): the chart's values, of which
two are told apart, `istioEnv` and `revision`, and the two labels that are copied to
them. `SetupIstioEnv` completes labels and values whenever Reconcile reads the CR,
`WithoutIstioEnv` is what is written, and `RestoreIstioEnv` is what becomes of the
server's answer. `Manifest` is what the chart renders from the completed values.

`HelmReconciler` has one CR name and one worker for it (the work queue never hands
a key to two workers). The CR is created, edited, deleted and created again with a
new UID; versions reach the cache one by one. `Reconcile`, `NewManager`, `Sync`,
... are the steps of one reconciliation, in the order of the code; `need` says
which branch it is on ("undo" is the rollback of an update), `rel` is the release
that `Sync` loaded. Instead of resource versions `fresh` says whether Reconcile's copy
is what the server has. Helm's operations are the writes that a failure or a crash can
separate: record a pending release, apply the manifest, mark the old release as
superseded, mark the new one as deployed; a rollback does the same once more.
`Sync`'s cleanup deletes version by version (`RemoveStale`), an uninstallation the
oldest record first.

Each of these steps may fail (`FaultStep`), in the way the code sees it:

* the last record of an installation fails: helm only logs it, and Reconcile goes on
  to add its finalizer over a pending release; that of an update fails: the release
  is rolled back, the old one being superseded already (`PromoteFails`);
* superseding the old record fails: helm only logs it, and two records are deployed
  (`SupersedeFails`);
* an installation fails and is uninstalled, an update fails and is rolled back, and
  the undoing may fail too (`ApplyFails`, `UninstallFailedFails`, `RollbackFails`);
* a call takes effect and its answer is lost;
* the operator crashes, which leaves what `CutOff` says of the resources.

Resources are those of a manifest, or `Mixed`: half applied, or changed by somebody.
`stray` says that there are some that a deployed release does not know; helm does
not update over those and does not delete them with the release.

Helm v3.1 (`go.mod`) is external; used of it: it does not install over existing
resources and returns no release then, and does not say which of several deployed
records it loads. Assumed of the CR: no finalizers of others, a status subresource,
and a namespace of its own name (`setupNamespaceAndIstioEnv` sets that namespace on
its copy). Left out: the force annotation, events, diffs, override values, the list of
`Apps`, the conversion of v2 releases. A write of the CR that took effect although
its answer was lost is a crash right after it.

### CaseData, App, CaseStore (case editor)

`CaseData` has the conversions of `data.ts` between the two shapes of a case:
headers and queries are objects when posted and in the text, and arrays of rows in
the form. A header is a function on names, an array a sequence of rows; values are
words, values without a length (numbers), or empty. Of the rest of a case the page
looks at three things, which are kept: the expectation, the property `validate` and
the template. A text is identified with the case it yields, or with the way it
yields none. An address is a sequence of pieces, and so are a name and the value of a
parameter, in which `?`, `&` and `#` are pieces of their own: `ScopedUri` appends the
scope after a `?` or a `&`, whichever the address asks for, and `PathIs` and `HasParam`
say what a server finds in the part the browser sends.

`App` is one tab. React runs a handler, renders and runs the effects of the
rendering before the next event, so each handler and each answer is one action with
its effects: `SetDisplayData` is `setDisplayData`, the effect that writes the text
unless it has the focus, and the `onChange` of JsonForms that follows, which deletes
an empty template from the form's object after the text has been written. Answers
(`AnswerCaseList`, `AnswerCase`, `AnswerExec`) come in any order and may be errors; the
server answers with the case whose name it finds in the path. `saveToCache` reads
localStorage (`SaveToCache`) and writes it (`FinishSave`) in two steps: nothing else of
the tab happens in between, but other tabs (`OtherTab`, `OtherTabFinishes`) save and
clear, in two steps as well.
`Reload` also happens when Enter is pressed in the name field: `SaveTools` renders
an HTML form with one field and no submit button, which browsers submit to the
page's own address without its query string. JsonForms, js-yaml and jQuery are taken
to do what they say.

`Stored` is what `saveToCache` leaves in localStorage: what it read, with one case
replaced or added.
`CaseStore` is the abstract specification of saved cases, a map from names to cases
that every tab may save to, in a step that begins a save and one that ends it: it
stores the case being edited, and of the other names it can only bring back what they
were when it began. `SavesAreKept` says that `App` implements it.

What the page does not do, found while modelling and stated here since no document
of the repository says otherwise:

* a case that arrives while the text has the focus changes the form and not the text
  (`App.tsx:91`). `submit` then sends the old text, and validates it if the new form
  has an expectation. `TextAgreesWithForm` and `ValidatesWhatItSends` hold under
  `Unhurried`: nobody types while a case is on its way;
* the name of a case goes into the address as it is (`App.tsx:99`). A name with a `#`
  loses what follows it, the scope included, and one with a `?` asks for another case.
  `RequestsScoped` leaves out the former, and of the latter says only that the scope
  arrives;
* "loading..." stays when the text does not parse (`App.tsx:109-111`), so
  `LoadingEnds` is about executions that were asked for;
* the answer of an earlier execution may replace that of a later one (`data.ts:75`);
  `ConsoleKeepsUp` is about behaviours in which answers come in order (`InOrder`):
  however many are awaited, the console then shows the latest there is;
* a save undoes what another tab saved or cleared between its reading and its writing
  (`SaveTools.tsx:24-27`), and no more than that;
* a case that arrives late replaces what the user has edited since he asked for it;
* "Successfully copied to clipboard." is shown whatever happened.

### ServiceWorker

Releases are deployed one after the other; each registers a worker or calls
`unregister`, as this one does, and is built with a `service-worker.js` or without
one. A tab's page goes through the steps of its release's script: `Load`,
`CheckValidServiceWorker` (on localhost), `RegisterValidSW`, `Unregister`, `Reload`.
The registration (installing, waiting and active worker, the update after a
navigation, which page a worker controls) is the browser's and external, as far as
the scripts depend on it; that `clientsClaim` takes over open pages and that
navigations are answered from the precache comes from `service-worker.js`. Its
message `SKIP_WAITING` has no sender. The page's console messages are left out.

`Settles(r)` is what the properties suppose: release `r` is the last one, all tabs
are closed at the same time now and then (a worker that waits takes over only then),
and the old registration can be replaced or found invalid: away from localhost, a
release without a worker that follows one with a worker never reaches users whose
worker is active, because their pages come from its precache.

## 3. Runs

| Run | Instance | Shows |
|---|---|---|
| `pool` | 2 requests, 2 pool threads (1 core), 3 iterations in 2 threads with random errors; 2 iterations in 3 threads | `WorkInv`, `ExactlyTimes`, `NoForeignResult`, `NoStragglers`, `RejectedOnlyWhenFull` |
| `straggler` | 2 requests that leave subtasks behind: broken template, unread stream, no `collectBy`, full pool | `RequestsEnd`, `PoolDrains` |
| `iteration` | 1 request, web thread or 2 threads, all steps of `call`, with and without prefix, template, target, known protocol, round robin, `collectBy`; targets that render to text, to nothing, or not at all | `TypeOK`, `FreshResult`, `ErrorsAbsorbed`, `CallIntact`, `RoundRobinBalanced` |
| `leader` | 3 pods with names of their own, 1 fault | `TypeOK`, `AtMostOneLeader`, `LeaderHoldsLock`, `LeadsForLife`, `SuccessorElected`, `SeenEvictedReplaced` |
| `leader_name_reuse` | a pod with the name of a deleted one | *violates* `AtMostOneLeader` |
| `leader_evicted` | 2 pods, no later one | *violates* `EvictedReplaced` |
| `helm_faults` | 2 CRs one after the other, 2 specs (one without labels, one labelled and refused), 1 edit or drift, 2 troubles | `TypeOK`, `ReportedIsGuarded`, `FinalizerOnlyWhenDeployed`, `NoLostEdit`, `FinalizerHonoured` |
| `helm_live` | 1 CR, 2 specs (one with both labels, one refused), 1 edit or drift, 2 troubles | `Converges`, `RefusalReported`, `DeletionEnds` |
| `helm_retry` | 1 CR, 1 spec, 1 trouble | *violates* `InstallRetried` |
| `helm_delete` | 1 CR, 1 spec, no trouble | *violates* `DeleteUninstalls` |
| `app_edit` | 1 tab and another, 3 cases on the server whose names have `&` and `?` in them, an address whose scope has a `?`, 2 names to save under, 2 texts, a form with repeated and unfinished rows; 5 steps of the users, 2 cases on their way, 2 executions | `TypeOK`, `RoundTrip`, `RequestsScoped`, `TextAgreesWithForm`, `ValidatesWhatItSends`, `ConsoleKeepsUp`, `LoadingEnds`, `SavesAreKept` |
| `sw_releases` | 2 tabs, 3 releases, on localhost and elsewhere, 1 outage, 1 user who does not wait | `TypeOK`, `NewReleaseIsSeen`, `UnregisteredForGood`, `ReloadsEnd` |

A trouble of the operator is a failing call, a record that cannot be written, or a
crash (`MaxTroubles`).

The bounds are the smallest at which the interesting cases happen: two requests
and a pool smaller than their demand (rejection, stragglers, a worker that serves
two requests); an uneven division and more threads than iterations; a leader, a
waiting pod and a newcomer; a CR and its successor of the same name, a refused
spec (which makes an update fail without spending a trouble), and two troubles, so that
an operation and its undoing fail, or a failure is followed by a crash; five steps of
the users, which are enough to go to the text, type a case, leave the text, submit and
save, to ask for two cases, edit and submit twice, or to save in two tabs, clear and
save again (`MaxSteps`), with two requests for cases and
two executions, so that answers overtake each other (`MaxPending`, `MaxExecs`); a
release that registers a worker, one that unregisters it and one without a worker,
in two tabs, so that one tab still runs the script of a release that the other has
left, and once (`MaxHurries`) a user who leaves a page before its script is done.
`RoundTrip` is evaluated over all cases of one hop with any of three values for each
of two names, a selection of those with three hops, and all arrays of up to two rows.

The four violations are disagreements of the code with what the repository says
of it, quoted in `PROJECT.json`:

* `leader_name_reuse`: a lock counts as one's own by *name*. A pod with the name
  of a deleted leader that starts before the garbage collector leads without a
  lock. With unique names (a Deployment) this cannot happen, and that is proved.
* `leader_evicted`: a waiting pod looks only at the owner it read at its start. A
  pod that started when there was no lock never notices that the leader is
  evicted. `SeenEvictedReplaced` is what holds.
* `helm_retry`: a crash between the creation of the resources and the record of
  the release, or a failing record, leaves resources over which helm never installs.
  `Converges` says what holds: the operator converges unless it is `Obstructed` in this
  way.
* `helm_delete`: the finalizer is added after the installation; a CR deleted in
  between leaves its release. `FinalizerHonoured` is what holds.

### Fairness

Threads of the engine are scheduled and every invocation ends (weak fairness per
web thread and per runner); nothing is assumed about the expiry of idle threads.
`Become` retries for ever with a bounded backoff, deleted pods are removed and
garbage is collected; nothing is assumed about the creation, eviction or deletion
of pods. In the operator the worker runs, versions reach the cache and garbage is
collected; users may stop at any time. A requeue by error or after the
reconciliation period is `queued = TRUE`, since the queue's rate limiter is bounded
and `run.go` sets a period. Faults, lost records and crashes are never fair and are
bounded.

In the case editor the browser answers every execution, if only with an error, and a
handler that has begun to save runs to its end; users need not do anything. In `ServiceWorker` scripts run, the browser looks for updates,
installs and activates, outages end, and each tab is used again and again; that tabs
are ever closed is a premise of two properties (`Settles`), not an assumption.

Deadlock is checked for the engine and the service worker. The cluster of the leader
model and the CR of the operator model may come to rest (no pods, no CR), and so may
the case editor once its users stop and everything is answered, so it is not checked
there.

## 4. Proofs

Eight modules hold proofs, checked to the last leaf for every value of the
constants that satisfies the named assumptions. Every invariant, action property and
refinement of the passing runs is a theorem.

**Engine** (`EngineAssumption`), in three modules that build on each other.

* `PowerfulServiceProofs`: `TypeCorrect`, `WorkInvariant`,
  `EveryIterationOnce` (`ExactlyTimes`), `ReturnLeavesNothingRunning`
  (`NoStragglers`). `ExactlyTimes` is not inductive: it speaks of a stream at its
  end. `WorkInv` says that a runner owns the pending future of its subtask and has
  produced as many results as its loop index says (`RunnersInv`), what each future
  says of its subtask's results (`SubtasksInv`), and that the stream is the
  concatenation of the results of the futures taken so far, with the results of
  subtask i starting at `Offset(r, i)` (`StreamInv`). `SplitTiles` is the
  arithmetic: the shares of the subtasks tile `0 .. times - 1`. The steps of a
  runner are classified (move, end, emit) so that each kind is treated once.
* `PowerfulServiceResultProofs`: `CallInvariant`, `OnlyTheTargetIsCalled`
  (`CallIntact`), `ResponseInvariant`, `ResultsAreOwn` (`NoForeignResult`),
  `ResultsAreFresh` (`FreshResult`), `FailuresAreAbsorbed` (`ErrorsAbsorbed`). For the
  first two, `CallInv` lists what a thread can find in the node that its siblings and its
  own earlier iterations rewrite: the original one, or one without the prefix and with
  the protocol, whose target is rendered, or not yet, or came out empty. It holds of
  the requests that are `Undisturbed`: in one thread, with the copies of `processLoop`,
  or without a prefix and with a target that does not render to nothing in one thread
  and to text in another, nobody sees the node half rewritten. With a prefix and
  several threads the code races, and nothing is claimed. `ResponseInv` says that a slot
  holds a response of its own request and, once the iteration has invoked its target or
  failed, of that iteration, although slots are never cleared; `SentInv` ties the
  invocations made to the iteration that made them, and `WorkInv` gives that no two
  threads have one subtask. `FailureInv` says that no future fails of a request with
  `times > 1` and a template that renders: whatever `call` meets is caught.
* `PowerfulServiceCountProofs`: `AcceptedInvariant`, `RejectsOnlyWhenFull`
  (`RejectedOnlyWhenFull`), `RoundsInvariant`, `LoopsAreBalanced`
  (`RoundRobinBalanced`). `AcceptedInv` says
  that the living threads have accepted subtasks of their own, no two the same;
  when all threads live, they inject into the accepted subtasks,
  which bounds their number from below. `RoundsInv` says that the stream holds the
  iterations of a subtask one after the other; a use of one value is then mapped to
  the nearest use of the other before it in its subtask, if there is one, and only the
  first round of each subtask may have none.

**Leader election**: `LeaderProofs` (`LeaderAssumption`, and `UniqueNames` as a
hypothesis): `TypeCorrect`, `OneLeader`, `LeadsWithLock`, and
`ImplementsLeaderForLife` (the refinement `LeadsForLife`). `LeaderHoldsLock` is
inductive as it stands, and at most one leads because there is one lock. For
the refinement each action is mapped to one of `LeaderForLife` or to none; a pod
takes the lead or acts only while its object is there, which `LeaderHoldsLock` gives.
`leader_name_reuse` shows that `UniqueNames` cannot be left out.

**Operator**: `HelmReconcilerProofs` (`HelmAssumption`, `IstioAssumption`):
`TypeCorrect`, `EditsAreKept` (`NoLostEdit`), `ReportsAreGuarded`
(`ReportedIsGuarded`), `FinalizerIsHonoured` (`FinalizerHonoured`),
`FinalizerMeansDeployed` (`FinalizerOnlyWhenDeployed`). All follow from one inductive
invariant (`OperatorInvariant`), whose parts are:

* `CopyInv`: the last version on its way to the cache is the server's, so that a copy
  that is `fresh` is what the server has but for what `SetupIstioEnv` makes of it
  (`Based`), and its labels and revision stay complete until they are written
  (`Completed`). `EditsAreKept` follows with `WrittenManifest`: what is written asks for
  the same release, because completing twice is completing once (`SetupTwice`).
* `LocalInv`: where Reconcile may report a release or update one, its copy has the
  finalizer.
* `AgeInv`: versions reach the cache CR after CR, and when the server's CR has a
  finalizer, Reconcile put it there, so that the cache and Reconcile have seen that CR.
  It excludes that Reconcile uninstalls on behalf of a deleted CR of the same name.
* `HistInv`: what each step knows of helm's storage (`Flow`): an installation begins with
  an empty one, a rollback follows two records, nothing is left where the finalizer is
  removed; and, as long as no record was lost, something is deployed where the
  finalizer is added (`Recorded`). It gives `FinalizerHonoured`, because a CR goes
  away only when its last finalizer does.
* `KeptInv`: under the finalizer the release stays deployed but between superseding the
  old record and marking the new one. It is `FinalizerOnlyWhenDeployed`, whose premise
  (no crash, no lost record) is needed: in `helm_faults` without it a pending release
  has the finalizer, and a rollback that fails leaves nothing deployed.
* `LiveInv`: the types of the rest.

**Case editor** (`AppAssumption`, and the assumptions of `CaseData`).

* `CaseDataProofs`: `FormKeepsCases` and `TextKeepsForms` for all names, values,
  numbers of hops and forms; `RoundTrip` evaluates them on samples. `ObjectComesBack`
  is the core: the rows of an object, in whatever order, yield the object again. The
  object of an array takes the last row of a name, which exists because the natural
  numbers are well founded (`WFMin`).
* `AppProofs`: `TypeCorrect`, `ConversionsRoundTrip`, `TextAndFormAgree`
  (`TextAgreesWithForm`), `SentIsValidated` (`ValidatesWhatItSends`),
  `ConsoleIsCurrent` (`ConsoleKeepsUp`), `RequestsAreScoped`, `SavesImplementStore`
  (the refinement `SavesAreKept`). Form and text agree by the round trip of whatever is
  shown. The properties under `Unhurried` or `InOrder`
  suppose this of the whole behaviour, so their invariants are inductive only for steps
  that satisfy the premise. For the console, `Current` says that all executions asked for
  after one that is awaited, or shown, are awaited; an answer in order takes the first
  of them away. For the scope, `ScopedUriIs` cuts an address into what was asked for,
  the splitter and the scope, and `ScopeArrives` and `ValidateArrives` find the
  parameters again in any such address. For the refinement, each action is mapped to one
  of `CaseStore` or to none (`BeginIs`, `EndIs`); what a save leaves is what it read but
  for one name.
* The assumptions are weak: `Undefined` is none of the objects or arrays of a case and
  none of the stores, an empty string is no word and no name, and the values in a
  page's query string do not contain `&` and `#`, which end a value there.

**Service worker**: `ServiceWorkerProofs` (`ServiceWorkerAssumption`): `TypeCorrect`,
which includes that the registration holds only releases that came with a worker and
that only the page of a release runs a script.

Only model-checked: liveness, since fairness and `ENABLED` are beyond the prover. These
are `RequestsEnd`, `PoolDrains`, `SuccessorElected`, `SeenEvictedReplaced`, `Converges`,
`RefusalReported`, `DeletionEnds`, `LoadingEnds`, `NewReleaseIsSeen`,
`UnregisteredForGood` and `ReloadsEnd`. The four violations are counterexamples of TLC.

## 5. Plan

Done: the engine, leader election, the reconciler with the release manager, the
status and the Istio extension, and the web front end; leader for life and the store of cases as abstract
specifications; the proofs of all invariants, action properties and refinements.
Next, in this order:

1. `ReleaseLifecycle`: an abstract specification of a release as its CR's user sees
   it (absent, installing, deployed, failed, uninstalling) that `HelmReconciler`
   implements, as a refinement with `INSTANCE ... WITH`.
2. `WatchTable`: `watchDependentResources` of several workers (read lock, check,
   write lock, set).
3. `ReleaseConversion`: v2 records turned into v3 records with a crash between
   creating and deleting.
4. `GrpcHeaders`: the header map that concurrent gRPC invocations share.
5. `CaseValidator` and the request cases as pure modules against a reference.
6. Proofs: the step simulation of 1, from `OperatorInv`; the invariants of 2 to 4.

Not planned: layout and clipboard of the front end, test methods (effects
on the machine), Spring wiring and class generation, charts and images, the ansible
operator, and the command line of operator-sdk, which are I/O, generated code or
not part of what Powerful runs.
