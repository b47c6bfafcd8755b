# Verification of mlflow-integration

TLA+ models, TLC runs and TLAPS proofs for the Kubernetes workspace provider
and the Kubernetes authorization plugin of this repository
(`mlflow_kubernetes_plugins/`). Every definition is a translation of the
Python source; `PROJECT.json` maps each to its lines. Paths below are relative
to the repository, `P/` stands for `mlflow_kubernetes_plugins/`.

## Running it

    tlc -workers 2 -config NamespaceCache.cfg MCNamespaceCache
    tlapm NamespaceCacheProofs.tla

`PROJECT.json` lists which `.cfg` goes with which MC module, what each property
is expected to do, and for each property a plausible mistake in the code (a
*mutant*, an operator defined just before the one it replaces) that breaks it.

## The system and its parts

An MLflow server process loads two plugins. The **workspace provider** maps
workspaces to Kubernetes namespaces and resolves where a workspace keeps its
artifacts. The **authorization plugin** sits in front of every request and asks
Kubernetes RBAC whether the caller may do what the request would do. A request
runs on its own thread or coroutine; each cache with a watch has one daemon
thread; nothing is persisted by the plugins and worker processes share nothing.

| component | state | operations | interacts with | what is hard | what makes it correct |
|---|---|---|---|---|---|
| `NamespaceCache` (`P/workspace_plugin/caches.py:73-297`) | `_namespaces`, `_resource_version`, ready and stop events | `_refresh_full`, `_run`, `_handle_event`, `list_namespaces`, `get_namespace`, `stop` | API server (LIST, WATCH), request threads through a lock | lost, late and error events, expired cursors, a stalled watch, a LIST that races writes | the snapshot is a complete revision, moves forward, converges; an existing namespace is never reported missing |
| `MlflowConfigCache` (`caches.py:300-630`) | `_configs`, `_resource_version`, `_crd_available`, retry, ready and stop events | the same, with `get_config`, `get_configs`, `_try_reload` | API server; creates the `SecretCache` through the provider | requests reload the snapshot beside the thread; the CRD and its permission come and go; part of a reload fails | default storage is chosen only when there is no config; updates are not undone; the thread is woken |
| `SecretCache` (`caches.py:639-879`) | `_secrets`, `_resource_version`, availability | `get_secret`, `_refresh_full`, `_run`, `_handle_event` | API server, provider | several callers create it at once, under a lock held over network I/O; a 403 disables it until its thread retries, as no request reloads it | one cache; the lock is let go; a bucket is one the namespace had; convergence |
| `KubernetesWorkspaceProvider` (`provider.py`) | the three caches, the lock of the lazy one | `list_workspaces`, `get_workspace`, `resolve_artifact_root`, `_validate_artifact_path`, `_ensure_secret_cache` | all three caches, MLflow's workspace store interface | double-checked creation under network I/O, a snapshot of configs used for a whole listing | an override never leaves its bucket; absent is not failed |
| `_ReadWriteLock` (`P/auth/authorizer.py:75-107`) | `_readers`, `_writer`, `_waiting_writers`, a condition variable | acquire and release, read and write | request threads | lost wake-ups, starvation | a writer is alone; nobody sleeps on a free lock |
| `_ExpiringCache` (`authorizer.py:143-190`) | `_entries` in insertion order with expiry | `get`, `set` | the lock, the clock | the gap between read and write lock, eviction | a hit is the latest answer and younger than the TTL |
| `KubernetesAuthorizer` (`authorizer.py:196-641`) | two such caches | `is_allowed`, `discover_collection_scope`, `accessible_workspaces`, `can_access_workspace` | API server (access reviews), pipeline | check, then act; answers older than the TTL | an answer was the review's within a known age |
| experiment caches (`P/auth/resource_names.py:84-173, 340-386, 1143-1185`) | experiment ID to name, name to ID with a generation, run to experiment | lookups, `resolve`, `update_experiment_name_cache`, `apply_response_cache_updates` | tracking store, middleware | a lookup that races a rename | after a rename, the new name is the one authorized |
| resource name parsers (rest of `resource_names.py`) | none | some fifty parsers, `resolve_resource_names` | request context, tracking store, registry, gateway store | optional and empty references | a resource that cannot be named is not authorized |
| authorization pipeline (`P/auth/core.py`) | none beyond the request | `_authorize_request_async` and its gateway checks | rules, parsers, filters, authorizer | several rules with awaits between; bodies read on demand; optional and stored dependencies; narrowing tried twice | every rule of an admitted request is satisfied by an answer to it, and so are the gateway resources it depends on |
| collection filters (`P/auth/collection_filters.py`) | none | one narrowing per policy | authorizer, parsers | query against body, spellings, empty lists, names that no filter can quote | only readable resources are asked for, all of those, and nothing that was not asked for |
| GraphQL (`P/auth/graphql.py`) | fixed field tables, the walk over one query | `extract_graphql_query_info`, `determine_graphql_rules`, `resolve` | pipeline | fragments, aliases, several root fields | every root field is checked |
| rule compiler, rules and tables (`compiler.py`, `rules*.py`) | compiled tables | `_compile_authorization_rules`, `_find_authorization_rules` | Flask and FastAPI routes | overlapping paths, prefixes, routes that MLflow adds | every served route has a rule, and its own |
| middleware (`P/auth/middleware.py`) | context variables | `create_app`, `dispatch`, rewrites, response filters | everything above | resets on every exit path | no context outlives its request |
| migration job (`charts/mlflow/scripts/db_migrate.py`) | the databases | `classify`, `migrate_store`, `main` | MLflow's migrations | run again after a kill | an unknown schema is not touched |
| Go API types, CRD, Helm chart, Dockerfile, CI | none | none | none | none | none |

## Modules

A module `XProofs` extends the module `X` it is about (`AuthorizerProofs` is
about `ReadWriteLock`, `ExpiringCache` and `Authorizer`, `StartupProofs` about
`RuleCompiler`, `GraphqlRules` and `Startup`); each `MC...` module gives it small
constants.

### Workspace provider

**`WatchedView`** is the abstract specification of a cache fed by a watch: a
collection goes through revisions, and the snapshot is the collection at one
revision, at first empty, replaced only by that of a later one.

**`NamespaceCache`** has the thread's position in `pc` (`refresh` and `store`
are before and after the LIST is evaluated, so writes fall in between;
`stream` is inside `watcher.stream`, `backoff` in the waits before the
`finally` clause), the snapshot, the cursor and the two events. The API server
is external: `hist[r]` is the label-selected collection at revision `r`, a
LIST answers with `hist[rev]`, a watch that starts at a cursor delivers the
changes after it in order. Errors, 410, EOF, bookmarks and stops can come at
any point of a stream. Requests record the revision at which they started.

**`MlflowConfigCache`** has the same server with an access switch (a 404 for
the missing CRD and a 403 have the same effect), the same thread with the
states its availability test adds, and one action per step of `get_config`:
reload LIST, store or denial, creation of the SecretCache, wake-up, the second
read of `_crd_available`, second read of the snapshot, live lookup. A call may
also be `get_configs`, followed for one of the names of the listing: it reads
the whole snapshot again after its reload where `get_config` looks up one
name. Reads the code makes without the lock are steps of their own. A namespace has at
most one MLflowConfig, because the CRD admits only the name `mlflow`. A watch
opened without a cursor replays what exists as ADDED events, each with the
version of its object, as the Kubernetes API does. A 404 or 403, of a LIST or of
the watch, is received in one step (`ListDenied`, `StreamDenied`) and applied in a
later one, when the lock is had (`StoreThreadDenial`, `StoreStreamDenial`,
`StoreRequestDenial`), by which time access may be back. Revisions are those
that change a config.

**`SecretCache`** is the third cache with its creation. A caller is a request
whose config names the Secret, or the config cache that only wants the cache to
exist. `_ensure_secret_cache` is three steps: the test without the lock, the
test under it, and a creation that lists, is refused or fails, starts the
thread, and publishes the cache. The watch thread is that of `MlflowConfigCache`
without anybody beside it, which is why reads that are unlocked in the code need
no steps of their own here. A Secret is a usable bucket or `Unusable`: without the
key, or with one that does not decode. The configs that need no Secret and the
path appended to the bucket are not in it.

### Access reviews

**`ReadWriteLock`** takes what a method does under the mutex, up to its end or
to a wait, as one step; `waitSet` holds the threads asleep, `notify_all`
empties it, and a thread that has left it tests again. **`ExpiringCache`**
extends it with the table and splits the bodies of `get` and `set` into steps
that other threads could see if the lock let them in: a set reads the clock,
pops one expired entry after the other, then the old entry of its key, then the
oldest entries while the table is full, and inserts.

**`Authorizer`** composes `ExpiringCache` with its callers: threads in
`is_allowed` look a question up, have it reviewed on a miss, and store the
answer, while grants change. `MaxReview` names the time from the evaluation of
a review to its storing. The code sets it no limit, so the bound on the age of
an answer that `ChangesTakeEffect` states is in terms of it. `Key` drops the name for verbs that have none, as
`_effective_resource_name_for_access_review` does.

### Authorization

**`RuleTable`** is the tables: every entry of `rules_base.py` and
`rules_skill_registry.py`, with the rule constructors and what a rule defaults to.
**`RuleCompiler`** is what `compiler.py` makes of them for the routes MLflow
registers, and how a request finds its rules and path parameters under a root
path and a static prefix. What the tables themselves must be like, their order
first of all, is stated there as assumptions, which TLC evaluates on the whole
tables; what compiling makes of them is in the properties. **`GraphqlRules`** is the validation of the field
table, the walk over a query with its explicit stack, one selection a step, the
rules merged from the root fields one by one, the decision with the objects that
name parsers find, and the resolver. A document is given by its
selection sets, so that fragments may be shared and circular; what a query
really selects is the least set closed under following it. Documents are valid
for MLflow's schema (`ValidDocument`), as graphene executes no others; types
matter as far as they tell the root, what a search for model versions returns,
and what else model versions can be selected from. Circular fragments are not
valid in GraphQL, but the walk guards against them, so they are allowed.
**`Startup`** composes the two as `create_app` does:
the tables, the validation of routes, that of the schema, and only then a
request.

**`AuthorizeRequest`** is `_authorize_request_async`: identify, find rules,
classify skill artifacts, scope the workspace, and then for each rule the steps
from the broad review to the gateway dependencies. The answers of Kubernetes
are chosen when they are asked for and kept in `granted`; the body is `unread`
until something reads it; what a parser finds is a choice of names, none, or no
answer. Its rules are all those of `RuleTable` and a few of the
form `GraphqlRules` produces.

**`CollectionFilters`** has the narrowing of each policy as a function from a
request to a narrowed request, a refusal or no decision. A resource stands for
its id, its name and its runs; a value of a field is a set of resources with a
shape. **`Dispatch`** takes one collection request through the middleware with
them: context, broad review, normalisation of scorers, first narrowing, the
second with the body, rewriting of the live request (where the encoding loses
an empty list), MLflow's handler, the response and the reset.

### Experiment caches

**`ExperimentCaches`** has the two module-level caches that depend on names,
the generation counter, and a tracking store with unique names. Lookups read
cache, store and cache again in separate steps; a rename or delete is committed
by its handler, clears the ID cache and refreshes or drops the name in three
steps, as the middleware does once the response is there. Expiry and eviction
are one action that removes any entry at any time, which covers both.

## What the runs show

Runs that pass:

| run | bounds | distinct states | shows |
|---|---|---|---|
| `namespace_cache` | 2 namespaces, one excluded; 2 descriptions; 1 request thread; 3 revisions | 383,052 | a cursor belongs to its snapshot; lookups are true; refinement of `WatchedView`; convergence |
| `mlflow_config_cache` | 1 namespace, 1 Secret-backed config, 1 request of either kind, 2 revisions, 3 changes of access | 646,840 | None has a cause; wake-ups arrive; only reloads mix revisions; the snapshot catches up and stays |
| `secret_cache` | 1 namespace, 1 bucket and the unusable Secret, 2 callers, 2 revisions, 1 change of access | 679,537 | one cache; true answers; the creation lock is let go; the cache repairs itself |
| `read_write_lock` | 4 threads | 934 | exclusion, no lost wake-up, writer preference, nobody starves |
| `authorizer` | 2 threads, 4 questions on 3 keys, capacity 2, TTL 2, clock to 3, 1 change of a grant | 4,289,662 | hits are the latest value and fresh; eviction; the reap keeps refreshed entries; a change of a grant takes effect in bounded time |
| `experiment_caches` | 2 experiments, 3 names, 2 threads, 3 writes | 301,397 | the ID cache is never stale beyond a clear under way; old names need a race |
| `startup` | all tables; a sample of the routes of each framework and 3 that MLflow may add; a root path and a static prefix; all queries of 2 root selections with shared, nested and circular fragments | 44,173 | every served route and every root field is checked, under its own rule; objects that a query names are reviewed; the walk ends |
| `authorize_request` | all rule sequences of the tables and those of GraphQL, 2 names | 50,194 | an admitted request is covered, its dependencies are usable, budgets stay in the workspace, bodies are read in time |
| `dispatch` | 2 resources, one that no filter can quote; 9 policies and the workspace list; every choice of fields in query and body; 7 callers | 2,349,297 | what is shown is readable, where the filter saw what the handler selects by, and was asked for; what is readable is kept; the context ends with the request |

Why the bounds are enough. In the watch caches the interesting races involve
one LIST or lookup in flight, one change it has seen and one it has not, so two
revisions after the empty state suffice, and the namespace run has a third to
make a change, its undoing and a late reader overlap. A config that appears
and disappears moves a snapshot as an edited one does, and one that needs the
Secret is the one with more steps; it also holds with a plain config beside it
(1,962,395 states; left out of the run for its length). Two callers suffice for
the double check: the lock lets one in, and the other is any number of them. One
change of access, from either beginning, gives a first LIST that is refused and
a refusal in mid-watch. Three names let a name pass from one experiment to another. A table of two
with three keys reaches eviction, and a TTL of two within four ticks reaches
expiry and refresh in either order. Four threads put two readers and two
writers on the lock at once. The tables are used whole, and rules are
independent of each other but for the body and the workspace, so two names tell
"some" from "all". Two resources tell what was asked from what may be read, and
the policies left out share their function with one that is in. The state of a
query is its fragments and fields: two selections reach a fragment from two
roots, from within itself, and from two operations.

Runs that are expected to fail, each a finding:

* `dispatch_sources`: a POST to search runs states one experiment in its query
  and another in its body. The policies that filter experiment ids narrow the
  query, find that enough, and leave the body unread; the handler takes its ids
  from the body and answers with an experiment the caller may not read.
  `ShownIsReadable` excepts these requests (`OnlyQueryWasSeen`) and no others:
  policies that read the body first are not concerned.
* `mlflow_config_denial`: a denial the thread received, of its LIST or of its
  watch, is applied between a
  request's successful reload and its second read of `_crd_available`; the
  request answers None, hence default storage, for a config that existed and
  was readable throughout. `NoneHasACause` shows what else can cause it: a
  denial met by the request itself, real absence, and for a listing an older
  LIST that was stored over the one it made.
* `experiment_name_race`: the name cache lacks the generation guard of the ID
  cache, so a lookup can put the old name back after the rename has refreshed
  it; until expiry the experiment is authorized under the old name.
  `OldNamesNeedARace` shows that nothing else does it.

Deadlock is checked in every run but `startup`, where a process that refuses
to start, and a request that has been answered, are ends.

Some things the models follow the code in, which a reader might not expect:

* Creating the `SecretCache` may raise after a reload has made the config
  cache available (`caches.py:481`); `_retry_event.set()` at line 417 is then
  skipped, and the thread sleeps out its timeout beside a cache that answers
  hits. `NoMissedWakeup` is checked where the LIST of Secrets succeeds.
* Explicit entries of the path table whose path has variables are appended
  behind the patterns derived from handlers, and the first pattern that matches
  wins; the comment at `compiler.py:142` reads as if explicit entries always
  did. Where `NestedTemplatesFirst` holds, as it does for today's tables, no handler
  matches a request for an entry and decides otherwise, and they do
  (`NestedRoutesWin`).
* A request lists while the config cache is unavailable; the thread's retry
  timeout comes first, it lists, watches and applies a newer event; then the
  request stores its older list, cursor included (`caches.py:476`). The stream
  does not repeat the lost change; the relist after the stream repairs it
  (`Converges`). `ThreadAloneMovesForward` confines this to reloads by
  requests; the thread's own LIST can undo a newer reload in the same way.
* Unprotected paths are told by prefixes that are not whole segments
  (`core.py:248`): `/healthz` needs no rule either.
* A rename granted on every experiment leaves its body unread; its response then
  drops every cached name, and a delete drops none (`resource_names.py:1169`,
  `RefreshName`). Neither leaves an old name behind that a lookup has not put there.
* A list of ids is looked for by its snake_case name alone where requests are not
  decoded as protobuf messages (`collection_filters.py:239-243`), and in an object
  alone: a request that spells it otherwise is denied, whatever may be read of it
  (the last conditions of `ReadableIsKept`).
* An exception that is not an `MlflowException` leaves the authorization past
  the reset of the workspace (`middleware.py:332`; the exception in
  `ContextEndsWithRequest`).
* A budget scope that is a JSON list cannot be hashed and raises a `TypeError`
  (`core.py:597`): the request ends in an error instead of a refusal.
* `get_configs` rereads the snapshot after its reload (`caches.py:368`), which
  an older LIST or event may have replaced by then: `overtaken` in
  `NoneHasACause`.
* An empty list has no place in a protobuf message: what MLflow's handlers select
  of a request that states one is what they select without it (`Missing` in
  `Dispatch`), except for the ids of a listing of scorers.

## Fairness

`NamespaceCache` and `MlflowConfigCache` assume weak fairness of the steps of
the daemon thread, which the scheduler runs; strong fairness of a successful
LIST, since a failing one is retried every two seconds and an outage is
assumed to end; and that a stream ends, which `timeout_seconds` at the server
and the read timeout at the client make true. For the config cache that is
strong fairness, because the thread leaves the stream's state to handle each
event, and the server's limit does not depend on how busy the stream is. The
retry sleep ends by its 300-second timeout. Nothing is assumed of the delivery
of events, of requests, or of the API server's writes: convergence rests on the
relists alone. `SecretCache` assumes the same of its thread and stream, and of a
caller that creates it that it goes on, as its LIST ends by
`CACHE_REQUEST_TIMEOUT`; nothing is assumed of callers that wait for the lock.

`ReadWriteLock` assumes that a holder releases (every use is a
`try`/`finally`) and that a woken thread runs again; nothing is assumed about
who runs first. `WalkEnds` assumes that the walk over a query, which is a plain
loop, takes its next step.

## What is proved

TLAPS checks these for every value of the constants under the named
assumptions of the modules. Most say that sentinels differ from values, that
bounds are numbers and that the set of threads is finite. Those with content:

* `RulesAssumption` of `AuthorizeRequest`: rules are rules, and a rule with an
  optional reference does not change a gateway resource. TLC evaluates it on
  the whole tables.
* `DispatchAssumption`: who may get every resource may get each by name, as
  RBAC has it, and a body that is neither an object nor a text has no fields.
* `SelectorAssumption` of `Dispatch`, used by `NarrowingIsTight` alone: searching
  traces by location is a POST, and a list where a filter string belongs is odd.
* `AuthorizerAssumption`: the keys of all questions are among the keys.
* `DocumentsAssumption` of `GraphqlRules`: queries are valid documents.
* `RoutesAssumption` and `RulesAssumption` of `RuleCompiler`: routes are finite lists
  of paths with methods, and no entry of a table is without rules.
* `UnprotectedAssumption` of `RuleCompiler`: no variable of a template begins like
  an unprotected path.
* `PrefixAssumption` of `RuleCompiler`: the static prefix is not the beginning of a
  route's own path, which stripping would then cut.
* `NestedTemplatesFirst` of `RuleCompiler`, used by `NestedWin` alone: in the path
  table, no template precedes a different one that it matches and that has other
  rules, and no handler's route or literal path does either. This is the order
  the authors of `rules_base.py` have to keep; a wrong order there fails the
  assumption in the run, a compilation or lookup that loses the order fails the
  property.
* `CustomTemplatesFirst` of `RuleCompiler`, used by `ParamsAgree` alone: a route
  without rules of its class is not matched by another template before its own
  entry in the path table, as its path parameters are registered ahead of the
  table's.
* `SecretsListable`, a hypothesis of `ThreadIsWoken` alone; without it the
  property is false (see above).

* **Namespace cache**: `TypeCorrect`, `CursorCorrect`, `LookupsCorrect`,
  `Refinement`. Cursor correctness is not inductive alone. The
  strengthening says where the open stream stands: while `pc = "stream"` the
  snapshot is that of revision `sent`, whatever the cursor; a held LIST is of a
  revision no older than the snapshot; and `asOf`, a history variable, is the
  revision of the snapshot always. The last is the witness with which each
  LIST and each event is a `CatchUp` of `WatchedView`.
* **Secret cache**: `SecretTypeCorrect`, `OneCacheOnly`, `AnswersCorrect`. That
  one cache is created is not inductive, as the test and the creation are far
  apart; `CreationInv` says that whoever is creating holds the lock, that
  nothing has been created before, until it publishes, and that a free lock
  without a published cache means that there is none. Answers rest on
  `SnapshotInv`, that the snapshot is of revision `asOf` and the cursor and the
  stream stand there, so that the next event is the next change;
  `CallsAreSound` is the justification of each answer at its moment.
* **Lock**: `LockTypeCorrect`, `CountersCorrect`, `WritersAreAlone`,
  `NoThreadLeftAsleep`, `WriterPreference`, from one invariant `LockInv`. The
  guards read only the counters, so it says the counters are the sizes of the
  sets of threads they stand for; `ThreadMoves` and `InSizes` do the set
  arithmetic once for all methods.
* **Access-review cache**: `CacheIsExclusive`, by the theorems about the lock,
  whose methods `get` and `set` call. Exclusion is what the
  contents rest on: `EvictionTakesTheOldest`, `HitsAreLatest` and
  `RefreshedAnswersStay`, from `CacheInv`. Its part `Table` says that each entry
  is the last set of its key and that insertion order is expiration order.
  `Holds` says at which steps a thread has which hold on the lock, and `Remembers`
  that a set which has read the clock read it after every entry was stored,
  which is why what it appends expires last. `PopKeepsTable` is the one lemma
  about sequences: the entries left by a pop are the others, in their order.
* **`is_allowed`**: `CallsUseTheCache`, that `Authorizer` implements the cache's
  specification, so all of the above holds under it; and `GrantsTakeEffect`. `GrantInv`
  follows an answer from the review to the table and to a hit: it is what
  Kubernetes would say now, or it was given no later than the last change of its
  grant, and then it is stored within `MaxReview` of that and hit within the TTL
  of being stored.
* **Config cache**: `ConfigTypeCorrect`, `ThreadMovesForward`, `ThreadIsWoken`,
  `AbsenceHasACause`. For the second, `CursorInv` says that the cursor is that of
  the snapshot except while a stream moves it, and that what the thread holds is
  not older than the snapshot unless a reload was stored beside it. For the last,
  `CallsAreSound` keeps for each call what it has met so far: without access, or
  beside a denial still to be applied, it is excused; so is one whose reload left
  the cache unavailable; and a name that a listing misses after its reload was
  absent during the call. `ReplayInv` says that a stream without a cursor replays
  objects that exist.
* **Experiment caches**: `ExperimentTypeCorrect`, `NoStaleIdCached`,
  `IdsResolveCurrently`, `OldNamesAreRaced`. The strengthening,
  `HeldIdsAreGuarded`, is about IDs on their way from the store to the cache: if
  such an ID has lost its name and its generation is still current, the clear of
  that rename is still to come.
  For names, `NameInv` says that as long as no write of an experiment raced
  another call, its cached name and the names on their way to the cache are the
  one it bears, or the write that will correct them is under way.
* **Authorization pipeline**: `AdmissionCorrect`, `DependenciesCorrect`,
  `BudgetsCorrect`, `ScopesCorrect`, for any rules, names and requests. A rule
  is decided over several steps, so the invariant has three parts: `RulesInv`
  says that the rules stay those that were found and are taken one by one;
  `CoverInv` that each rule passed is covered and its gateway dependencies were
  reviewed, and that the rule at hand is covered as soon as it counts as
  allowed; `BudgetInv` that a budget out of the workspace has ended the request.
* **Middleware and filters**: `ContextCorrect`; `ContextInv` says for each part of
  the context between which steps it may be up. `NarrowedIsReadable` and
  `NarrowingIsSound`, for any resources, callers and requests; the first excepts a
  POST with ids in query and body of which the filter saw the query alone, for
  which it is false (`dispatch_sources`). `NarrowInv` says
  that what the authorization knows of the request is always one of the readings
  of what arrived, or has passed: what its handler would select of it was asked
  for and, unless the broad review was granted, is readable. `NarrowingIsTight` is
  the converse: of what a request selects in one place (`Careful`), all that is
  readable is still selected, and required ids are not denied while one of them is
  readable (`DenialIsNeeded`). The lemmas show both
  of each narrowing in turn (`AuthorizedIdsWithin`, `ScorersWithin`,
  `SearchWithin`, `QuerySearchWithin`, `IdsFit`, `LocationsFit`, `SingleIdFits`),
  and that a request may be normalised twice (`NormalizeTwice`) and is left as it
  was by a narrowing that does not apply (`RefusedIsKept`).

* **GraphQL**: `GraphqlTypeCorrect`, `RootFieldsAreSeen`, `RegistryReadIsChecked`,
  `UnreadIsNarrowed`, `NamedAreReviewed`, for all valid documents. The program
  does not remember what it has walked, so `CoverInv` says that some set of
  blocks was walked to the end, and that with the frames that wait it holds
  whatever the walked selections lead to; once nothing waits the set is closed,
  and holds what the query selects. `FramesInv` is about the frames: at the root
  are only blocks that the operations reach, and a frame from whose type model
  versions can be selected is counted for a root field that does not narrow
  them. That is why a fragment may be walked once for several root fields
  (`RegistryIsFound`): any of those it stands below needs the registry.
  `DecisionInv` says of the rules what merging the fields has to come to
  (`RulesOf`), and that none was left open (`Settled`). The merge goes through the
  fields one by one; `MergeOneMore` and `MergeIsComplete` show by induction that
  whatever their order each rule ends with the parsers of all its fields, and
  `ParsersSeeTheirFields` that a field's parser names the objects of its
  occurrences.
* **Rule compiler**: `RoutesAreGoverned`, `NestedWin`, `ParamsAgree`, for all
  routes, tables, methods and prefixes. The tables are built in three loops and then
  only read, so `CompilerInv` gives them in closed form after each phase
  (`Compiling`), and the answer as what these tables give (`Answered`); the rest is
  about sequences. A lookup takes the first pattern that matches, so the lemmas
  say where the first element of a set is in a concatenation (`FirstOfConcat`), in
  a filtered table (`FirstAmong`) and among the keys of the path parameters
  (`KeysInOrder`). `NestedWin` then compares the entry asked for with whatever comes
  first, by kind: a handler's (`ClassAgrees`), a literal path or an earlier
  template (`ExplicitAgrees`). `ParamsAgree` shows that the two lists have their
  first match in the same part, or that a custom route registered ahead has the
  template of the first entry that matches (`CustomKeyAgrees`). `RoutesAreGoverned`
  needs that every template matches its instances (`InstanceMatches`), that the
  prefixes come off again (`Canonical`), and that a startup which succeeded
  has an entry for each route (`RoutesAreCovered`). The matching of paths and the
  flattening of lists are recursive functions; what they yield is shown by the
  least counterexample (`LeastOf`, `ByInduction`, `Recursion`) for the sets at
  hand.
* **Application**: `QueriesRunAsSpecified`, that `Startup` implements
  `GraphqlRules`, its fairness included: compiling and looking up routes never
  touch a query, so the theorems about queries hold of the application.
  `TablesAreCompiledAsSpecified` is the same for `RuleCompiler`.

Only model-checked is what is out of the prover's reach: liveness (`Converges`,
`LockIsReleased`, `NoStarvation`, `WalkEnds`). Every invariant and every action
property of the passing runs is a theorem.

The type invariants are not properties of the runs; those of the three watch
caches, the lock, the access-review cache with its callers, the experiment
caches and the walk over a query are theorems.

## Not modelled

* The provider's work on strings: `_validate_artifact_path`, URIs, the
  description annotations; and the configs that need no Secret, which
  `_resolve_artifact_root_from_config` answers from its arguments alone.
* `_wait_until_ready` never waits in practice: the constructors list before
  they return, so the models let requests in once a cache exists.
* Malformed API objects (no name, no metadata) are dropped by guards in
  `_handle_event` and `_extract_info`; the API server does not produce them.
* The resource name parsers: what they find is a choice in `AuthorizeRequest`.
  `AuthorizeRequest` leaves out which review of several names comes first,
  and who the caller is.
* `skill_artifact_rules` reads a path in more detail than the models keep; that
  it yields the rule, a denial or neither is a choice.
* Requests with the methods HEAD and OPTIONS, which Flask adds by itself, are never
  made; which of the queries in the URL and in the body of a POST the GraphQL
  handler executes is not decided.
* The tables of GraphQL operation names (`graphql.py:36-182`), which nothing
  uses at run time; surrounding blanks of ids.
* The way around authorization for unprotected paths is in `RuleCompiler`
  (`IsUnprotected`) and not in `Dispatch`; the rewrite of the run user is in
  neither.
* The run-to-experiment cache: a run never changes its experiment.
* Several worker processes: each has its own caches and the models are of one.
* Wall clocks that step back (see the hazards).
* The migration job: what a killed migration leaves is decided by Alembic and
  the database. The Go types, the CRD and the chart have no behaviour of
  their own; the compatibility shims run once, at import.
* Logging, messages, and the text of API requests.

## Plan

What would add most next:

1. `SecretCache` as the component that `EnsureSucceeds` and `EnsureRaises` of
   `MlflowConfigCache` stand for.
2. The name parsers with an optional or empty reference, as functions beside
   `AuthorizeRequest`.
3. `_validate_artifact_path` as an algorithm on segments.
