# A TLA+ development of permkit

permkit is a Django library for composable permissions. Code *declares*
endpoints, objects, filters and field groups; `permkit_sync` publishes those
declarations to a catalogue; administrators, or spec files, *compose*
permissions from the catalogue; and every request is decided by unioning the
rules of the roles its user holds. This directory models that life cycle,
model-checks it on small instances and proves parts of it for every instance.

Paths below are relative to `src/src/permkit/` unless they start with `src/`.

## 1. Inventory

| component | state it keeps | operations | who it talks to |
|---|---|---|---|
| Registry (`registry.py`, `base.py`) | six dicts, filled while modules are imported | `register_*`, `known_keys`, `key`, `condition` | written by the declaration layer, read by the resolver and the sync |
| Declaration layer (`declare.py`) | the ContextVar `_PENDING` | `permission_object`, `api_permission`, `object_permissions`, `apply_permissions`, `object_condition`, `field_groups` | writes the registry; sites call the resolver |
| Catalogue and sync (`catalogue/`) | five tables with `is_live` | `sync_catalogue` (reconcile, then validate), `load_declarations`; `--check` rolls back | reads the registry and the composition tables |
| Composition tables (`models.py`) | roles, permissions, endpoints, rules, conditions, field grants, bindings | constraints, cascades, `PermissionRuleCondition.clean` | foreign keys into the catalogue |
| Admin (`admin.py`) | none | forms for permissions, rules and roles; preview | writes the composition tables, offers live catalogue rows |
| Spec files (`spec.py`, `permkit_apply`) | none | `apply_spec`, `--check` | writes the composition tables in one transaction |
| Grant store (`store.py`) | none (`DatabaseStore`); dicts (`MemoryStore`) | `has_endpoint_grant`, `object_grants`, `field_grants` | queries the composition tables |
| Grant cache (`cache.py`) | the ContextVar `_SCOPE` and one dict per scope | `grant_cache`, `cached`, the middleware | between resolver and store |
| Resolver (`resolver.py`) | roles remembered on the user object | `check_endpoint`, `scope`, `apply_scope`, `check_object`, `granted_fields`, `visible_fields`, `allowed_values`, `assert_writable`, `explain` | store (through the cache), registry, principals |
| DRF and decorators (`drf.py`, `decorators.py`) | none | permission class, queryset and serializer mixins, `requires*` | call the resolver |
| Principals, `permkit_roles`, `conf.py` | a policy singleton | `roles_for`, `get_policy` | the application's users |

What is hard here:

* **Interleaving.** Requests ask one statement at a time while other processes
  commit edits; a rule and its conditions are read by two statements; the
  cache mixes answers of different moments; runs of `permkit_sync` overlap with
  administrators' edits and, in a rolling deploy, with each other.
* **Import order.** The registry is filled as a side effect of imports, whose
  order differs from process to process, which interleave, fail and are tried
  again, and during which requests may already be served.
* **Scoping of ContextVars.** `_SCOPE` and `_PENDING` are saved and restored by
  tokens through nesting, exceptions and reused threads.
* **Drift.** The tables outlive the code they refer to: declarations are
  dropped, moved, re-typed, unbound and brought back by later releases.
* **Composition.** Rules union, conditions intersect, field groups union,
  allowed values union over those that speak; an empty list of rules is
  nothing and an empty list of conditions is everything; `Q()` is neutral.
* **Repetition.** Syncs and spec files are applied again and again.
* **Failure.** Store queries, imports, selectors, spec entries and the seeding of
  fixtures stop half-way; the last runs in no transaction.

Correctness, component by component: a cache scope answers a question once,
never with something older than itself, never with another scope's answer; a
decision is justified by grants that were held; every edit moves access in the
direction the documentation promises; a permission site applies its own filters
and cannot return without having called for them; drift opens nothing; the
catalogue mirrors the release published last, whatever came before; a clean sync means that the rules it read resolve; a spec file
is the truth about what it names and harmless to the rest; the registry is the
sum of the declarations, however they were imported, and a view asks for its own
key; overlapping syncs do not leave a mixture behind; a fixture decides alike in
memory and in the database.

## 2. Modules

| module | models | state | actions or operators |
|---|---|---|---|
| `GrantCache` | `cache.py` | `db` (history of commits), `current` (`_SCOPE` per thread), `outer` (tokens), `dict`, `asking`; `born`, `held`, `heard` are history | `Open`, `Close`, `Ask`/`Answered`/`Failed` (a miss, first and last statement of the store), `Recall` (a hit), `Commit` |
| `GrantPromise` | what `cache.py` promises | `db`, `born`, `heard` | `Begin`, `AskSettled`, `AskStore`, `Commit` |
| `GrantCacheProofs` | proofs about `GrantCache` | | |
| `Resolver` | `resolver.py` | none: operators over registry, user and grants | `ResolveScope`, `RowsIn`, `CheckObject`, `VisibleFields`, `AllowedValues`, `Writable`, `Explain` |
| `GrantTables` | `models.py` and the queries of `DatabaseStore` | none: operators over the tables | `HasEndpointGrant`, `RulesFor`, `WithConditions`, `FieldGrants`, `DeleteRule`, `DeletePermission` |
| `DecisionProofs` | lemmas about `Resolver` on the answers of `GrantTables` | | |
| `PolicyCalls` | requests, calls and statements in time: `Resolver` + `GrantTables` over an instance of `GrantCache` | the cache's, `account`, `request`, `call`, `decided` | `Arrive`, `Leave`, `Call`, `AskStore`, `StoreAnswers`, `Remember`, `StoreFails`, `Return`, `Edit`, `Reassign` |
| `PolicyCallsProofs` | proofs about `PolicyCalls` | | |
| `Composition` | administrators editing under one release | `tables` | one action per form: `Bind`, `AddRule`, `ChangeRule`, `RemovePermission`, ... |
| `CompositionProofs` | proofs about `Composition` | | |
| `PermissionSite` | `object_permissions`, `apply_permissions` | `stack`, `pending` (`_PENDING`), `saved` (tokens), `site` (the dicts), `raising`; `made`, `returned` are history | `CallSite`, `Raise`, `Apply`, `Return`, `ReturnUnapplied`, `Propagate`, `Catch` |
| `PermissionSiteProofs` | proofs about `PermissionSite` | | |
| `Registry` | `registry.py`, once everything is imported | none: operators over a release | `KnownKeys`, `ResolvableKeys`, `KeySpec`, `View` |
| `Catalogue` | `catalogue/sync.py` | none: operators over catalogue and release | `Desired`, `Upsert`, `Changes`, `DeclarationErrors`, and one operator per query of `validate`: `EndpointErrors`, `RuleErrors`, `ConditionErrors`, `FieldErrors` |
| `SpecFile` | `spec.py` | none: operators over tables and file | `Refused`, `Applied`, `Stored`, `SaysChanged` |
| `Declaration` | `registry.py`'s `register_*`, `declare.py`'s decorators, serializer classes and the keys `PermissionRequired` and `ScopedQuerysetMixin` choose, while modules are imported | `program` (chosen once), `reg`, `pos` (how far each import is), `classes` (the attributes of view classes), `failures` | `Execute` (the next declaration of a module), `Clash` (`DuplicateRegistration`), `Fail` |
| `DeclarationProofs` | proofs about `Declaration` | | |
| `Rollout` | overlapping `permkit_sync` runs, table by table | `code`, `cat` (committed), per run `release`, `todo`, `seen` (the table as read), `written` (uncommitted rows, locked) and `overtaken`; `published`, `deploys`, `aborts` | `Deploy`, `Start`, `Read`, `Write`, `Conflict`, `Abort`, `Commit` |
| `RolloutProofs` | proofs about `Rollout` | | |
| `Fixture` | `MemoryStore`, `seed_database_from`, role names, `permkit_roles` | `fixture`, `cat`, `roles`, `tables`, `work` (statements to come), `done` | `GrantEndpoint`, `GrantObject`, `GrantField`, `Seed`, `Statement`, `StopSeeding`, `Publish` |
| `Deployment` | releases, syncs, admin edits and spec files together | `code`, `cat`, `sync`, `published`, `exit`, `permissions`, `tables` | `Release`; a run of `permkit_sync`: `StartSync`, `AskEndpoints`, `AskRules`, `AskConditions`, `AskFields`, `EndSync`, `AbortSync`; `SavePermission`, `AddRule`, `ChangeConditions`, `ApplyFile`, ... |
| `DeploymentProofs` | proofs about `Deployment` | | |

`Registry` extends `Resolver`, `Catalogue` extends `Registry`, `SpecFile`
extends `Catalogue` and `GrantTables`, and `Deployment` extends `SpecFile`: the
request-time meaning of a rule there (`Usable` over `View(code)`) is the
resolver's own. `Declaration` and `Rollout` extend `Catalogue`: the registry they
fill, or publish, is the record the request-time operators read. `Fixture`
extends `SpecFile`, and compares the stores by what the resolver decides on their
answers. `PolicyCalls` instantiates `GrantCache` with the store of
`GrantTables` as `Answer`.

Abstractions. Rows of every table are members of `Row`, a `Q` is the set of
rows it matches or `Neutral`, Django's `Q()`. Keys are pairs or model values,
params are model values and `bind()` is the domain of a filter's `q`. Labels,
names, descriptions, traces, `distinct()` and wording are left out. In
`GrantCache` an answer is a function `Answer(c, d, q)` of what the first and the
last statement of a store method see, so a commit may fall between them. A
filter's `as_q` is a constant of the registry: what it reads of the request is
the same for all calls about one user.

In `Declaration` a module is a sequence of declarations, and an import executes
them one by one; the class statement of a serializer and a decorated selector are
the sequences `SerializerClass` and `SelectorSite` build. View classes carry their
own attributes and a method resolution order, because `api_permission` reads some
attributes from the class alone and others through inheritance. Field lists are
sets there; the code compares tuples, so a reordered list of fields clashes too.
In `Rollout` the statements of a run on one table are one step between its read
and its writes; the database is assumed to be at READ COMMITTED, to lock written
rows until the end of the transaction and to enforce the unique natural keys. In
`Fixture` names are numbers and the permission a role is seeded with bears the
number of its role.

In `SpecFile` the rows of a file are written for all its permissions at once, as
sets: a permission's rows are its own, and within one permission the entries meet
only where `Refused` forbids it (two rules of one key and label) or where the last
one wins (field grants, `FieldRows`). What is reported does depend on the order of
the field entries, and `MetValues` keeps it. A spec file is Python and the columns
for params and allowed values hold JSON: `Json` maps the data that JSON changes (a
tuple) to what a JSONField gives back of it (a list), `Stored` is that conversion,
and what is written is the stored form, what is compared is the file's form with
the stored one, and what is bound when a file is applied is the file's form. Data
JSON cannot hold at all makes the statement raise and the file roll back like any
refused one, and is left out.

A run of `permkit_sync` in `Deployment` is one transaction in phases. `StartSync`
loads the declarations and reconciles the five tables; what it wrote (`Written`)
is seen by the run alone until it commits, so administrators, files and requests
go on reading `cat`. The four queries of `validate` follow one by one, each of
them against `Written` and against the compositions committed by then (READ
COMMITTED), with any edit, file or release between them, and `EndSync` commits or
rolls back and sets the exit status. The run remembers what the queries for rules
and for conditions returned. One run at a time writes the catalogue there;
`Rollout` takes the writes of overlapping runs apart table by table and leaves the
compositions out. A form that checks and saves, and `apply_spec` from its first
check to its commit, are one step each: that a form may be checked against a
catalogue row that a run retires before the form is saved is the same race seen
from the other side, and is not modelled a second time. In `Catalogue` the lists
of targets of an endpoint and what `_jsonable` makes of a parameter's default are
sets and values: their order is left out, as `_upsert` compares what it has
brought in order itself (`catalogue/sync.py:189-197, 264`).

The conditions of a fixture's grant are a list of filters with params, in which a
filter may occur more than once, as `MemoryStore` keeps it. The `order` column of
rules and conditions is left out of the composition tables: rules come in the order
of their ids, and `OrderOnlyDecidesRaising` quantifies over every other order.

Several definitions are followed or preceded by a variant that a comment calls
a *slip*: the same operation with a plausible mistake. No specification refers
to them; they exist to show that each property does notice one (section 5).

## 3. Runs

Most of this code waits for nothing: an operation returns or raises. Fairness is
therefore stated in two modules only, where something has to happen in the end.

* `Declaration`: an import that can go on goes on (weak fairness of the next
  declaration of each module, be it executed or refused).
  A process keeps importing what it needs: `permkit_sync` names every module
  (`catalogue/loading.py:76-106`), a web process resolves its URLconf again for
  the next request. Failures of another cause are bounded by `MaxFailures`.
* `Rollout`: a run that began goes on (weak fairness of its next statement; a
  run waiting for a row is not enabled), and a deploy whose release is not the
  one published starts the command again, as a deploy that fails is repeated.
  Crashes and lost deadlocks are bounded by `MaxAborts`, new releases by
  `MaxDeploys`.

Deadlock is checked except for `MCPermissionSite` and `MCPermissionSiteSwallowed`
(the names for calls are used up), `MCPolicyCallsPrefetch` (requests are used up),
`MCDeclaration` and `MCDeclarationSubclass` (everything is imported), `MCRollout`
(releases are used up; that runs do not wait for each other for ever is
`DeployIsPublished`) and `MCFixture` (a full fixture without statements).

| run | checks | shows |
|---|---|---|
| `MCGrantCache` | types, `OneAnswerPerScope`, `AnswersFromThisScope`, `CurrentOutsideScopes`, `CallerUntouched`, `PrivateScope`, `KeepsPromise` | two threads, two scopes (nested in one thread or one in each), two questions, one commit between or inside statements, failing statements; the mechanism implements `GrantPromise` |
| `MCPolicyCalls` | `RowsWereGranted`, `ListAndDetailAgree`, `OneIdentityPerRequest` | two requests on one thread, with and without middleware, two calls each, one commit among four configurations, roles given and taken |
| `MCComposition` | types, `RowsNeedBothTiers`, `ExplainAgrees`, `OrderOnlyDecidesRaising`, `MoreRulesOnlyAdd`, `MoreConditionsOnlyRemove`, `RevocationNarrows`, `WritesAreFullyChecked` | two permissions, two keys, two rules, three filters of two objects, two field groups with and without allowed values, a governed reference, payloads that pass and fail each check; a holder of the role and a superuser |
| `MCPermissionSite` | `PendingIsRunning`, `OwnDeclarationApplied`, `ReturnedSitesApplied` | three calls of two selectors, nested or in sequence, raising and catching anywhere |
| `MCDeploymentSync` | types, `CatalogueMirrorsCode`, `DriftFailsClosed`, `SecondSyncIsNoOp`, `CleanSyncMeansUsable` | seven releases (a filter that leaves, moves or takes other params, an object that leaves or is unbound, a key of another object), syncs that commit, roll back or abort, admin edits before, after and between the queries of a run |
| `MCDeclaration` | `DeclarationsStayInForce`, `RegistryIsTheSum`, `ViewsAskTheirOwn`, `EventuallyLoaded`, `ImportsOnlyTighten` | every application of two modules with up to three blocks out of a pool of objects, serializers, selectors, raw registrations and views, interleaved in every order, with one failing import beside those that clash |
| `MCRollout` | `CommitMirrors`, `DeployIsPublished` | two runs, three releases of which one drops and one moves and adds declarations, two deploys after the first, one abort |
| `MCFixture` | `SeededGrantsNoMore`, `SeededMatchesFixture`, `RolesReportIsHonest` | fixtures of two roles with up to two object and field grants, seeded in part, extended and seeded again, with params that bind and that do not, while the catalogue gets the second filter |
| `MCDeploymentApply` | `FileIsTheTruth`, `FileRevokesNothing`, `ApplyingAgainIsNoOp`, `AppliedRulesResolve` | two releases between which the filter moves, two versions of a file whose params and values JSON changes and a file about another permission that grants a group twice, hand-made rules under the label of the file and hand-made field grants, bindings the file does not know |

Bounds. They are constants, named in the modules: `MaxCommits` (one commit is
enough to make two answers differ, and falls at every point of a run),
`MaxRequests`, `MaxCalls` (two of each: one to remember and one to recall or
not), `MaxRules` (two: union needs two, a condition and its absence need two),
the number of `Scope` names (two: a caller and a nested scope, or one per
thread) and of `Frame` names (three: a caller, a callee and a later call).
Values are two or three per domain: what a filter admits and what it does not.
`MaxRules` bounds the rules administrators add; a file may exceed it.
`MaxFailures` is one: an import fails at every
point and is tried again on what it left. `MaxDeploys` is two, so that a release
can come back while a run of it, or of the one between, is still writing;
`MaxGrants` is two, so that two grants of one name, of one role or of one key
meet.

Three runs explore less than every interleaving, or take states together:

* `MCComposition` has the action constraint `StaysInOnePart`. One part has both
  rules and the filters of widgets and no field grants, and there the endpoint of
  crates is granted by the first permission; the other has the field grants of
  both permissions and the filter of crates, and there the first permission
  carries the endpoints and at most one rule. Rows are decided without field
  grants, and a reference without looking at how its rows were chosen, so the
  parts lose no kind of decision, but they do lose combinations; the theorems of
  `CompositionProofs` have no such constraint.
* `MCDeploymentApply` has `RunsAlone`: nobody acts while a run of `permkit_sync` is
  under way, and every run commits. Files read the catalogue as committed, and
  what happens inside runs is the matter of `MCDeploymentSync`, which has no
  constraint and no files. One of its two permissions is left to the files.
* Both identify states by a `VIEW`. `ButForTheExit` leaves out the exit status, which
  is only ever written: no guard reads it, no invariant of the runs mentions it
  but for its type, and the properties read the `exit'` of the step that sets it.
  `ButForTheRun` also leaves out what a run has read and what it will base its
  exit status on, which no property of `MCDeploymentApply` mentions.

### Claims the code does not keep

Three runs check a sentence of the code's own comments, taken at its word, and end
with a counterexample. Section 4 says what holds instead.

| run | claim | what happens |
|---|---|---|
| `MCPolicyCallsPrefetch` | `models.py:149`, "A rule with no conditions means every row" | a rule with conditions that is deleted between its query and the prefetch of them opens every row |
| `MCPermissionSiteSwallowed` | `declare.py:144-145`, "Registering without enforcing is still impossible: the wrapper raises if the body returns without having applied the filters" | the applied flag is set (`declare.py:208`) before `apply_scope` may raise: a body that catches that, and returns rows nothing has filtered, is let through |
| `MCDeclarationSubclass` | `declare.py:78-79`, "an inherited value belongs to the parent's declaration, not this one" | `declare.py:91` reads `permission_key` through inheritance: a decorated subclass of a decorated view keeps asking for its parent's endpoint, while the catalogue lists it under its own |

More disagreements were met while modelling; the actions do what the code does,
and the properties are stated so that they hold with it. In the composition and
its decisions:

* `models.py:18`, "More rules can only ever add access": a filter that returns
  `Q()` matches everything alone and nothing in a union, so adding a rule may
  take rows away (`resolver.py:233`; `OrQ`). `MoreRulesOnlyAdd` is checked without
  such filters. And the add form takes a rule whose filter is another object's
  (`admin.py:264-266`, below): it does not compile, so the key raises and shows
  nothing, which `MoreRulesOnlyAdd` excepts.
* `cache.py:37` promises one consistent set of grants; the endpoint tier and the
  object tier may be remembered from two configurations. One edit that withdraws
  an endpoint and adds an open rule can so be answered with the old endpoint and
  the new rule, and show rows that neither configuration shows. `RowsWereGranted`
  bounds this: both grants were held since the scope, or the call, began, though
  perhaps never together.
* `store.py:213-215` promises that a bad fixture fails; a seeding that stops
  between a rule and its conditions leaves a rule about every row
  (`store.py:244-256`, no transaction; excepted in `SeededGrantsNoMore`).
* `store.py:190-202`: `MemoryStore` keeps one grant per name, across roles, where
  the tables hold the union; and `get_or_create` keeps the values of a role's
  first field grant. `Plain` leaves such fixtures out.
* `store.py:65-66` again: a fixture's grant may name one filter twice with
  different params, which `MemoryStore` keeps and requires both (`store.py:55-56`);
  `get_or_create` (`store.py:252`) finds the first by rule and filter and drops the
  second, so the tables show more than the fixture. The fixtures of the run do
  this, and `Plain` excepts them (`PlainConditions`), as it does params that JSON
  changes: they are bound in one form and used in another.
* `store.py:65-66`, "exactly what `MemoryStore` returns": one sorts the grants of a key
  by name, the other by permission and order. An open grant ends the search
  (`resolver.py:203-209`), so where it stands beside a grant that cannot be compiled
  one store shows every row and the other raises (`OpenOrRaises` in
  `SeededMatchesFixture`).
* `admin.py:264-266` calls misfiled conditions unreachable from the UI; the add
  form of a rule offers the filters of every object and `clean` has no rule yet
  to compare with (`AddRule`; the next sync reports it).
* `src/docs/ROADMAP.md:98-101` says an unbound object breaks no enforcement;
  `registry.py:223` raises `UnknownKey` for every one of its keys.

Between the code, the catalogue and the files:

* `catalogue/models.py:15-17`, a removed filter's composition "keeps resolving
  exactly as it did yesterday": the resolver asks the registry and raises
  `UnknownCondition` (`resolver.py:213`).
* `permkit_sync.py:4-5`, "exits non-zero when the configuration in the database
  has drifted": stored params are never bound by `validate`
  (`catalogue/sync.py:433`), so params of an older form pass, and a key of an
  object bound to nothing passes as well. So does what is committed while a run
  is under way, between a query of `validate` and the commit
  (`permkit_sync.py:98-105`): an administrator still sees the filter live that the
  run is retiring. `CleanSyncMeansUsable` speaks of what the queries returned, and
  `DriftFailsClosed` says what the rest can do: nothing but deny or raise.
* `src/docs/COMMANDS.md:86-88`, a file is refused for "params that do not match":
  `permkit_apply` does not load the declarations, and params of a filter its
  process has not imported are written unchecked (`spec.py:185`).
* `catalogue/sync.py:490-501` speaks of one run. A run that read before another
  release committed writes only what differs from what it read: it may leave
  rows of both releases, or a filter with the object of one and the params of
  the other, until the next run. `CommitMirrors` excepts runs that were
  overtaken.
* `permkit_apply.py:6` says idempotent, and `permkit_apply.py:59-60` that `--check`
  exits non-zero if a file would change anything. A file that lists a field group
  twice for one verb with different values writes each over the other, and a file
  with a tuple in its params or values is compared with the list JSON made of it
  (`spec.py:200, 242`): both report a change on every run and never pass `--check`.
  `ApplyingAgainIsNoOp` says that exactly such files do (`NeverSettles`), and that
  the tables stay as they are even then.
* `spec.py:185` binds params in the form the file has, while a request binds what
  JSON made of them (`resolver.py:217`): a filter that wants the one may refuse the
  other. `AppliedRulesResolve` excepts such params (`ChangedByJson`).

While declarations are imported:

* `declare.py:56-58`, "The first to declare it supplies the label": whether a
  second label clashes depends on which comes first, for an endpoint first
  declared without a label has its key as its label (`registry.py:139, 145`).
* References of one field in two serializers, and one filter key in two
  selectors, are not refused: the last reference and the first filter stay
  (`registry.py:113`, `declare.py:238`). `Harmonious` leaves such applications
  out of `RegistryIsTheSum` and `EventuallyLoaded`; the other properties hold for
  them.
* `catalogue/loading.py:19` calls the imports idempotent: a module that fails
  after a raw `register_condition` or `register_key` clashes with itself when it
  is imported again (`registry.py:48, 69`; `Repeatable`).
* `declare.py:95-98` keeps a key "the developer wrote by hand": not if it equals
  the key of an earlier decorator (`ViewsAskTheirOwn` excepts it).
* `registry.py:226`: until the serializer of a field group is imported, the
  fields of that group are open (`ImportsOnlyTighten`).
* A key that only a reference made known is lost when another serializer has that
  reference governed by another key (`registry.py:113`, `drf.py:177-195`): a
  request for it was answered before and raises `UnknownKey` afterwards.
  `ImportsOnlyTighten` excepts exactly those keys.
* A key registered as a whole (`register_key`, `registry.py:39-58`) need not be about
  the object it is named after, but a rule is filed under the name: after a clean
  sync its filters may be refused at request time (`Renamed` in `Deployment`).

## 4. What holds, and under which reading

* *Cache.* Within a scope each question is settled by its first asking;
  different questions may be settled by different configurations, but none older
  than the scope. Therefore two resolutions of one key in one scope agree
  (`ListAndDetailAgree`), and rows are shown only if the endpoint and a rule
  were each held at some moment since the scope, or the call, began
  (`RowsWereGranted`), not necessarily at the same one.
* *Composition.* Rules add and conditions remove, as long as no filter returns
  `Q()` and every rule compiles; a rule that does not compile makes the key
  raise (after a rule without conditions it is not even looked at).
* *Composition, in whatever order.* The order of the rules of a key decides at most
  whether, beside a rule without conditions, one that does not compile raises or
  is never reached; it never decides which of two sets of rows is shown
  (`OrderOnlyDecidesRaising`).
* *Sites.* Whoever returns has called `apply_permissions` in its own body, with its
  own declaration. That the filters were applied does not follow: the call may
  have raised and been caught (`MCPermissionSiteSwallowed`).
* *Sync.* When a run exits clean, a rule and a condition its queries returned, if
  they are still there, are ones a request can use, unless their object is bound
  to nothing, their params no longer bind, or their key was registered as a whole
  about another object (`CleanSyncMeansUsable`). About what was composed after the
  query that would have returned it a clean exit says nothing. Before and after,
  the live rows of the catalogue are exactly what the last committed run's release
  declares.
* *Drift.* However far tables and release are apart, and whatever a run did or did
  not report, a row is shown only because of a rule that is held and whose
  conditions are all conditions of the release in service, each of which admits
  the row (`DriftFailsClosed`). Rules and conditions that have drifted deny or
  raise.
* *Registration.* Whatever the order, what a loaded module declared stays in
  force, contradicting modules never both load, and modules that agree add up to
  one registry. Rows are decided by a partial registry as by the whole, or the
  key raises; fields can only be closed by later imports.
* *Views.* A class that inherits no key asks for its own endpoint if it has one
  and, where `permission_keys` is silent, for nothing if it has several;
  the rows it lists and opens are chosen by that key, unless it names others.
* *Overlapping syncs.* A run that no other release overtook leaves the catalogue
  in step with its release, though it writes to tables that changed since it
  read them; and a deploy is published in the end unless another replaces it.
* *Fixtures.* Seeding never grants more than the fixture, except through a rule
  whose conditions are still to come, and a completed seeding, after any number
  of broken ones, decides alike, unless the order of grants makes one store raise
  where the other shows everything. Both are about fixtures the stores understand
  alike: no name or role with two contents, no filter twice in a grant with
  different params, no params that JSON changes (`Plain`).
* *Spec files.* A run leaves the permissions of the file with exactly its
  endpoints, rules, conditions and their params, field grants and their allowed
  values, in the form JSON gives them, whatever they held, or is refused and leaves
  nothing; of two entries for one group and verb the last one stays.

## 5. How the properties are tested

`PROJECT.json` lists for every property of every passing run a slip that breaks
it: a scope that copies its caller's dict, a cascade that leaves a rule without
its conditions, a retired row that is never revived, and so on. Replacing the
operation by its slip makes TLC report the property.

## 6. Proofs

TLC settles small instances; TLAPS proves what follows for every value of the
constants: any number of threads, questions, principals, rules, releases, runs,
modules and failures. A named `ASSUME` of a module says all that is assumed of its
constants, and TLC evaluates it in every run.

| module | assumes | proves |
|---|---|---|
| `GrantCacheProofs` | `ConstantsAssumption`: the special values are no names of scopes or answers; every answer is a `Value` | all properties of `MCGrantCache`, the refinement of `GrantPromise` among them |
| `PolicyCallsProofs` | `PolicyCallsAssumption` and the cache's | all properties of `MCPolicyCalls` |
| `CompositionProofs` | `CompositionAssumption`, `ResolverAssumption` (a set of rows is not `Neutral`) | all properties of `MCComposition` |
| `PermissionSiteProofs` | `SiteAssumption`: `None` is no name | all properties of `MCPermissionSite`, and its types |
| `DeploymentProofs` | `DeploymentAssumption`, `ReleasesAssumption` (a release has the six parts of a registry), `FilesAssumption` (a file has finitely many permissions, and lists where it has lists), `PermissionAssumption` (permissions are numbers), `JsonAssumption` (what JSON gives back it gives back again) | all properties of `MCDeploymentSync` and `MCDeploymentApply` |
| `RolloutProofs` | `RolloutAssumption` | `CommitMirrors` |
| `DeclarationProofs` | `DeclarationAssumption`: a module is a sequence of the declarations there are, and a class is defined by one class statement; `DecoratorAssumption` (see below) | `DeclarationsStayInForce`, `RegistryIsTheSum`, `ImportsOnlyTighten`, `ViewsAskTheirOwn` |

Three theorems have a hypothesis beside: `RulesAdd`, `ConditionsRemove` and
`RevocationsNarrow` are about registries with `PlainFilters`, whose filters never
return `Q()`. It cannot be dropped: a filter that does vanishes from a union
(`resolver.py:233`), and then one more rule may take rows away (section 3).

None of the properties is inductive. What has to be known beside them:

* **Cache.** That a hit gives the first answer again needs to know that what a dict
  holds was heard in that scope; that it is young enough, that both statements
  behind it ran after the scope opened; that no two threads share a dict, that
  tokens form chains of scopes that were opened and are current nowhere else.
  `Refinement` proves `Spec => KeepsPromise` with the same invariant: `Open` is
  `Begin`, `Answered` is `AskStore` when nothing is settled, `Recall` is
  `AskSettled`, `Commit` is `Commit` and the rest stutters.
* **Calls.** `PolicyCallsProofs` takes the cache's invariant over by instantiating
  `GrantCacheProofs` and adds whose request a thread serves (`Requests`), what a
  call has learnt and that it learnt it after its request, or itself, began
  (`Calls`), that a resolution in a scope is the one its settled answers lead to
  (`Decisions`), and that every decision has its reasons: two moments, both
  recent enough, at one of which the endpoint and at the other a rule was held
  (`Reasons`).
* **Decisions.** `DecisionProofs` is about operators alone. `RulesFor` finds the rules
  that are held, each of them and no others (`RulesForFinds`, by the rank of a
  rule in a finite order); a compilation that does not raise shows the rows some
  grant admits and no others (`CompiledIsJustified`, `CompiledIsComplete`). That
  makes an edit of the composition a matter of sets, and is how
  `CompositionProofs` gets from one row more or less in a table to rows more or
  less on a screen. `OrderDecidesRaising` goes through the three ways a compilation
  ends, each told by the set of grants but for one (`ReorderedCompile`).
  `CompiledIsAdmitted` says the one thing about shown rows that filters returning
  `Q()` do not spoil: some grant admits them, condition by condition. `DriftClosed`
  follows from it and from how rules are found, for any tables and any release.
* **Sites.** The token of each call on the stack holds the call beneath it; the calls
  on the stack are distinct and declared; the applied flag of a site implies an
  application in its own body.
* **Sync.** Whatever was in a table, a run leaves it as its release wants it
  (`UpsertReconciles`), so rows being rows and the catalogue being in step are
  inductive. `CleanSync` rests on an invariant of runs under way (`RunInv`): what a
  run has read and found no error in is about a key its release knows, and, if it
  is a condition, on a filter of that object which is live in what the run itself
  wrote. That stays true while others edit, deploy and apply files, because the
  run compares with its own writes and not with the committed catalogue; and live
  there means declared by its release (`LiveFilters`).
* **Overlapping syncs.** A row is written by one open transaction at most; what a run
  writes is right column by column or equals what is committed; while no other
  release commits, what was right when it was read stays right, and what is
  written stays settled (`Exclusive`, `WritesAreHonest`, `ReadsAreFresh`,
  `WritesSettle`).
* **Imports.** What was executed and not forgotten is in force (`ExecutedStands`), though
  only whole modules are promised to; and nothing is in the registry that no
  declaration says (`EntriesDeclared`). Both rest on one lemma about the
  registration functions: one that does not raise adds entries and changes none,
  but for the model of an object that had none, the targets of an endpoint and
  the key of a reference (`RegisteringExtends`). From this alone follows
  `ImportsOnlyTighten`; the two invariants together determine a harmonious
  registry entry by entry, which is `RegistryIsTheSum`. The proof of
  `ImportsOnlyTighten` found the keys that are lost (section 3), which no run had
  met: the pool of `MCDeclaration` has such a pair of serializers now.
* **Views.** What a view asks for is read from attributes that decorators leave on its
  class one by one, some looked up through the parents. `ViewInv` says what has
  been left at every moment: the mro of a class is its own name before the mro of
  its parent; every class above it is settled, for its module was imported, or
  its statement and decorators came, before; and its attributes are those of its
  body if no decorator ran, and otherwise a list of exactly the keys named so far
  (with `permission_endpoint` of the body), each once, with the one key, or none,
  that follows from their number. The order of the decorators and repeated
  imports drop out. `DecoratorAssumption` says that decorators follow the class
  they are on and that bodies do not write the collected list by hand.
* **Files.** `CompositionInv` is what makes a file's rows its own: ids of rules are unique
  and finite in number, no rule has a filter twice, every row points into the
  catalogue. New rules get ids that no rule has (`FreshIdsAreFree`), one for each
  entry (`IdsAreOwn`), so what is written is what the file lists, permission by
  permission, and the rest is as it was (`WhatAFileLeaves`: `Stands` and
  `OthersAsIn`). `FileIsTruth` and `FileOnlyAdds` are read off that. Tables in which
  a file stands are a fixed point of applying it (`WritingAgain`), and what a second
  run says of its changes comes down to the field entries: the first entry that
  meets other values than its own follows one that differs from it
  (`MetWhatIsWritten`, `SecondRun`), or is not what JSON makes of it: what is
  written twice is stored the same (`StoredTwice`), so stored data differ from the
  file's exactly if JSON changes them (`ParamsMet`). `AppliedResolve` joins this invariant to that of
  the catalogue: what was refused, and what is live, together say that the code can
  use the condition.
* **Retiring.** That a release which drops a declaration leaves no row of the composition
  dangling (`TypesOK`) needs that runs only ever add rows or retire them
  (`PublishingKeepsWhatIsThere`), and that administrators and files refer to live
  rows when they write (`LiveIsThere`).

TLC has checked the invariants as well: as part of a run those that are properties,
and the strengthened ones on the same instances, those about imports on part of
the pool of declarations; except the cache's inside `PolicyCalls`, which
quantifies over answers of different types and is checked in `MCGrantCache`.

Only model-checked:

* the liveness properties, `EventuallyLoaded` and `DeployIsPublished`: liveness
  under fairness is out of the prover's reach;
* the properties of `Fixture`. `SeededGrantsNoMore` and `SeededMatchesFixture` compare
  a fixture with what the concatenation of its statements leaves, and what a fold
  computes takes induction over data, which is out of reach too.
  `RolesReportIsHonest`, about a report that decides nothing, rests on one fact,
  that a role with a binding has a row, and is left to TLC with the rest of its
  module.

## 7. Not modelled

* The hooks of `drf.py` beyond the choice of the keys (they call the resolver as
  `PolicyCalls` does), the keys a serializer class derives for its subclasses
  (`drf.py:197-200`), `decorators.py`, `conf.py`, `apps.py` and `__init__.py`, which
  hold no state but a policy that is built alike every time.
* `principals.py` inside a request is external to `PolicyCalls`; names that are
  not strings, and `permkit_roles` on a column that does not hold strings.
* `--strict` (only the exit status differs) and `--no-load` (a diagnostic) of
  `permkit_sync`.
* Migrations, templates, the wording of traces and messages, the documentation.

## 8. Plan

The later modules share runs with the present ones where they can, so that each
run keeps asking one question of the system.

1. Done: the cache, the resolver over the tables, calls in time, composition,
   permission sites, and deployment with sync and spec files; proofs about
   cache and sites.
2. Done: registration in any order, with failing and repeated imports, and the
   choice of the key by `api_permission` and `drf.py`; overlapping syncs; fixtures,
   role names and `permkit_roles`; liveness where there is any.
3. Done: proofs about calls, composition, deployment with its files, overlapping
   syncs, imports and views. Left: the properties of fixtures.
4. Requests served by two releases while one replaces the other.
