# wyndpy in TLA+

Wyndpy resolves *items* (a product page, a clause, a review) to content: it fetches an
item's known source through a chain of fetchers (Track A), and discovers a source through
a chain of searchers when there is none (Track B). Everything runs on one asyncio event
loop; the difficult part is what happens between two awaits when several tasks work on the
same item, an adapter raises, a task is cancelled or the process dies.

This directory holds TLA+ modules translated from the Python source, TLC configurations
that check them on small instances, and theorems checked by TLAPS for every instance.

## The system

| Component (source) | State | Operations | Talks to |
|---|---|---|---|
| Router (`core/router.py`) | rule tables, one `asyncio.Lock` per item id, the locals of each running call | `resolve_known_source`, `discover_source`, `resolve` | fetchers, parsers, searchers, trust, registry (all awaited) |
| Escalation rules (`core/escalation.py`, constructor of the router) | two dictionaries | lookups by (from, error) and (from, mime type) | router |
| Item, results (`core/item.py`, `core/results.py`) | sources, staged alternates, URLs seen, status, last hash | mutated by the router only | router, registry |
| Httpx fetcher (`fetch/httpx_adapter.py`) | one shared `httpx.AsyncClient` | `fetch`, `close` | network |
| Firecrawl, LlamaParse, Exa (`fetch/firecrawl_adapter.py`, `parse/llamaparse_adapter.py`, `search/exa_adapter.py`) | none between calls | `fetch`, `parse` (upload and poll), `search` | a paid service |
| Registry (`registry/`) | id -> item | `get`, `upsert`, `list_pending_discovery` | router, the embedding project |
| Trust (`trust/`) | the patterns of trusted hosts | `is_trusted` | router |
| Schedulers (`scheduling/`) | trigger -> jobs | `register`, `fire`, `jobs` | jobs that call the router |
| Policy and factory (`policy.py`, `factory.py`) | none | `load_policy`, `build_router`, `build_scheduler` | constructors of all the above |
| Adapter discovery (`core/discovery.py`) | the installed entry points | `load_adapter_class` | factory |
| Surfaces, fakes (`surface/`, `testing/`) | tool registry, canned answers | `run_sync`, `call` | - |

Where it is hard, and what correct means there:

- *Router, interleavings.* A caller may be suspended at nine awaits while others run.
  Correct: one caller at a time inside a track per id, the merge rules never lose, repeat
  or cross-file a URL, a status never contradicts the fields beside it, and every call
  returns although rules may form a cycle.
- *Router, failures.* Any await may raise and any task may be cancelled, also while it
  waits for the lock or in the middle of an upsert. Correct: the lock passes on, and what
  was changed in memory is in the registry unless the registry itself failed.
- *Restart.* A process may die between the change of an item and its upsert. Correct: no
  source, no staged alternate and no record of a URL seen that was in the registry is lost.
- *Rule tables.* Rules overlap, shadow and repeat each other. Correct: the dictionaries
  answer as the list does.
- *Httpx client.* `close` and `fetch` interleave around a shared client. Correct: no pool is
  dropped open and none that was injected is closed.
- *Scheduled jobs.* `fire` gathers jobs that fail, are left running behind a `fire` that has
  raised, or are cancelled with it while they queue for a lock. Correct: no lock
  is left to a task that is over, every job that was started ends, and `fire` ends.
- *Building a router.* A policy file may be wrong in many places at once, adapters may be
  missing, broken, stubs, or lack arguments, and the first fault met decides what the project
  sees.  Correct: a router has everything that was asked for or is not made, the review gate is
  open when the project opens it, and an exception says what was wrong.
- *Hosts and patterns.* One list of patterns is stripped by the trust strategy, normalised by
  the factory and taken literally by three adapters. Correct: what is trusted can be fetched,
  and nothing else can.
- *Polling.* A job moves on between two polls. Correct: a bounded number of polls, none after
  a final state, a document only of a finished job.

## Modules

| Module | Models | Correspondence |
|---|---|---|
| `Escalation` | rule lookups, legacy order, choice of a parser | an adapter is its position in its list, since the code tells adapters apart by `id()`; 0 is None |
| `EscalationTable` | the loop of `Router.__init__` over the rules | one action per rule; `error_escalations` and `content_type_escalations` are the two dictionaries |
| `Domains` | which hosts a list of patterns stands for, in each of the four places that read one | a name is its sequence of labels, so that `host.endswith("." + d)` is "d is a suffix of host" |
| `Factory` | `load_policy`, then `build_router` with `load_adapter_class`, then the constructor | `step` is the argument being evaluated; a list of tests in the order of the code, of which the first that holds gives the exception; the outcome of an import or a constructor is part of what is installed and of the arguments |
| `Router` | the three entry points | `pc[c]` is the await a caller is suspended at, `frame[c]` its locals, `obj` the items in memory, `stored` what `upsert` wrote, `lock[i]` the owner and FIFO waiters of the lock; one action is the code between two awaits |
| `MergeRules` | abstract specification: what discovery promises for an item's sources | no callers, locks or awaits: promote, stage, or nothing |
| `Scheduling` | cron and event schedulers and the tasks they create | `fire[f]` is a call of `fire`, `task[c]` how far the task of a job is, `job[c]` what it will run; the calls it makes are the actions of `Router` |
| `RouterRestart` | the router over a registry that outlives it | `Load` is `registry.get`, `Restart` loses tasks, locks and objects |
| `HttpxFetcher` | the shared client, `fetch` and `close` | `pc[t]` is `client.get` or `client.aclose`; `Outcome` is the chain of tests on a response |
| `PaidAdapters` | one call of Firecrawl, Exa or LlamaParse | an injected function or the service, the mapping of failures, the polling loop against a job that moves by itself |
| `MCRouter`, `MCRouterRestart`, `MCScheduling`, `MCFactory`, `MCHttpxFetcher`, `MCPaidAdapters` | instances for TLC | values a `.cfg` cannot write |
| `EscalationProofs`, `RouterProofs`, `RouterRefinement`, `RouterInvariants`, `SchedulingProofs`, `FactoryProofs`, `HttpxProofs`, `PaidProofs` | theorems | below |

`Router` EXTENDS `Escalation`; `RouterRestart` and `Scheduling` EXTEND `Router`; `Factory`
EXTENDS `EscalationTable` and `Domains`. `Router` instantiates `MergeRules` with a refinement
mapping from the objects in memory. Every step of `Scheduling` that concerns the router is one
of `Router`'s own actions.

Abstractions. A fetched body is its hash and its content type; a URL, an adapter name and a
type of error are model values or strings of small sets; queries, metadata, messages,
relevance scores and logging are left out, as nothing reads them back. In `Router` the trust
strategy is a set of URLs; what that set is, is the matter of `Domains`. The URL that Track A
reads once and passes to its fetchers is not kept: an adapter may answer anything whatever it
was asked, and the answer is recorded for the item. A pattern has stars
only as labels of their own (`*.vendor.test`, not `*vendor.test`). Of a policy file `Factory`
keeps what the code reads back: costs, rates and cadences that are parsed and stored are left
out, and a section written with no value is told apart from one that is absent. A scheduled
job stands for one call of the router: a project's own coroutine may make several, one after
another, which is several jobs here. A cron entry is a process of its own; two that overlap
share only the registry, which is `copies` below. Adapters may answer anything their protocol allows, so `Router` holds for
every adapter, not only for those shipped. Time is not modelled: a backoff is an await that
ends. The registry is a store distinct from the objects in memory, as a database is;
`MemoryRegistry` keeps a reference to the object itself, so that memory and registry can only
agree, which is one of the behaviours of the model where every upsert succeeds.

Some actions are worth a word:

- `CallResolve` chooses the track before it queues for the lock, as `resolve` does.
- `SaveTrackB` ends Track B; `resolve` without review releases the lock and queues again in
  one step, as there is no await in between, and other waiters come first.
- `HandToParser` changes no item: the parser path of the code neither sets a status nor
  calls `upsert`.
- `Launch` creates the tasks of one `fire`, which begin later and in any order; `CancelFire`
  cancels those that have not ended, or `fire` alone when `gather` has its result already.
- `Begin` reads the list of items pending discovery when the task begins, from the objects
  themselves, as `MemoryRegistry` does.
- `ConstructFaults`, `RegistryFaults` and `LoadFaults` are the tests of `_construct`,
  `_build_registry` and `load_policy` in their order; `Fail` ends the build with the exception
  of the first that holds. "ImportError" stands for whatever the import of an adapter raises,
  "OtherError" for what a constructor raises besides TypeError; the code catches neither.
- `Get` is `client.get` up to its await: a closed client raises there, and so does a URL that
  httpx cannot take apart. `FetchRefused` has the same for `urlparse` in the guard.
- `RaiseInside` stands for an exception or a cancellation at any await inside a track: the
  lock is released, fields already set stay set, and an interrupted upsert has reached the
  registry or has not (`torn` remembers the second).

## Runs

| Run | Checks | Shows |
|---|---|---|
| `router` (`Router.cfg`) | TypeOK, SingleFlight, QueuesAreCalls, MergeBookkeeping, StatusMatchesItem, Persisted, ImplementsMergeRules | under every interleaving, exception and cancellation of three callers the lock, the books, the status and the registry stay right, and discovery implements `MergeRules` |
| `scheduling` (`Scheduling.cfg`) | SchedulingTypeOK, NoLockAbandoned, CallsReturn, StartedJobsEnd, FiresEnd | jobs of two overlapping fires, failing, left behind and cancelled: no lock is left behind and all comes to its end, also with a rule that sends a fetcher back to itself |
| `router_restart` (`RouterRestart.cfg`) | SourceNeverReplaced, StagedNeverDropped, SeenNeverForgotten | neither a crash nor a reload takes a source, an alternate or a URL seen out of the registry, as long as there is one object per id |
| `factory` (`Factory.cfg`) | FactoryTypeOK, TablesFollowRules, GuardsAgree, BuiltAsPolicySays, NoStubUnlessAllowed, OnlyKnownFaultsEscape | every combination of faults in a policy file and in the arguments: a whole router or an exception, no exception but PolicyError without one of the causes listed, guards that agree with the trust strategy, and, for all lists of up to three rules, dictionaries that answer as the list does |
| `httpx_fetcher` (`HttpxFetcher.cfg`) | HttpxTypeOK, OpenClientIsHeld, InjectedStaysOpen | with one closing task no pool is dropped open and no injected client is touched |
| `paid_adapters` (`PaidAdapters.cfg`) | PaidTypeOK, ResultOfFinishedJob, FailureIsNoAnswer, FinalStateEndsPolling, CallEnds | a call returns, polls no more than it should, and never passes off a failure as an answer |

Where a document or a comment says more than the code does, a run states the claim and TLC
shows how the code departs from it:

| Run | Claim | What the code does |
|---|---|---|
| `coalesce` | concurrent callers coalesce into one attempt (`router.py`, class docstring; design spec, Concurrency) | `resolve` looks at the sources before the lock and discovery does not look again: the second caller searches too, and stages a second URL |
| `review_gate` | a source pending review is not fetched by `resolve` (docstring of `resolve`) | a second `resolve` sees a source and fetches it, whatever its status |
| `copies` | a registered source is never replaced automatically (design spec, merge rules) | two objects of one id: the later upsert overwrites the earlier one's source |
| `httpx_raises` | `fetch` never raises (`fetch/protocol.py`) | a fetch during `close` uses the closed client and raises RuntimeError |
| `discovery` | a URL that discovery surfaced is recorded as seen (`item.py`) | only one that is trusted and placed; an untrusted candidate is judged again each time |
| `discovery` | an item whose source is known is not `unresolved` (design spec, section 3) | a discovery that finds nothing marks every item `unresolved` |
| `policy_file` | the rule `content_type=pdf` sends PDFs to the parser it names (design spec, section 4) | the trigger is compared with the whole content type and never matches `application/pdf` |
| `policy_file` | the gate is opened by an explicit `require_review=False` (docstring of `resolve`; design spec, section 3) | `require_review:` with no value in the file opens it too |

`MergeBookkeeping` states the books the way the merge rules keep them: what is placed on an item
is trusted and seen. Whether an untrusted URL is seen is left to `discovery`. Likewise
`BuiltAsPolicySays` says nothing of a null `require_review`, which is left to `policy_file`.
The last step of the trace of each of these two runs breaks both of its claims.

Four more disagreements are in the models and have no run of their own:

- `resolve_known_source` "updates item.status accordingly" (its docstring), but not when a parser
  has answered: `HandToParser` returns with status, hash and registry as they were.
- `fetch` never raises (`fetch/protocol.py`), but `urlparse` in the guard and `httpx.URL` in
  `client.get` raise for a URL they cannot take apart, and neither exception is an `HTTPError`:
  the answer `"invalid_url"` of `HttpxFetcher`.
- `close` releases the connection pool (its docstring), but of two that overlap the second drops
  the closed client, a fetch makes a new one, and the first drops that one open: with
  `Closers = {t1, t2}` TLC finds `OpenClientIsHeld` violated.
- What is wrong with an adapter's arguments is a PolicyError (README; `test_factory.py`), but
  credentials that are null under an adapter's name come out as a raw TypeError, as the
  clause of `OnlyKnownFaultsEscape` on TypeError allows for.

The models reach other behaviours that a reader of the code may want to know, and that no
document contradicts plainly: a source registered by hand may be staged as an alternate to
itself; the body of a 5xx answer is taken for content; two discovery cycles that overlap search
for the same item twice; a `fire` that raises, and one that is cancelled just after one of its
jobs has failed, leave the other jobs running; an item that was once `unresolved` is never
listed for discovery again; a job of LlamaParse that completes while the last interval is slept
is given up; a list of hosts in the credentials is not normalised, so that `*.vendor.test` there
matches no host and yet counts as a list; a firecrawl fetcher is made with an empty list; the
trust strategy promotes URLs on http and of private hosts, which the fetchers then refuse; an
adapter's name nobody registered escapes as KeyError, one whose module is missing as ImportError,
a section with no value as AttributeError or TypeError, a null dsn as AttributeError, and
whatever a constructor raises besides TypeError as it is; a router made from a policy never
retries.

### Bounds

- *Callers*: three for the safety of the router (an owner, a waiter and one more that is
  cancelled or overtakes), symmetric; two for restarts. *Ids*: one, since
  calls for different ids share no state but the dictionary of locks; the theorems hold for
  any number. *Objects*: one, and two in `copies`.
- *URLs*: three, two of them trusted: one source and one alternate, and one rejected. *Answers
  of a searcher*: none, or the rejected URL before two trusted ones, which already puts every
  suffix of it in `frame[c].found`; for restarts, claims and scheduling shorter answers.
- *Hashes*: two, so that a body may be the same, be new, and change back. *Errors*: one that
  is escalated and retried, one that is neither. *Content types*: one parsed, one not.
- *Routers*: list order with two fetchers, two searchers and a parser; a cycle of rules with
  a retry, an unknown parser and no review; no adapters at all. Together they reach every
  branch of the three tracks.
- *Rules*: every list of up to three, enough for one rule to override another while a
  third shadows both. *Httpx*: three tasks and three clients. *Polls*: the 45 of the code.

- *Scheduling*: two calls of `fire`, of up to two jobs and of one, over one trigger and one
  item: three tasks, of which two may belong to a fire that has raised while a second fire is
  launched. One fetcher that a rule sends back to itself, with a retry; one searcher; one hash,
  since liveness multiplies the state space and what is dropped ends a call sooner.
- *Factory*: the policy file of the design spec, varied in four ways: every list of up to three
  rules; every set of broken sections; lists of adapters with a stub, an unknown name, one that
  does not load, a second entry point of a name and a null; every backend and setting of the review; each under twelve
  calls of `build_router`, which differ in their credentials (complete, missing, unknown, refused
  by the constructor, null), the dsn, the stubs they allow and what they pass in ready made. *Hosts*: a vendor, a host of it, the same with a final dot, a
  lookalike and a private one; patterns with one, two and no stars, a bare star and blanks.

`CHECK_DEADLOCK FALSE` is set where the modelled code ends: `build_router` with its router or
its exception, an adapter's call after its answer.

### Fairness

`FairSpec` assumes weak fairness of each caller's own steps (`Step`), and of nothing else:
no call need begin and nothing need fail. The code justifies it: the event loop runs every
ready task, every adapter call is bounded by a timeout of its own, `asyncio.Lock` wakes its
waiters in FIFO order, and a sleep ends. Without the last two a caller could starve; the
FIFO queue is part of the model. `FairSchedulingSpec` assumes the same of each task
(`Progress`), and of each `fire` that it ends when `gather` has its result (`FireEnds`): both
are callbacks the event loop runs when they are ready. Nothing need be registered, fired,
fail or be cancelled. `FairPaidSpec` assumes the same of one call, and nothing of
the job: `CallEnds` holds also when the job never ends.

## Theorems

| Theorem | States |
|---|---|
| `RouterProofs!TypeCorrect` | `Spec => []TypeOK`: adapter indices are within their lists, retries within the policy, and what is fetched has a source |
| `RouterProofs!MutualExclusion` | `Spec => []SingleFlight`: two callers are never inside a track for one id |
| `RouterInvariants!QueuesInOrder` | `Spec => []QueuesAreCalls`: a lock's queue is the calls in progress for its id, once each |
| `RouterInvariants!BooksBalanced` | `Spec => []MergeBookkeeping`: what discovery placed on an item is trusted, seen and there once, in memory and in the registry |
| `RouterInvariants!StatusBorneOut` | `Spec => []StatusMatchesItem`: no status claims what the other fields deny |
| `RouterInvariants!NothingUnsaved` | `Spec => []Persisted`: an item nobody works on is in the registry, unless an upsert was torn |
| `RouterInvariants!RestartKeepsBooks` | `RestartSpec => [](...)`: the books, the status, the saving and mutual exclusion, with crashes and reloads |
| `RouterInvariants!SourceKept`, `RouterInvariants!StagedKept`, `RouterInvariants!SeenKept` | `RestartSpec => SourceNeverReplaced`, `RestartSpec => StagedNeverDropped`, `RestartSpec => SeenNeverForgotten`, with one object per id |
| `RouterRefinement!Refinement` | `Spec => ImplementsMergeRules`: a URL reaches an item only as `MergeRules` allows, and every other step leaves the sources, the alternates and the URLs seen alone |
| `EscalationProofs!NextFetcherInList` | the next fetcher, by list order or by rule, is in the list or is none |
| `SchedulingProofs!ScheduledSingleFlight` | `SchedulingSpec => []SingleFlight` |
| `SchedulingProofs!SchedulersTyped`, `SchedulingProofs!LocksLeft` | `SchedulingSpec => []SchedulingTypeOK`, `SchedulingSpec => []NoLockAbandoned`: a task that is over neither holds nor waits for a lock |
| `FactoryProofs!TrustedCanBeFetched` | `FactorySpec => []GuardsAgree`: what is trusted passes the guards, and nothing else does |
| `FactoryProofs!BuiltWhole` | `FactorySpec => []BuiltAsPolicySays`: a router has all its adapters, its rules and the review gate as the file sets it |
| `FactoryProofs!FailuresAreTyped` | `FactorySpec => []OnlyKnownFaultsEscape`: what an exception other than PolicyError comes from |
| `FactoryProofs!StubsRefused` | `FactorySpec => []NoStubUnlessAllowed`: by neither of the two paths |
| `FactoryProofs!BuildTyped` | `FactorySpec => []FactoryTypeOK` |
| `FactoryProofs!TablesAnswer` | `FactorySpec => []TablesFollowRules`: after every rule the dictionaries answer as the list read so far |
| `HttpxProofs!AnswersTyped`, `HttpxProofs!InjectedUntouched` | `HttpxSpec => []HttpxTypeOK`, `HttpxSpec => []InjectedStaysOpen`, for any tasks and closers |
| `HttpxProofs!NoPoolDropped` | `HttpxSpec => []OpenClientIsHeld`, with one closing task |
| `PaidProofs!PollsBounded`, `PaidProofs!PollingStops` | `PaidSpec => []PaidTypeOK`, `PaidSpec => FinalStateEndsPolling`: the polls are within the limit and end at a final state |
| `PaidProofs!DocumentFinished`, `PaidProofs!FailuresShow` | `PaidSpec => []ResultOfFinishedJob`, `PaidSpec => []FailureIsNoAnswer` |

They hold for every set of callers, ids, objects, URLs, hashes, errors and routers allowed
by `RouterAssumption` and `EscalationAssumption`: objects have ids, answers and
registrations are sequences of URLs, routers are router records, the wildcard is no adapter's
name and None is no value of the others. Those of the schedulers rest on
`SchedulingAssumption` (a task is one of a fire's, a job calls one track for one object), those
of the factory on `FactoryAssumption` and `DomainsAssumption` (files, calls and entry points
have their types; no URL has the empty name for a host); those of the httpx client on `HttpxAssumption` (which
tasks may close) and those of a paid adapter on `PaidAssumption` (at least one poll).

Two assumptions are hypotheses of the theorems that need them, as the code does not enforce
them and the properties fail without. `OneObjectPerId` (`SourceKept`, `StagedKept`, `SeenKept`): a process
that reads the same item twice has two objects, and the run `copies` shows what is lost.
`OneCloser` (`NoPoolDropped`): while one task awaits `aclose`, the `close` of another drops the
closed client at once, a fetch makes a new one, and the first task drops that when it resumes;
TLC shows it with `Closers = {t1, t2}`.

The argument. `SingleFlight` is not inductive: when an owner returns nothing in it says who
may enter. The invariant is `IInv == TypeOK /\ OwnerFirst`, where `OwnerFirst` says that
whoever is inside a track is the head of its lock's queue; two callers inside for one id
would both be that head. Every step is one of four kinds, each a lemma: an owner moves on
and keeps the lock (`MoveKeepsIInv`, with `FinishKeepsIInv`, `AttemptFetchKeepsIInv` and
`ContinueKeepsIInv` above it); an owner returns and leaves the queue (`ReturnKeepsIInv`), or
queues again (`RequeueKeepsIInv`); a caller joins at the end (`StartKeepsIInv`); a waiter
leaves from the middle (`CancelWaitingKeepsIInv`, where `RemoveAtKeepsHead` says that the
head stays unless the waiter was the head, and then nobody is inside). `TypeOK` is needed
beside it for the queues to be sequences of callers, and needs `NextFetcherInList` for the
index of the next fetcher; that one rests on the community modules' selection of an index
by the minimum or maximum of a set, whose membership is proved in `EscalationProofs`.

The refinement needs one fact more. A caller finds a candidate unseen, awaits the trust
strategy, and merges it without looking again; `MergeRules` places only URLs that are not
seen. `RInv == IInv /\ TrustUnseen` says that the candidate is still unseen when the answer
comes. It is inductive because every step leaves the items alone, or is a step of the owner
of the lock that marks its item or merges into it (`StepKinds`), and a caller at `trust` is
that owner itself: two callers at one object share its id. Only `MergesItem` is a step of
`MergeRules`; the others stutter.

The schedulers. `TInv == IInv /\ SchedulingTypeOK` is proved as one: that a task is in the middle of
a call exactly as long as it runs (`SchedulingTypeOK`) needs the types of the router below it, and
that a step of a task is one of `Router` (`StepsAreCalls`) needs the task to have a job.
`NoLockAbandoned` then follows from `QueuesAreCalls`: a caller in a queue is suspended, so its task
is not over. That a behaviour of `Scheduling` is one of `Router` (the lemma `JobsAreCallers`)
holds by the way the module is written; it is what lets `MutualExclusion` and `QueuesInOrder`
carry over.

The factory's invariant `FInv` says of each role which names its list holds so far
(`RoleProgress`: a prefix of the policy's while it is being built, all of what was asked for
afterwards), and of each adapter that was made that it passed the tests (`Vouched`), its
allowlist being what `AllowlistFor` computes. `FirstFaultHolds` is the lemma beneath: the
exception raised is that of the first test that holds, and is "none" only if no test holds.
`ConstructFaultsHold`, `RegistryFaultsHold` and `LoadFaultsHold` say what that comes to for each
of the three lists of tests, and `OnlyKnownFaultsEscape` rests on them. `GuardsAgree` then
comes down to `TrustedIsAllowed`, a statement on patterns alone: the normalised list lacks
only the empty name, and a host that the empty name matches ends in a dot.

The books. `AllInv` is the invariant of `RouterInvariants`; its conjuncts need one another:

- `ItemsOK` says the books and the status of every item, in memory and in the registry. A merge
  keeps it because `TrustUnseen` of `RInv` says the URL is unseen; marking an
  item keeps it because of what a track has found when it marks (`Marked`).
- `SavedOrSaving` says that an item is in the registry, or that a call is at an await from which
  it goes on to the upsert. `Persisted` is not inductive: it speaks of a free lock only. With
  `QueuesAreCalls` a free lock means nobody is saving.
- `QueuesAreCalls` is needed for that, and for `NoLockAbandoned`; that a caller is in a queue
  once only is what makes the removal of a cancelled waiter remove it (`DropOne`).

Each is a lemma over kinds of steps instead of over actions: what a step does to the items
(`StepKinds`), to the registry (`StoreKinds`) and to the queues (`LockKinds`). A restart and a reload keep `AllInv` too (`RestartKeepsAllInv`,
`LoadKeepsAllInv`), so it is an invariant of `RestartSpec`. For the action properties,
`AheadOfRegistry` says that the object of an id has every source, every alternate and every URL
seen that the registry has; an upsert then only adds. With two objects of an id it fails at once.

The tables. `TablesRead` says that under every key, the wildcard among them, each dictionary holds
what `Lookup` gives for the rules entered so far. `LookupAppend` is the step: with one rule
more, `Lookup` changes for that rule's key only (the maximum of the matches is the new rule, or
the matches are the old ones). The induction is the run of the constructor itself. It needs
`TInv` to say that a policy that was loaded has no incomplete rule, which is the sixth test of
`load_policy` (`LoadedIsComplete`), and that the tables are empty until the router is called.

The client. `InjectedInv` adds to `InjectedStaysOpen` that whoever awaits `aclose` does so on a
client the adapter owns. For `OpenClientIsHeld`, `ClosingInv` says that while the one closer
awaits `aclose` the client in place is the closed one: a fetch meanwhile uses it instead of
making another, so what the closer drops when it resumes is closed.

The call of a paid service. `PInv` says for each await what the call has seen of the job by then
(`AwaitInv`: no poll before the upload, fewer than the limit when it looks again, a document
fetched only of a job that succeeded) and that a failure is the call's answer (`AnswerInv`).

Every property named here was checked by TLC on the instance of its run before it was proved.

Only model-checked: `CallsReturn`, `StartedJobsEnd`, `FiresEnd` and `CallEnds`, which are
liveness under fairness and beyond this prover. Every invariant and every action property of a
passing run is a theorem.

## Not modelled

- The Postgres registry is a stub that raises; `Factory` models its refusal.
- Call surfaces and schemas are reflection, a dictionary of bound methods, and an event loop
  per call; fakes, exports, examples and documents hold no logic of the program.
- The length of a body, what is hashed of it (cut bytes by httpx, extracted text by firecrawl)
  and so which changes the hash-skip misses: a result is its hash and its content type.
- In a policy: a rule that is no mapping, a null `trust.allow`, a file that exists and cannot be
  read, and other values of a wrong type.
- A star glued to a name in a pattern, and anything else that works on characters within a
  label.
- Cron processes that overlap, except as two objects of one id in `copies`.
- Time: timeouts, the blocking look-up of names in the httpx guard, backoffs and intervals.

## Plan

Done: the router with its rules, registry and restarts; the schedulers over it; policy,
factory, trust patterns and guards; the httpx client; the adapters of paid services; the
theorems above.

1. The part of `CallsReturn` that is safety: a variant of a call (fetchers untried, retries,
   searchers and candidates left) that each of its steps decreases.
2. `Lookup` over the concatenation of two lists of rules, from which shadowing follows.
3. `Bodies`: what each fetcher hashes, and what hash-skip misses when the adapter changes.
