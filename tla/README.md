# AWS BetterOps Agent in TLA+

Specifications, model-checking configurations and machine-checked proofs for
the web application of AWS BetterOps Agent (phases 0 to 2: accounts, projects,
incidents, the Redis cache and the rate limiter). Later phases (agents, MCP,
retrieval, SQS workers) have no source yet and no model.

Run a configuration with `tlc -config X.cfg MCModule`, a proof with
`tlapm Module_proofs.tla`. `PROJECT.json` is the index: components, runs, the
lines each definition models, hazards, findings, theorems, and for each
property a plausible bug ("mutant") that the run detects.

## 1. The system

Any number of stateless web tasks (Flask under gunicorn, several threads each)
share two stores, PostgreSQL and Redis. A request is one thread running a few
statements against each; nothing else coordinates requests. Redis is optional
by design: every call on it can fail and the request still succeeds.

```
 browser pages --HTTP--> [request id] -> [rate limit] -> [session] -> route -> service
   (static/js)                              |               |                  |     |
                                          Redis         PostgreSQL       PostgreSQL  Redis
                                        counters       membership          rows     payloads
```

| Component | State | Operations | Hard behaviour | Correct when |
|---|---|---|---|---|
| Incident cache-aside (`services/incident_service.py`, `cache/`) | incident rows, project names; cached payloads with TTL | view (look up, load, store), update (load, commit, delete key), create; rename project | readers overtaken by writers between load and store; Redis outages, timeouts whose command still runs, eviction, crashes between commit and delete | a hit is the caller's tenant's; a stale entry ages out within its TTL; an entry current when stored has its delete ahead |
| Incident update (`incident_service.update_incident`) | the row's columns | load, assign sent fields, derive `resolved_at`, commit changed columns | READ COMMITTED without locks or versions; explicit null fails at commit | no lost columns; `resolved_at` agrees with the status unless two updates overlap |
| Rate limiter (`middleware/rate_limit.py`) | one Redis counter per caller and window | read clock, INCR+EXPIRE, compare, refuse with Retry-After | several tasks with skewed clocks, expiry, eviction, fail-open, timed-out increments that still count | no window lets more than its limit through on its count; a burst stays within three limits; nobody is refused for another's requests |
| Accounts (`services/auth_service.py`) | users, organizations, memberships | register, login | lookups and inserts of email and slug race; three inserts, one commit | accounts whole or absent; one per mailbox; only lost races fail; no deadlock |
| Projects (`services/project_service.py`) | projects | create, update, list | key race; the name is copied into cached incidents | one project per key; see cache |
| Sessions (`middleware/auth_middleware.py`, `services/auth_service.py`, `routes/page_routes.py`, `static/js/app.js`, `auth.js`) | signed cookie in the browser, no server state; users, memberships | sign in, sign up, sign out; decode the token, read user and membership; redirect | tasks' clocks disagree about a token; the caller is resolved twice, by several statements; redirects and scripts that go to /login; lost or refused logout | a request acts with what held since it was sent; nobody is turned away without cause; the browser comes to rest |
| Lists and dashboard (`list_incidents`, `dashboard_summary`, `static/js/incidents.js`) | the page's offset, filter, pager, loads in flight | page + total, counters; filter, previous, next | several statements, several snapshots; answers out of order or lost | open <= total; nothing that matched is missed by a walk; what is shown fits the controls |
| Cache service and backends (`cache/cache_service.py`, `backends.py`, `redis_client.py`) | the in-memory dictionary, Redis keys, the process-wide backend | get_or_set, invalidate, invalidate_pattern, increment; lazy construction | two first calls; lazy expiry; failing commands; SCAN beside other commands | every call takes effect once on one store of expiring entries, or, on Redis, may be lost; nothing is invented |
| Incident detail page (`static/js/incident_detail.js`) | the version shown, the status control, the request in flight | load, change the status | a PUT that fails for the browser only, reloaded through a cache | the page's own update is shown; the control comes back |
| Engine and pool (`database/db.py`) | connections | - | - | not modelled, see section 5 |

Configuration, logging, metrics, schemas, error mapping, migrations, templates
and styles keep no shared state that decides anything. Where they matter they
appear as inputs or constants (`PROJECT.json` lists them with reasons).

## 2. Modules

| Module | Models | EXTENDed by |
|---|---|---|
| `IncidentCache` | GET/PUT of an incident through PostgreSQL and Redis, renames, creation, all Redis faults | `MCIncidentCache`, `IncidentCache_proofs`, `IncidentPage` |
| `IncidentPage` | the detail page in one browser, composed with `IncidentCache` | `MCIncidentPage`, `IncidentPage_proofs` |
| `IncidentUpdate` | `update_incident` column by column, concurrent | `MCIncidentUpdate`, `IncidentUpdate_proofs` |
| `RateLimit` | `check` on several tasks, Redis counters, clocks | `MCRateLimit`, `RateLimit_proofs` |
| `Accounts` | `register`, `login`, `create_project` against unique constraints | `MCAccounts`, `Accounts_proofs` |
| `TtlStore` | abstract: calls on stores of expiring entries, as the callers see them | INSTANCEd by `CacheService` |
| `CacheService` | the cache service over the backend a process builds, several threads | `MCCacheService`, `CacheService_proofs` |
| `IncidentList` | the list page and the dashboard over changing tables | `MCIncidentList`, `IncidentList_proofs` |
| `Sessions` | a browser tab, its cookie, the tasks that judge it, the redirects | `MCSessions`, `Sessions_proofs` |

How state corresponds to code:

- **IncidentCache.** `incident` and `name` are the tables, with a column set
  abstracted to a version (a new version per net change); `cache` is Redis with
  the remaining TTL; `delayed` holds a command its client timed out on
  (`REDIS_SOCKET_TIMEOUT`) that Redis may still run. `pc`, `org`, `target`,
  `payload` are a thread's position and locals. `ViewMiss`/`ViewHit`,
  `ViewLoad`, `ViewStore` are the steps of `get_or_set`; `UpdateLoad`,
  `UpdateCommit`, `UpdateInvalidate` those of `update_incident`. The steps are
  cut exactly where another process can be observed: at each SQL statement or
  commit and at each Redis command. `incidentAt`, `nameAt`, `clock`, and an
  entry's `stored` and `escaped` are history variables: no guard reads them.
- **IncidentPage.** `control`, `shown` and `call` are the page: its status
  control, the version under its title, the request it awaits. A request is
  taken by a handler of `IncidentCache` (`ServeGet`, `ServePut`), whose steps
  are the actions of that module (`Middle`, `Commit`, `Done`) conjoined with
  what they do to the answer. All other requests and faults are `Others`.
  `puts`, `mine` and `excused` are histories.
- **IncidentUpdate.** `row` is the committed row; `base[h]` what a session
  loaded, `object[h]` its ORM object after assignment, `sent[h]` the client's
  fields. A commit merges the columns in which `object` and `base` differ into
  `row` - SQLAlchemy's UPDATE of modified columns. `severity` stands for the
  columns without side effects.
- **RateLimit.** `counter` is Redis keyed by caller and window start, with its
  expiry; `skew[t]` is what a task's clock is ahead; `job[h]` is a request
  between reading the clock and its count. `asked`, `admitted`, `admittedBy`
  and `lost` are histories.
- **Accounts.** A row is its unique key. `db` holds the committed rows, `tx[h]`
  the rows a transaction inserted. An INSERT waits while another transaction
  holds the key, then succeeds or breaks the constraint, as PostgreSQL does.
  `since[h]` is history. A slug is a sequence, so that `acme` with suffix 2
  is the base `acme-2` of somebody else.

- **CacheService.** `kind` is `config.cache.backend`, `backend` the module
  global of `redis_client.py` (the thread that built it, or `None`), `store`
  the dictionary of each backend a thread may have built and the keys of the
  Redis server. `handle[t]` is the backend `get_backend` returned: a first call
  tests the global (`Begin`), builds and assigns (`Build`), and reads the
  global again (`Return`). `ScanKey` is one key of `scan_iter` and its DEL.
  `invalidate_pattern` is called by tests only so far; it is modelled because
  it is part of what the module promises.
- **IncidentList.** `load[l]` is one `load()` in flight with the statement of
  `list_incidents` to run next; `offset` and `filter` are the page's, `pager`
  the pagination it was last drawn from, `None` before the first answer. The
  buttons are enabled by it alone: `updatePager` also sets `hidden`, but
  `app.css:293` gives the pager a `display`, which wins, so it can always be
  clicked.
  `dashboard` runs the statements of `dashboard_summary`. `newest`,
  `overtaken` and `walk` are histories.
- **Sessions.** `cookie` is the token in the browser, `req` the one request of
  the tab in flight, with the task that serves it, named by how far its clock
  is ahead, and the statement to run next. `attempt` 1 is the rate limiter's
  `optional_context`, 2 the `load_context` of `login_required` after the first
  failed. An answer that is complete stays in `req` until the browser gets it,
  because a cookie is set only then. `at` is the page shown, `asked` the `next`
  of its address. The other tabs are two actions that change the cookie.
  `leaving` and `since` are histories: what became of the last logout, and what
  has been true of the request's token since it was sent.

### The abstract store

`TtlStore` says what callers of the cache may rely on without saying how it is
kept. A call is `pending` from its invocation until it takes effect, in one
step, on the `entries` of a store; nothing but pending calls, time, a restart
and, where the `mode` allows it, loss changes an entry. A lookup that misses
leaves the loader pending, and a loader that returns a value leaves a `set`
pending, so the parts of `get_or_set` are separate effects, as in the code.

- `exact`: the store in use is the only one; a pending set, delete or count
  must change it before its call can end, a lookup must return the live entry
  if there is one, and no entry goes otherwise than by a call or its TTL.
- `starting`: the same promises, but on any one of several stores: the first
  calls of a process may each have built one.
- `lossy`: an effect may be skipped, an entry dropped, an answer "nothing" (0
  for a count); what is answered is still the live entry.

`CacheService!ImplementsTtlStore` is its specification under the mapping
`entries <- LiveEntries` (the unexpired part of the dictionary of each thread's
backend and of Redis), `current <- Current` (the one behind the global, or
Redis), `mode <- Mode` and `pending <- Pending`. It shows that lazy expiry
cannot be noticed, that no call is left out or done twice, that the
unsynchronised construction of the backend splits the entries only before every
thread works on the same backend, and that from then on this never comes back,
until the process is restarted.

## 3. Runs

| Run | Shows |
|---|---|
| `cache_faults` | `TenantIsolation`, `StalenessBound`, `InvalidationPending` with two threads, two tenants and every fault |
| `incident_page` | `OwnUpdateShown` and `ControlReturns` for the detail page over the cache, with outages, slow readers and crashes; `EventuallyCurrent`: after the last update the cache converges although reads go on |
| `cache_race` (violated) | `NoPreUpdateRow`: deleting after the commit does not keep a racing reader from storing the pre-update row; so the detail page, which reads through the cache, is not always put back in sync with the server |
| `cache_affected_keys` (violated) | `AffectedKeysDeleted`: a rename deletes no key, cached incidents keep the old name until they expire |
| `update_columns` | `KeepsOthersColumns`, `OnlyRacesBreak`, `StatusUpdateRepairs`, `FirstResolutionKept` |
| `update_race` (violated) | `ResolvedAtConsistent`: overlapping status updates mix one's status with the other's `resolved_at` |
| `rate_limit_faults` | `WindowLimit`, `CounterOutlivesWindow`, `RefusalDeserved` with two skewed tasks, counters that expire, and every fault |
| `rate_limit_burst` (violated) | `BurstTwice`: a count that follows its clock reading late lets three times the limit through in one window's length, with one task and no fault |
| `accounts` | `OneAccountPerMailbox`, `RegistrationAtomic`, `OnlyRacesFail`, `EveryRequestAnswered` |
| `cache_store` | `ImplementsTtlStore` for Redis, memory and disabled; `SweepOwed`: a pattern delete that ends without an error left no entry that was there when it began |
| `incident_list` | `DashboardAgrees`, `PageWithinTotal`, `ShownFits`, `PastEndCause`, `WalkComplete`, `LoadingAwaited` |
| `sessions` | `ContextHeld`, `TurnedAwayForCause`, `SignedOutIsShown`, `LogoutHolds`, and `ComesToRest`: redirects go on for no longer than clocks disagree |

The passing runs also check one type invariant per module. The four violated
properties are sentences of the code's own comments or docstrings
(quoted in `PROJECT.json`, "findings"); each has a weaker property that does
hold beside it: `StalenessBound` and `InvalidationPending` for the cache,
`OnlyRacesBreak` and `StatusUpdateRepairs` for `resolved_at`,
`BurstBound` (three times the limit, which is proved and not run) for the burst.
`OwnUpdateShown` is what remains of the detail page's comment.

What the models showed that no property says, because it is what the code does
and nothing in the repository claims otherwise:

- While two tasks disagree about a token - a fresh one whose `iat` is ahead of
  the other's clock, or one about to expire - a browser can go from /dashboard
  to /login and back without end. `ComesToRest` needs its premise `Agree`; the
  counterexample without it is a page whose badge request is refused by one
  task and whose /login is redirected by the other.
- The detail page loads the incident again after a failed PUT through the
  cache. It can be put back to the status before its own update, with an
  enabled control: while the PUT still runs; when its DEL was lost; or, with no
  fault at all, when a reader stored after the DEL what it had loaded before
  the commit. `OwnUpdateShown` names these excuses in `excused` and limits the
  last two by the TTL and the time that reader took. When the second request
  fails as well, only reopening the page enables the control: `ControlReturns`
  allows it under the title "Incident unavailable" and nowhere else.
- A page past the end says "Nothing matches this filter."; Previous, which is
  enabled there, leads back. A failed load leaves the offset advanced, so a
  second Next skips a page, and an impatient second click does so too:
  `WalkComplete` and `PastEndCause` are about users who wait.
- Retry-After is rounded down to whole seconds and then raised to one, so a
  client that waits exactly that long may retry in the window that refused it.
- A 401 sends a page to /login only where `reportError` handles it; the forms
  for projects and incidents show its message and stay.
- A page keeps the organization in its badge while another tab signs in as
  somebody else: its next request acts for the new cookie.

### Bounds

- Two handlers everywhere. Every race of this code is between two requests (a
  reader and a writer, two writers, two inserts of a key); a third adds
  contention but no new kind of step. `Accounts` has also been run with three
  handlers and two mailboxes.
- `IncidentCache`: one incident id and two organizations, so a wrong key would
  hit another tenant's entry; one version beyond the first; TTL 2 and
  `MaxClock` 3, so entries age, expire and are replaced within a run;
  `MaxDelayed` 1 unread command. `MaxClock` saturates the history clock only:
  Redis's own time (`ttl`) never stops. The race runs need no
  history and set it to 0.
- `IncidentPage`: one tenant, one incident, the page's handler and another, a
  TTL of one tick, one version beyond the first. `MaxClock` 1 tells an update
  that is recent from one that is not: a stale entry that outlived its TTL would
  be hit at time 1 and not be excused. Its faults are outages and crashes; a
  SETEX that Redis runs late does to the page what a slow reader does, and is in
  `cache_faults`, as is a hit that would renew the TTL, which with one tick
  cannot be told from one that does not (`StalenessBound` rules it out). A PUT that a handler takes only after
  the page has given it up counts among the requests of others.
- `IncidentUpdate`: the four statuses that differ in being terminal, two
  severities, `MaxClock` 1: two distinct commit times, which is all that
  replaced and kept resolution times can differ by.
- `RateLimit`: window of two ticks, skew and delay of one each (together a
  window, the assumption's edge), limit 1, `MaxRequests` 3: one let through,
  one refused, and one for another window or caller. A counter lives for four ticks and
  `MaxTime` is 5, so counters of the first window expire within the run, and
  one that expired a tick early would still be counted by a slow task. `Second`
  is two ticks so that Retry-After rounds to zero. The violated run needs one
  task, no skew and no fault: a window of four ticks, a delay of two.
- `Accounts`: three mailboxes in two spellings, bases `acme` and `acme-2`, four
  requests, so a third registrant meets two taken slugs. `MaxRequests` also
  bounds the suffix; the liveness property shows the bound never blocks.

- `CacheService`: two threads are what two first calls need; two cached keys
  of one namespace and a counter, TTL 2 within `MaxClock` 2, so that entries expire before
  and after they are read. Each value of `CACHE_BACKEND` and `APP_ENV` that
  leads to another backend is an initial state.
- `IncidentList`: two incidents, pages of one, offsets up to one page past the
  last (`MaxOffset`), two times of occurrence (so the
  id decides ties and an update can move an incident), two loads in flight: one
  can overtake the other. Three incidents at one time have been run by hand.
- `Sessions`: one task is a tick ahead, tokens live for two, and `MaxClock` 2
  makes a token early for one task, valid for both, expired for one, and expired
  for both. `MaxChanges` 2 lets the operator revoke and restore, or another tab
  act, between any two statements; the user's clicks are unbounded. Two
  organizations and two roles make a wrong membership visible.

`CHECK_DEADLOCK FALSE` is set where a run ends because its requests are used up
(`RateLimit`, `Accounts`). Symmetry over handlers (and tasks) is used in safety
runs only.

### Fairness

- `IncidentCache!Fairness`, taken over by `IncidentPage!PageSpec`: weak fairness of each thread's next statement, of
  Redis reading or losing an abandoned command, and of time. A started request
  is scheduled and its calls return (socket timeouts bound the Redis ones).
  Nothing is assumed of the browser and its user. No request, fault, eviction or expiry by memory pressure is assumed to occur.
- `Accounts!FairSpec`: weak fairness of each request's next statement. A
  request waiting for another's key is not enabled meanwhile, so the property
  does show that the holder always finishes and that no two wait for each other.

- `Sessions!Spec`: weak fairness of the server's next step and of the arrival
  of an answer. A request is worked on until it is answered (gunicorn's workers
  run, statements and sockets have timeouts) and the answer arrives unless it
  is lost, which ends the wait as well. Nothing is assumed of clocks, so
  `ComesToRest` is not the trivial fact that every token expires some day.
- `CacheService` and `IncidentList` are checked for safety only: a load may
  never be answered, and nothing in the page gives it a timeout.

## 4. Proofs

Every invariant and every action property of the passing runs, and the
refinement of `TtlStore`, is a theorem: it holds for every value of the
constants that satisfies the named assumptions of its module. All obligations
are checked by TLAPS with SMT, Zenon and LS4. The assumptions say of the
constants what the code fixes, and no more:

- positive TTL, window and page size, bounds that are numbers, statuses, roles
  and filters that contain those the code names;
- `None`, `Null`, `Unset` and `Undecodable` are different from the values they
  stand beside;
- the one quantitative one: `MaxSkew + MaxLag <= Window` in `RateLimit`;
- finite sets where something is counted: the incidents of `IncidentList`, the
  handlers of `RateLimit`.

In every module the properties are read off one inductive invariant, of which
TLC has checked the parts on small instances first. What each adds to the
properties, and why they need it:

- **IncidentCache_proofs.** `TypeCorrect`, `TenantIsolationHolds`,
  `StalenessBoundHolds`, `InvalidationPendingHolds`. None of them is inductive
  alone: a payload travels from a thread through an unread SETEX into the
  cache, so `Inv` says the same thing of all three places (`HandlersFit`,
  `DelayedFit`, `CacheFit`): filed under its own id and tenant, not newer than
  the row, superseded no earlier than loaded, and a remaining TTL that accounts
  for its age.
- **IncidentPage_proofs.** `PageIsAClient` is the composition: every step of
  the page, of the handler that serves it and of all others is a step of
  `IncidentCache` or leaves it alone, so the invariants of that module hold of
  the composed system without being proved again. On top of them `PageInv` says
  where an update of the page can still be unknown: `OwedFit` (an entry from
  before it has its DEL ahead, or has escaped it), `AnswerFit` (without an
  excuse, the answer under way knows the update), `MineFit`, `PutsFit` and
  `CallFit` (who runs what for the page). An escaped entry excuses a page only
  for a while: `StaleEntryRecent` takes the bound from `CacheFit` and carries it
  from the version that superseded the entry to the page's own, which was
  committed no earlier (`TimesFit`). `OwnUpdateShownHolds` and
  `ControlReturnsHolds` follow.
- **IncidentUpdate_proofs.** The invariant is that an object about to be
  committed is `Updated` of the row its session loaded; `TypeCorrect` and the
  four action properties then follow from `Inv /\ Next` for each commit.
- **RateLimit_proofs.** `WindowLimitHolds` needs more than "the counter is at
  least what was admitted", because counters expire. The invariant adds a
  horizon per window, `k[2] + 2 * Window - MaxSkew`: a counter that was not
  dropped lives until then, and a request counted in the window is counted
  before. `CounterOutlivesWindowHolds` reads off that `_KEY_TTL_SECONDS` of two
  windows suffices whenever skew and delay together fit in one.
  `RefusalDeservedHolds` rests on an inequality per counter (`AskedFit`): its
  count, an increment that was given up on and the requests waiting for their
  count are together no more than the requests of that caller and window.
  `BurstBoundHolds` rests on `BurstFit`: whatever was let through after a time
  no more than a window ago was counted in one of three windows, of which
  `WindowLimitHolds` bounds each; without skew or delay the third has not begun.
- **Accounts_proofs.** `OneAccountPerMailboxHolds`, `RegistrationAtomicHolds`,
  `OnlyRacesFailHolds`. What a commit publishes decides the tables, so `Inv`
  says what an open transaction holds at each step (`Inserted`), that no two
  hold the same key (`Apart`), and that an account in the tables is whole
  (`DbFit`). The key fact is in `AccountWhole`: an organization that was free
  has no members yet, so a registration brings its own owner and no second one.
  `OnlyRacesFail` needs `SeenFit`: a row a request looked for in vain is either
  still absent or was committed since.
- **CacheService_proofs.** `SweepOwedHolds`, and `Implements`: every step of
  every backend is a step of `TtlStore` or a stutter under the mapping of
  section 2. `StoreFit` bounds what an entry has left by the TTL and keeps
  counters apart from payloads; `Fresh` says that a dictionary nobody has built
  is empty, which a first call's `Build` needs. The simulation goes action by
  action, and for each says what becomes of the thread's pending call
  (`PendingDone`, `PendingProceed`, `PendingLoad`) and of the entries
  (`SetSeen`, `DropSeen`, `WriteSeen`, `DeleteSeen`): the step that touches the
  dictionary is the effect, and every other step of a thread leaves both alone.
  `HomeInReach` is where the modes differ: a thread's own dictionary is one of
  several while the process starts and the store in use afterwards.
- **IncidentList_proofs.** `DashboardAgreesHolds`, `PageWithinTotalHolds`,
  `ShownFitsHolds`, `LoadingAwaitedHolds`, `PastEndCauseHolds`,
  `WalkCompleteHolds`. ORDER BY, OFFSET and LIMIT are counting: ranked by
  (started_at, id) descending, n matches have the ranks 0 to n - 1, each once
  (`RankBijection`, by cardinalities), so a page holds as many as its offset
  leaves. `WalkFit` carries the walk: whatever matched when the filter was
  chosen is either seen or ranked at or behind the page Next asks for, and the
  total that disables Next is not from before that. Only an update that drops
  or moves a match ends a walk; an incident created meanwhile pushes matches
  back, which repeats some and skips none. `NewestFit` and `ShownFit` relate
  the newest load, or the answer drawn from it, to the controls.
- **Sessions_proofs.** `ContextHeldHolds`, `TurnedAwayForCauseHolds`,
  `SignedOutIsShownHolds`, `LogoutHoldsHolds`. `Tracked` says that the history
  `since` contains what is true now, `StepFit` what the server has found out by
  each statement of the two attempts, `AnswerFit` what an answer in flight says
  of its request, and `LeavingFit` what an answered logout leaves: no cookie,
  no request with one, and no page of the application that stays.

Only model-checked: the liveness properties `EventuallyCurrent`,
`EveryRequestAnswered` and `ComesToRest`, since fairness and ENABLED are out of
the prover's reach, and the four violated properties, which TLC refutes. No
theorem depends on the value of a bound (`MaxClock`, `MaxRequests`, ...).

## 5. Not modelled

- Contents of columns, wording, formatting and markup; password hashing (a
  login may be refused at any time); `updated_at`; `jti` and the token's role,
  which nothing reads; the signature, taken to be sound.
- The engine and its connection pool: how long a request holds its connection
  depends on latencies about which the code promises nothing. A second engine,
  built by two first calls, loses no data.
- Deletion of organizations and users, which no endpoint and no test performs:
  the branches for a missing organization are left out of `Sessions`.
- The browser's own limit on redirects, its Max-Age (a cookie may vanish at any
  time instead), and more than one request of a tab in flight.
- SQLite, used by tests only, and `reset_backend`, `set_backend`, `clear`, which
  only tests call. Request bodies that fail validation change nothing.
- Metrics, logging, configuration beyond the choice of the backend, migrations,
  templates: no shared state that decides anything.

## 6. Plan

In order of importance:

1. An abstract directory of accounts that `Accounts` implements: a registration
   happens at one moment or not at all.
2. The connection pool, if latencies are ever bounded.
