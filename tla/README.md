# Formal verification of Hebrew-web

TLA+ models of the parts of this repository where several requests, threads or
processes share state, the TLC configurations that check them on small
instances, and TLAPS proofs of what matters most for every size. Source paths
are relative to the repository's root: `api/`, `data/`, `security/` are under
`backend/`, `core/` and `scripts/` under `ai_bridge/`.

    tlc -workers 2 -config KernelState.cfg MCKernelState.tla
    tlapm KernelStateProofs.tla

`PROJECT.json` lists every run, the lines each definition stands for, the
mutant that breaks each property, the hazards and the theorems.

## 1. The system

Two programs share the repository and meet only through HTTP proxy routes.

* **The backend** (`backend/`): an Express server on Node's event loop with
  PostgreSQL and, optionally, Redis. Handlers of concurrent requests
  interleave at each `await`; transactions are rare, so most operations are
  a sequence of statements that commit one by one. The React front end
  (`frontend-react/`) keeps tokens in cookies and refreshes them.
* **The agent kernel** (`ai_bridge/`): a Python program that takes tasks from
  an HTTP API (an event loop and a pool of threads), a queue file and a voice
  thread, plans them, routes them to agents, and keeps memory and checkpoints.
  Its threads share dictionaries without locks. A daemon and command-line
  scripts run the same kernel on one disk.

### Inventory

| Component | State | Operations | What is hard | What makes it correct |
|---|---|---|---|---|
| Sessions (`api/routes/auth.ts`, `middleware/auth.ts`, `client.ts`) | `user_sessions`, cookie jars, requests in flight | login, refresh with rotation, verifyToken, password change, logout | UPDATE without a condition after a SELECT; replies overtake each other; losses | what was ended stays ended; nothing is admitted afterwards; an honest client is not taken for a replay |
| Access control (`security/rbacService.ts`, `rbacGovernance.ts`, `middleware/authorization.ts`, `routes/accessControl.ts`) | role tables; profile cache; permission map with one shared refresh | requirePermission, requireRole, assign, revoke, block, replace permissions | a fill that began before an invalidation ends after it; two caches lag one behind the other | a change takes effect within known time, in both directions; every request ends |
| Login guard, user cache, user administration (`data/db.ts`, `routes/auth.ts`, `users.ts`) | the row of an account, copies of it in Redis under several keys, failed logins, lock | register, login, lock-out, password, profile, preferences, administration, deletion | copies made of copies; a lock read before a password is compared | nobody is let in by what was so too long ago |
| Lessons, quizzes, points (`data/db.ts`, `routes/lessons.ts`, `quizzes.ts`, `items.ts`) | `user_items`, `users.xp_total`, `items` | complete, attempt, edit, delete | completion and points are two statements | points once per item |
| Checkpoint store (`core/unified_vfs.py`) | files, artifacts, journal, nodes per process | write_state, read_state, recovery | locks between processes, moves against directory syncs, deaths, power losses | what is committed survives; no checkpoint without its text; calls return |
| Agent pool (`core/orchestrator.py`, `agent_*.py`, `task_router.py`, `load_balancer.py`) | status, `queue_depth`, `active_tasks` of each agent | choose, reserve, run, fall back, fix, release, scale down | threads on shared records; exceptions on the way; tasks within tasks | counters match the tasks, no agent is left busy, calls end |
| Task intake (`core/task_listener.py`, `api_bridge_module.py`, `orchestrator_control_module.py`) | queue file, idempotency cache, submissions | submit, retry, poll | retries beside the first submission; the file is rewritten while it is processed | what is answered is not run again, nothing leaves the queue unread |
| Voice commands (`core/voice_listener_module.py`) | listener threads, recorders, utterances | listen, cut, transcribe, refine, unload | unloading beside building and reading | utterances are whole; listeners stop |
| Message bus (`core/message_bus.py`, `rabbitmq_bus.py`) | topics, inboxes, acknowledgements | send, receive, acknowledge, dead letters | two paths to one receiver; a broker behind some calls only | what is acknowledged as sent is there |
| Memory (`core/hybrid_memory.py`, `persistent_memory.py`) | hot entries, index in memory, index file or server | write, read, evict, flush, expire, delete, restart | reading and writing a file in place; evicting what is rewritten | what a key shows changes only by requests |
| Planning (`core/task_decomposer.py`, `smart_decomposer_module.py`, `orchestrator.py`, `result_merger.py`) | plan, completed tasks | three ways to a plan, rounds | names used twice, unknown or later in the list | what was asked first is done first |
| Kernel modules (`core/kernel_module_manager.py`, `ai_activity_module.py`, `model_usage_module.py`) | loaded modules, records, counters | load, unload, hooks around tasks | the set changes under the loops | who was told of a start is told of the end; counts agree |
| Choice of models (`core/model_selector.py`, `provider_budget_router.py`) | classification, order of providers | classify, select, rank | exemptions, advice and fallbacks overrule each other | risky tasks stay from the local model |
| Calls of models (`core/gemini_runtime_router.py`, `openai_runtime_router.py`, `external_ai_bridge.py`) | tokens and given-up models of a session | plan, attempt, give up, register | check, slow listing, then use; sums read and written back | what is given up stays so; tokens are of answers |
| Local model (`core/local_llm_module.py`, `local_llm_bridge.py`, `scripts/deploy_local_llm.py`) | one shared address, the box | probe, ask, set up | two names, threads, two makers | questions go where something has answered |
| Planning chat (`core/dev_toolkit_module.py`) | sessions, messages, clipboards, audit log | chat, list, clip, switch | two chats begin one session | nothing said is lost |
| Host commands (`core/host_bridge.py`, `distrobox_bridge.py`, `gh_auth_bridge.py`) | allowed list, box, logins | find gh, box it, log in, run | several processes change the machine | gh runs where it was logged in |
| Availability (`core/availability.py`, `integrations/`, `openai_model_registry.py`, `scripts/antigravity_login.py`) | two caches, a file of models, a sign-in | probe, log in, verify, record | eight steps, each may fail, one flag | healthy means answered |
| Deployment gate (`core/deploy_guard.py`, `core/security_gate/`) | issues and blocks of a run | guard, authorize, three checks, verdict | tools missing, failing, with words of their own | let through means clean |
| Migrations and seed; publications, dictionary, avatars; audit, telemetry, logs; proxies; credentials, block list, limits; agents and adapters; code generation and design; front end; infrastructure | none shared, or appended to | | little | not modelled, see section 6 |

How they interact: `verifyToken` (sessions) puts the user id into a request and
`requirePermission` (access control) decides by it; login asks the user cache,
which the user administration invalidates; submissions (intake) find answered
texts in the idempotency cache, else they are planned, each task of the plan is
classified (choice of models) and run by the agent pool, whose agents call models;
the module manager calls hooks around each task, among them the checkpoint store's.

## 2. Modules

A component is a module with its constants, variables, `Init`, one action per
statement, file access, request or other step after which something else may
happen, `Next`, `Spec`, its type invariant and what it promises.

| Module | Models | Proofs |
|---|---|---|
| `AuthSessions` | `auth.ts` from accepted credentials on, `middleware/auth.ts`, `client.ts` | `AuthSessionsProofs` |
| `AccessCaches` | `rbacService.ts`, `authorization.ts`, `rbacGovernance.ts`, `accessControl.ts` | `AccessCachesProofs` |
| `UserAccounts`, `LearningProgress`, composed in `BackendState` | `auth.ts`, `users.ts`, `lessons.ts`, `quizzes.ts`, `items.ts` and their statements in `db.ts` | `BackendStateProofs` |
| `VirtualFileSystem` | `unified_vfs.py` | `VirtualFileSystemProofs` |
| `AgentPool` | `orchestrator.py`'s `run_task` and what it calls | `AgentPoolProofs` |
| `KeyValue` | abstract: what a memory promises its clients | |
| `HybridMemory`, `MessageBus`, `TaskPlan`, `KernelModules`, `TaskIntake`, `DevToolkit`, `VoiceListener` | the components above, composed in `KernelState` | `KernelStateProofs` |
| `ModelSelection`, `ModelCalls`, `LocalModel`, `HostCommands`, `ProviderHealth`, `DeployGate` | the components above, composed in `KernelState` | `KernelCallsProofs` |
| `MC...` | constants and bounds of the instances | |

`KernelState` and `BackendState` put components side by side. They share no
variable, and `part` names the one a behaviour is of, so the composition has
the sum of their states and not the product; the components' own specifications
say what the steps are. One run then checks them together, and one theorem says
of all that they have their types. (`TaskIntake` is two parts, `"chat"` and
`"queue"`.) `MCKernelThreads` composes in the same way the three parts of the
kernel that promise that something happens.

### AuthSessions

`row` is the table, `jar` the two cookies of each browser, `req` the requests in
flight with their handlers' locals. **One action per SQL statement**, together
with the synchronous code that follows it: `RefreshMatch` is the SELECT of
`POST /refresh`, the comparisons and the signing of the new pair; `RefreshRotate`
the UPDATE, which has no condition but the id. `Deliver` applies a reply's
`Set-Cookie` headers and is a step of its own, so replies arrive in any order.
`Lose` drops a request at any point (a lost connection or a dead process:
the handlers keep nothing in memory). `LogoutError`, `PasswordError`,
`RefreshError`, `LoginError` are the catch blocks.

*Abstractions.* A refresh token is its session and its `iat` (all that differs
between two tokens of a session), its hash is the `iat` it was computed from. A
browser's fingerprint may change at any time (an address changes), so a
mismatch of it, and a 401 of `verifyToken`, may happen whatever the row says.
`SessionsOf` at `PasswordUpdate` fixes which sessions a password change has set
out to end. Two history variables tell what the replies have reported: `told`
whatever they say, `ended` what they say rightly (not after a failed UPDATE).

### AccessCaches

`account` and `grants` are the tables, `profileCache`, `permMap`, `permExpires`
and `flight` the module-level variables of `rbacService.ts`. Handlers give up
the event loop at `await` only: a request whose `pc` is in `Micro` is a
continuation that runs before any other event, which `Settled` states. All
requests that find the permission map expired await the one shared refresh
(`flight`): `FlightDone` and `FlightFail` resume them together. A profile is
loaded through `LookUp` (a hit) or `ProfileRead` and `ProfileDone` (a
miss: between the SELECT and the fill an update and its invalidation may pass).
What the profile is for is the request's `cont`. `Written` is the invalidation,
`Fail` a statement that fails in any state, `Restart` empties the caches.

*Abstractions.* A permission is one triple; role expiry dates are left out, as
are the routes that create, rename or delete a role. `turned` and `stripped`
remember when a user last gained or lost the use of a role, and when a grant was
last removed; `gone` which revocations were answered.

### UserAccounts and LearningProgress

`UserAccounts` has one account: `user` is its row, `authCache` the copies that a
login finds under an address, `profileCache` what is shown of it under its id.
A login is `Lookup`, `Select`, `Fill` (the copy is stored after the row was
read), `Decided` with `Grant` or `Miss`, then the UPDATE of the counters,
`Session`, `Drop` and `Publish`. The lock is the copy's, the counter the row's.
`Save` and `Edited` are the changes by the user and by administrators with the
copies each of them drops, and those it forgets; `Keep` is PUT preferences,
which stores a copy made of a copy. A clock bounds how old a copy may be:
`CacheTTL` for the lifetime in Redis, `Latency` from a row's read to the last use of it.
`left` remembers when a fact of the row last ceased to hold.

`LearningProgress` has `acquired` (the table `user_items`), the points, and one
action per statement of a completion: `GetItem`, `Acquire`, `AddPoints`, `Drop`,
`Answer`, any of which may fail, with administrators who change rewards, delete
items and set points in between. `paid` and `claimed` count what was added and
what the replies said.

### VirtualFileSystem

`disk` is what a directory shows and `durable` what it would show after a power
loss; `artifacts` and `synced` are the same for the files of large texts. A
version counts the files moved into place. `WriteStart`, `Extract`,
`ArtifactSync`, `Lock`, `Replace`, `Sync`, `Commit`, `Publish` are the steps of
`write_state`, `WriteFail` its error path from each of them (it returns
`False`, but what has been moved stays moved). `ReadHit` is the read of a node in
memory, which compares the checksum and injects the texts; `ReadMiss`, `Load`,
`Install` that of one that is not; `Remove` and `Drop` are
`_recover_from_corruption`, `RecoverFile` is `_recover_all_states`, which takes
no locks. `Crash` kills one process (the kernel of the machine releases its
flocks), `PowerLoss` all, with any of what was not synced lost; `Damage` is a
checkpoint edited or damaged on disk.

*Abstractions.* The journal is written and never read: only the moment of the
COMMIT record remains. JSON and checksums: a content is intact or not.
`fsync_dir` is taken to work, although the code ignores an error of it.

### AgentPool

A frame is one activation of `run_task`: `<<t, 1>>` runs a task of thread `t`'s
plan, `<<t, 2>>` the fix task that the feedback made of its result. A frame's `at`
is the step it is at, from `EnsureCapacity` over the three ways to an agent
(`Prefer`, `Route`, `Reserve`), `Preflight`, `Fallback`, `MarkBusy`, `Run` with its
six outcomes, `RunAgain` by another agent, `Fixed`, `MarkIdle`, the counting down
(`CountDown`), and scaling down agent by agent (`Spare`, `Disable`). `orchestrator.py` uses `AgentStatus` at
lines 691 and 696 without importing it, so at this commit each run that reaches an
executor ends in a NameError; `Imported` has both the code as it is and the code
as it was meant, and everything is checked and proved of both. `Tearing` lets
counter updates rest on an outdated read.

### The parts of KernelState

* `HybridMemory`: `hot` entries, `latest` and `newest` the list of records in
  memory, `row` its index by key, `disk` the index file (`Torn` while it is being
  written in place), `thread` what each thread is storing: `StoreInFile` appends,
  `Index` puts the end of the list into the index, `Dump` takes the text to
  write. `alone` is whether one thread at a time uses the memory. A value is
  the number of the request that wrote it; the store keeps its JSON text, and what
  is restored is that text, unparsed (`hybrid_memory.py:404`, `:421`). `Shown` tells the
  two apart: `<<v, "value">>` or `<<v, "text">>`. `KeyValue` is the abstract
  specification of what each key shows: besides writes, removals, expiry and
  restarts, a value may turn into its text (`Serialise`), and otherwise `Return`,
  `Forget` and `Revert` say what may happen, the last for several threads only,
  whose records may get under each other's keys (`TextsOf`); `Promise` instantiates it.
* `MessageBus`: a send is `Stored`, then the acknowledgement; a receive looks into
  the inbox (`LookedInto`), takes from the topic (`Left`), then acknowledges.
  `broker` is none, or where its callers run, which decides how its calls fail.
* `TaskIntake`: `cache` the idempotency cache by text and way, `thread` the
  submissions, `client` who waits and sends again (`TimeOut`), `file` and
  `listener` the queue file and what the listener has read of it. As the code stands
  `create_standard_task` leaves out a field that its `TaskContext` requires, so every
  task raises (`Created`); `fielded` has both this code and one that gives the field,
  and everything is checked and proved of both.
* `VoiceListener`: `hears` what each listener has accumulated, `speaker` the
  utterances on their way, models given up.
* `TaskPlan`: `draft` the answer of a model, `Named`, `Resolved`, `Chained` the
  translation of its names into `needs`, `Round` and `RunTask` the execution.
* `KernelModules`: `run` where each task's thread is in the two loops over hooks,
  `current` and `records` of the trackers, `requests` the counts by model.
* `ModelSelection`: `Classify`, `Select`, `Rank`, over sets of kinds of words.
* `ModelCalls`: `Begin` reads the sum, `Plan` asks for the models and leaves out
  those given up, `Attempt`, then `ReadSum` and `WriteSum`.
* `LocalModel`: `Try` and `Keep` are the probe, `Post` the question, `Command`,
  `Create`, `Install`, `StartService`, `Boot` what sets the box up.
* `DevToolkit`: `table` the object of an id, `object` the objects made, which may
  be two of one id; `messages` by id.
* `HostCommands`: `gate` the box, `login` where gh is logged in, each command of
  the machine a step that may fail. A question that fails counts as "no"
  (`host_bridge.py:76-82`), so the two lookups of gh (`FindGh`) may disagree; `misled`
  remembers whose lookup missed a gh that was there.
* `ProviderHealth`: `check` the chain of probes of each thread, from `Connect` to
  `Confirm`, `catalog` the file of models, two caches. Of `agy` the exit code alone
  decides, which is 0 also when it asks to sign in.
* `DeployGate`: `todo` what a check has still to look at, `issues` with their
  severities, `blocked` the checks that object. A tool finds anything, fails, is
  missing, or answers what cannot be read; `said` has its own words.

## 3. Runs

| Run | Checks | States |
|---|---|---|
| `auth_faulty` | `TypeOK`, `EndedStaysEnded`, `NoAccessAfterEnd`, `RowOutlivesToken` | 627,138 |
| `auth_honest` | `HonestClientKept` | 368,710 |
| `auth_logout` | `ReportedEndedIsEnded`: **violated** | stops |
| `access_caches` | `TypeOK`, `AdmittedByRecentRole`, `LongHolderAdmitted` | 2,444,517 |
| `access_finish` | `HandlersFinish` (liveness) | 96,379 |
| `access_invalidation` | `InvalidatedOnUpdate`: **violated** | stops |
| `backend_state` | `TypeOK`, `PointsOnce`, `DecidedByRecentRow` | 744,218 |
| `vfs_reread` | `RemovesOnlyCorrupted`: **violated** | stops |
| `pool` | `TypeOK`, `BusyMeansRunning`, `CountsAgree`, `CallsEnd` | 1,287,228 |
| `pool_busy` | `BusyTakesOnlyLow`: **violated** | stops |
| `kernel_threads` | `TypeOK`, `CommitsSurvive`, `TextsKept`; liveness: `CallsReturn`, `QueueDrains`, `ListenerStops` | 98,971 |
| `kernel_state` | `TypeOK` and 17 properties, below | 611,473 |

**Sessions.** A session that a reply has rightly reported as ended stays revoked,
although a refresh that had read the row before may still write to it
(`EndedStaysEnded`). No request sent after that is admitted, although its access token
is a valid JWT for minutes more (`NoAccessAfterEnd`). The row outlives the newest
token, although one is signed before the other is written (`RowOutlivesToken`). A
browser with one page is never taken for a replay (`HonestClientKept`); this rests on
the page's `isRefreshing` flag and on delivery: with two pages, or a lost reply, the
session of an honest user does get revoked, and the property says so by what it
assumes.

**Access control.** A request is admitted only by a role its user had, unblocked,
less than `ProfileTTL + Latency` ago, and a permission that role had less than
`PermissionTTL + 2 * Latency` ago (`AdmittedByRecentRole`). Two latencies: the refresh
installs grants that are one SELECT old, and a request that then waits for its
profile's SELECT decides by them one SELECT later. Nobody who has held a role for
longer is refused what the code grants it (`LongHolderAdmitted`). Every request ends,
also those that wait for a refresh which failed (`HandlersFinish`).

**Accounts and points.** Nobody is let in, refused or shown a profile by what was so
of an account more than a bound ago (`DecidedByRecentRow`): `LoginWindow` for the copy
a login finds, `ShownWindow`, longer by one chain of copies, for what is shown. A login that began with an
outdated copy may cache the profile of an account that has been deleted since
(`auth.ts:591`, `db.ts:144-159`), hence the longer one. A lesson or quiz is paid for at
most once, and said to be (`PointsOnce`).

**Checkpoint store.** A checkpoint with a COMMIT record, or a newer one, is on disk and
synced until a reader removes it (`CommitsSurvive`). Unless the power was lost, no
checkpoint refers to a text that has no file (`TextsKept`): a second writer of the
same text does not wait for the first one's sync, so a power loss may take the text.
Every call returns, also one that waits for a lock whose owner dies (`CallsReturn`).

**Agent pool.** An agent whose status is `BUSY` has a task that is between `mark_busy`
and `mark_idle`, whatever raises on the way (`BusyMeansRunning`); the counts agree
with the tasks under way (`CountsAgree`; counts that two threads update at the same
moment are only so with `Tearing = {FALSE}`); fallbacks and fix tasks of fix
tasks end (`CallsEnd`: each step of a call's thread decreases the number `CallLeft`).

**Kernel (`kernel_state`).**

| Part | Property | Says |
|---|---|---|
| memory | `KeepsPromise` | what a key shows changes as `KeyValue` allows |
| | `DiskCurrent` | with one thread at work, the index file is what memory says, after stores, reads and restarts. It does not say that a file torn by a death can be read: such a file is taken for an empty one |
| bus | `SentIsKept` | what was acknowledged as sent is in a topic, or was taken from it. Without a broker; of one that is there nothing is promised |
| planning | `AskedOrderKept` | what the model listed before something is done before it |
| modules | `HooksPaired` | who was told of a start was told of the end once the task is answered, unless it was unloaded meanwhile |
| | `RequestsAgree` | the requests counted for a model are the tasks recorded with it, unless two threads first meet the model together, which loses one |
| models | `RiskKeptFromLocal` | a risky task is reviewed and not the local model's, and where providers are ranked the local one comes after two others |
| calls | `GivenUpStaysOut` | a model given up in a session is in no later plan: only calls planned before may give it up again, so at most one for each thread |
| | `TokensAreOfAnswers` | tokens registered are those of answers; additions of two sessions at once may be lost |
| local model | `AskedWhereAnswered` | a question goes only to an address that has answered a probe |
| host commands | `GhRunsPrepared` | where gh is about to run it is installed, and a login was seen, in that place unless one of the two lookups missed the host's gh |
| availability | `HealthyMeansTried` | healthy is said only when the last list or generation asked for was given. For `agy` this means exit code 0, which is less than an answer |
| gate | `LetThroughIsClean` | what is deployed is on a developer's machine, and no tool said "high" or "critical" of it; semgrep's "error" and tools that fail are exempted |
| chat, queue | `AnsweredRunsOnce` | once a text has an answer stored, no further run of it begins |
| | `RemovedWhenAnswered` | a queue file is removed when each of its tasks was answered, or when it was written while the listener worked on an earlier one |
| voice | `WholeUtterance` | an utterance ends with more silence than it may contain, and has the frames it must have, pauses inside counted |
| chat of developers | `NothingSaidIsLost` | messages of a session are only appended to. That nothing comes from another session is not said |

`KeepsPromise` is a refinement: with one thread at a time a value may turn into its
text and do nothing else; what was deleted or has expired may come back as a text,
since the store is not asked to forget (`hybrid_memory.py:352`). With several threads a
key may show an older write of its own or one of another key, never nothing.

In `kernel_threads`, a queue file leaves the queue once the process is no longer restarted
(`QueueDrains`), unless a task in it cannot be created or its run raises: the listener then logs,
sleeps and reads the same file again. With `fielded` false, which is the code as it
stands, only a file without tasks leaves it; the property says nothing else of
it than that the listener comes back to its next turn. An unloaded voice listener stops,
also while another one is begun (`ListenerStops`).

### Findings

* **A failed logout is reported as a success** (`auth_logout`).
  `auth.ts` answers the same after its UPDATE failed; the session stays usable.
* **Invalidation does not reach a fill in flight** (`access_invalidation`). A
  SELECT sent before a revocation fills the cache after its invalidation, so a
  request that arrives after the answer is decided by the revoked role, for at
  most the bound above. `docs/PROJECT_FULL_DOCUMENTATION_EN.md:75` promises
  "Access profile caching with invalidation on updates".
* **A second read removes an intact checkpoint** (`vfs_reread`).
  `_inject_artifacts` writes the texts into the dictionary it shares with the
  node, whose checksum then no longer matches: the next read "recovers".
* **A busy agent is given tasks of high priority** (`pool_busy`). `mark_idle` makes an
  agent `IDLE` while another of its tasks runs; `ai_bridge/README.md:562` says that a
  busy one takes "only low-priority tasks".

### Disagreements without a run

Read while modelling, and part of the models where a module is named; each is a matter of one
handler, or has no line of the documentation to be held against.

* `create_standard_task` (`task_submission_api.py:209-212`) gives no `project`, which
  `TaskContext` requires (`models.py:119-131`): every task raises, and
  `test_task_submission_api.py:11` expects one (`TaskIntake!Created`).
* The two lookups of gh (`host_bridge.py:154`, `:158`) may disagree, since a question that fails means
  "no" (`:82`): a login is seen at the host and gh is run in the box (`HostCommands!FindGh`).
* `agy` exits with 0 while asking to sign in, as `external_ai_bridge.py:116-128` and `:197`
  know; `antigravity_manager.py:141` and the sign-in script take 0 for health
  (`ProviderHealth!Generation`, `Verify`, `LogIn`, `Confirm`).
* A record stored by a thread that appends between another's append and index update
  goes under the other's key (`persistent_memory.py:269-270`; `HybridMemory!Index`).
* A restored entry is the JSON text of the value (`hybrid_memory.py:404`, `:421`), which
  `orchestrator.py:368` does not take for a dict (`HybridMemory!Shown`).
* PUT preferences stores an outdated copy of a profile again; login, registration and PUT profile store rows without
  `ui_preferences` (`users.ts:196`). PATCH of an address drops the copy under the new address only. Unlocking
  leaves `failed_login_attempts`; `updateUserXP` drops only the profile's copy; a login's UPDATE has no condition on
  `deleted_at` (`UserAccounts`, but for `ui_preferences`). If `updateUserXP` fails, the lesson is completed without points
  (`db.ts:435`; `LearningProgress`).
* Chat texts of Hebrew letters pass the chat's own check and are refused by the kernel,
  which the chat reports as completed, and with a full trace as an error 500 (`TaskIntake`).
* `AgentStatus` is not imported in `orchestrator.py` (lines 691, 696; `AgentPool!Imported`),
  `field` not in `core/healthchecker.py`; with etcd, `store_command` raises a NameError
  (`persistent_memory.py:372`). `LocalLLMModule` defines its query twice, the second replaces the first.
* `record_failure` takes "api_timeout" for offline; nothing in production reads the cache of
  failures or calls `is_provider_ready` (`ProviderHealth`). The gate counts semgrep's errors as medium, and a failing audit finds nothing (`DeployGate`).
* Layered plans, which `task_decomposer.py:181` speaks of, are not reached in production (`TaskPlan`).

### Bounds

* *Sessions.* `AccessTTL = 1`, `RefreshTTL = 2`, a clock of at most 1 or 2: an access
  token expires while the refresh token lives, and in `auth_honest` (clock 2) the
  refresh token does too. Two requests in flight are what it takes for a handler to
  meet another between its SELECT and its UPDATE; two sessions of one user are what a
  password change in one needs to end the other, two browsers what two cookie jars
  need to hold them. `auth_honest` has one browser with one page, and nothing lost. A slot is
  reused, so the number of requests is not bounded. Names are interchangeable
  (symmetry; these runs check safety only).
* *Access control.* Lifetimes and latency of 1 and a clock of 3 let every entry
  be used outdated and then expire. `MaxChanges = 2` gives a change, and another one
  while the first is being answered. Three roles are the one that administers, one
  to give and take, and the one of users without a row. The liveness run does without
  symmetry, which TLC does not allow there, and gets by with one change and a clock of 2.
* *Accounts and points.* Two requests; `CacheTTL = Latency = 1` and a clock of 5, past both windows; a
  lock after two failures. Behaviours are split into groups (password, lock, guess, delete,
  move, create, profile, shown, learning), each with the requests and changes that act on the same
  columns and copies: all at once are out of TLC's reach, and not of the proof's.
* *Checkpoint store.* Two threads of two processes are two writers, a writer and a
  reader, or a caller and one that dies with the lock; in `vfs_reread` both are in one process. `MaxWrites = 1` bounds the moves
  made when a call starts: both may write at the same time, so two versions exist.
  Crashes and power losses are not bounded.
* *Agent pool.* Two agents, a local one that also does fixes and one of an external model; two
  threads with a task of high or low priority; two submissions (`MaxCalls`), each with its fallbacks
  and fix tasks; `RetryLimit = 3`.
* *Kernel.* Two threads, two bus agents, two clients, two voice listeners: what it takes to
  meet another between two steps. A hot entry (`MaxHot = 1`) makes each second write evict; three requests (two
  where threads interleave, `FewTogether`) are a write, an eviction and a restore. Plans have three tasks of two names: one repeated, one that comes later.
  Two tasks and two loads or unloads of modules; two retries and a budget of two; three calls, so
  that one meets a model another gave up; two uses of the local model; three chats; two checks of providers.
  Queue files have two tasks: good ones, or one that is empty or that means nothing without its trigger word. In
  `kernel_threads` one file has no task at all, which is the only one that leaves the queue as the code stands. An answer fits a trace of one run (`MaxTrace`), so the next does not.
  `MCNext` leaves out what only renames or combines what shares nothing: `SameFirst`, `OneProvider`
  (both checks are of one provider), `AskedOrSetUp`, `ChatOrQueue`.

The proofs have none of these bounds, nor the groups and restrictions of the `MC`
modules: a bound on a counter is a constant of any value there.

### Fairness

* `AuthSessions`, `BackendState`, `KernelState` state none: only safety is checked.
* `AccessCaches`: weak fairness of a continuation (the event loop runs it), strong
  fairness of each request's statement and of the shared refresh. PostgreSQL answers
  or the connection fails, and the event loop takes answers in the order they
  came, so one that waits behind others again and again is still handled.
  No failure is forced: `Fail` is one of the ways a statement ends.
* `VirtualFileSystem`: strong fairness of each thread's steps. The release of a flock
  wakes all who wait, so one that finds it free time and again takes it some day.
  No call has to fail, nobody has to die, and no process has to recover.
* `AgentPool`: weak fairness of each thread (`CallsEnd` does not need it).
* `MCKernelThreads`: weak fairness of the listener's thread, in its run and in its turn,
  of each voice listener's steps, since a microphone goes on delivering frames, and of the
  thread that handles an utterance. `QueueDrains` speaks of behaviours in which the
  process is restarted finitely often; clients and writers are free.

## 4. Proofs

Every theorem is `Spec => ...` for all values of the constants that meet the
modules' named assumptions. None of the properties is inductive; each
proof module states its strengthening and has one lemma per action.

**AuthSessionsProofs.** `IndInv` adds to the properties what is true of each request in
flight (`RequestOK`): its token names a session that has a row, so that no login draws
the id again; it was not signed in the future (this bounds the hash by `expires_at`);
the sessions it has set out to end are other sessions of the same user; those its
reply rightly reports are revoked already. The steps share one fact, `RowsKept`: no
statement takes a row away, gives it to another user or revives it. `HonestInv` (one page
per browser, `Reliable`) says where the newest token of a session can be: in the jar of
the browser that opened it, in the reply of the one refresh in flight from it, or in a
login reply that nobody else knows of.

**AccessCachesProofs.** `IndInv` gives every place that holds a copy of a profile or of
the grants its own bound on how long ago the tables may have changed under it: the answer
of a SELECT, the cache entry (`ProfileWindow`, counted to its expiry), the refresh in
flight, the permission map (`RefreshWindow`), the hands of a request (`GrantWindow`).
Each step that copies from one place to the next stays within the next one's bound; each
step on the tables stamps `turned` or `stripped`.

**BackendStateProofs.** Accounts are proved in the same way: of every copy and every
handler's local there is a time, not too long ago, at which what it says was so. Learning:
what was paid is what was recorded as acquired (`Earned`, `Recorded`), one request at most is
about to pay for an item (`PaidOnce`), and one says so (`ToldOnce`). A first form of
`DecidedByRecentRow` with one window for both failed in the proof, at a behaviour that needs a longer chain
of copies than TLC had been given.

**VirtualFileSystemProofs.** `Locked`: a thread between its move and its sync has the
lock and its version is the one on disk. `Versions`: one that waits for its COMMIT
record has synced its version, unless a reader has removed the file since.
`ThreadTexts`: a writer's text has its file before the checkpoint refers to it, and only
a power loss takes one away.

**AgentPoolProofs.** `BusyInv` relates the status of each agent to the frames between
`MarkBusy` and `MarkIdle`, `CountInv` the counter of its tasks to the frames that have counted up and not down. `CallsEnd` rests on `CallLeft`: the steps that are left on the path of each frame, those of a fix task
that may still follow, and as much for each task left in the plan.

**KernelStateProofs.** The parts share no variable, so an invariant of one is
kept by each other's steps for nothing (`...Stutter`), and `TypeCorrect` joins them.
Memory is the longest: `MemTypes`; `MemValues` (whatever is anywhere was written to its
key, or to some key where threads interleave, and what shows nothing was removed or is
volatile); `MemThreads` (`Indexed`: what a thread has appended and not yet indexed);
`MemAlone` (with one thread the index is the list) and `MemDisk`. From these each step
maps to a step of `KeyValue` or to a stutter (`PromiseKept`). The bus adds where what was
sent can be; the modules, what a thread in a loop has still to tell; the intake, that who works on a
text has found no answer or began before it; plans, that whom a task waits for comes before it; voices, that
what a listener has heard since its last cut is one utterance; the chat, that each message of an object
put aside is in the table too.

**KernelCallsProofs.** `Earned`: tokens registered or about to be are of answers. `Prepared`: each step between the first
lookup of gh and its run has what the earlier ones saw, or the thread is misled, and nothing takes gh out of the
box again. `Learns`: what the check of a provider has asked for last. The others are invariants on
the same pattern, or case analyses (`RiskNotLocal`).

| Module | Theorems (the property each states) |
|---|---|
| `AuthSessionsProofs` | `TypeCorrect` (TypeOK), `EndedStaysEndedCorrect` (EndedStaysEnded), `NoAccessAfterEndCorrect` (NoAccessAfterEnd), `RowOutlivesTokenCorrect` (RowOutlivesToken), `HonestClientKeptCorrect` (HonestClientKept) |
| `BackendStateProofs` | `DecidedCorrect` (DecidedByRecentRow), `PointsOnceCorrect` (PointsOnce), `TypeCorrect` (TypeOK) |
| `AccessCachesProofs` | `TypeCorrect` (TypeOK), `AdmittedCorrect` (AdmittedByRecentRole), `LongHolderCorrect` (LongHolderAdmitted) |
| `VirtualFileSystemProofs` | `TypeCorrect` (TypeOK), `CommitsCorrect` (CommitsSurvive), `TextsCorrect` (TextsKept) |
| `AgentPoolProofs` | `BusyMeansRunningCorrect` (BusyMeansRunning), `CountsAgreeCorrect` (CountsAgree), `TypeCorrect` (TypeOK), `CallsEndCorrect` (CallsEnd) |
| `KernelStateProofs` | `PromiseKept` (KeepsPromise), `DiskCorrect` (DiskCurrent), `TypeCorrect` (TypeOK), `SentCorrect` (SentIsKept), `AnsweredOnce` (AnsweredRunsOnce), `RemovedCorrect` (RemovedWhenAnswered), `WholeCorrect` (WholeUtterance), `AskedOrder` (AskedOrderKept), `PairedCorrect` (HooksPaired), `RequestsCorrect` (RequestsAgree), `SaidIsKept` (NothingSaidIsLost) |
| `KernelCallsProofs` | `RiskNotLocal` (RiskKeptFromLocal), `GivenUpCorrect` (GivenUpStaysOut), `TokensCorrect` (TokensAreOfAnswers), `AskedCorrect` (AskedWhereAnswered), `PreparedCorrect` (GhRunsPrepared), `HealthyCorrect` (HealthyMeansTried), `LetThroughClean` (LetThroughIsClean) |

**Assumptions** are named in the modules that declare the constants (`...Assumption`):
constants that are numbers are so, `None` is not one of the values it stands beside, the
sets of the instance are finite where they are counted. TLC evaluates all of them.

**Only model-checked.** The liveness properties (`HandlersFinish`, `CallsReturn`,
`QueueDrains`, `ListenerStops`): liveness under fairness is out of the prover's
reach. The four violations are counterexamples of TLC. That the models say what
the code does is neither checked nor proved: `map` in `PROJECT.json` names the lines of each definition.

## 5. Hazards no property covers

* `users.ts:1037`, `:1071`: two administrators take each other's role; a
  transaction whose statements go through the pool, on any connection.
* `auth.ts:844`, `rbacService.ts:88`, `:331`, `unified_vfs.py:150`, `:209`: failures
  between statements whose remains nothing promises to remove.
* `orchestrator.py:367`, `:548`, `:675`, `:693`, `:863`, `agent_lifecycle.py:63`,
  `load_balancer.py:31`: torn counters and choices by outdated status, which cost balance only.
* `persistent_memory.py:479`, `:493`: a death in the middle of a write leaves a torn file, which the next start
  takes for an empty one: all records are lost. `HybridMemory` has the steps (`Torn`); `DiskCurrent` cannot fail by it.
* `message_bus.py:108`, `rabbitmq_bus.py:138`: with a broker, what is acknowledged may be only there or only here.
* `task_listener.py:72`: a file written while the listener works is removed unread; a
  death before the removal runs its tasks again. `TaskIntake` has both (`file.during`, `Restart`).
* `api_bridge_module.py:286`: two submissions of a text that both begin before an answer is stored run both.
* `task_submission_api.py:209`: above. `voice_listener_module.py:61`: pauses count as speech.
* `model_usage_module.py:56`, `:91`, and the adding up of tokens in the two routers: additions of two threads lost (`met`, `lost`).
* `host_bridge.py:57`, `:77`: the file of allowed commands is empty for a moment; a failed question means "no".
* `availability.py:194`, `openai_model_registry.py:81`, `orchestrator_control_module.py:60`,
  `provider_budget_router.py:109`, `task_decomposer.py:189`: caches and rows that are replaced whole while others read them.
* `db.ts:435`: completed without points. `migrations.ts:235`: the seed, which runs at every start, makes every
  revoked assignment of the default user's role active again; beside another row of the role the unique index
  refuses it, and in production the server does not start.

## 6. Not modelled, and plan

Not modelled, with the reasons in `PROJECT.json`: migrations and seed; publications,
dictionary and avatars; audit, telemetry and logs; proxies; credentials and limits; agents and adapters; code
generation and design; the front end but for its refresh; infrastructure. They keep no state that two
actors share, or none that anything is decided by.

Left out of the modelled components: the address block list and request limits before a login;
role expiry dates, `requireAnyOrOwnPermission`, the routes that create, rename and delete
roles; the journal's other records and events of the checkpoint store; the copies of hot entries in the backend
and the indexes of terms of the memory; the replacement of a user's roles with its
guard for the last administrator. Each component's note in `PROJECT.json` says what is missing from it.

What remains worth doing, in this order: the last administrator with two requests and the transaction through
the pool; the bus with a broker, with what a consumer may rely on; a queue file that is replaced or run again, as a
property that the code breaks and a promise worth writing down; sessions with
access control (a request passes `verifyToken`, then `requirePermission`: which of two administrators' actions
can still take effect after both were taken back).
