# Verification of kb-rag-mcp

TLA+ modules, TLC runs and TLAPS proofs about the program in `src/`: a knowledge
base that ingests a directory of documents into a vector store and serves
searches over it to language-model clients. The modules are translated from the
code; `PROJECT.json` maps every definition to the lines it stands for.

1. [The system](#1-the-system) — inventory of components, state, interactions
2. [The modules](#2-the-modules) — what models what
3. [The runs](#3-the-runs) — what TLC checks, bounds, fairness
4. [The proofs](#4-the-proofs) — what holds for every value of the constants
5. [Disagreements](#5-disagreements) between the code and what it says of itself
6. [What is not modelled](#6-what-is-not-modelled)
7. [The plan](#7-the-plan)

## 1. The system

Three kinds of processes share three stores, with no transaction across stores:

    kb-rag job ...  \                     / schedule loop (in the MCP server)
    (CLI processes)  >-- jobs table -----<  file watcher (a service)
    executors       /   kb_metadata.db    \ administration API
        |
        v
    process_file --> registry.db (files)          MCP server: search tools
        |   \------> Qdrant (chunks) <----------- caches, rate limit, sessions
        v                                              |
    embedding providers <------------------------------+
    (chain, circuit breaker, budget)

Embeddings are asked for by the ingestion and by every search. Beside these,
connectors bring remote documents to a staging directory; commands rewrite tags
and classifications of what is indexed; a health server and a web UI keep the
configuration and the accounts; offline experiments index the documents anew.

| component | state | operations | interacts with |
|---|---|---|---|
| Job store (`ingest/job/models.py`, `manager.py`) | row of `jobs`: status, priority, times, progress | create, start, complete, cancel, pause, resume: conditional UPDATEs | every process, through SQLite |
| Job scheduler (`ingest/job/scheduler.py`) | its limit of running jobs | count, select next, bulk cancel / pause / resume | job store |
| Job CLI (`ingest/cli/job.py`) | none | create, pause, resume, cancel by id prefix, clean | job store |
| Job executor (`ingest/worker/executor.py`) | position in `execute_job`, counts | poll, drain, execute, collect results | scheduler, job store, pool |
| Worker pool (`ingest/worker/pool.py`, `worker.py`) | two queues, workers, `running` | start, stop, submit, get_result, worker loop | executor, process_file |
| Ingestion (`ingest/ingest.py`) | position in `process_file` | check, extract, delete old chunks, embed, upsert, mark; `--sync`, `--clean` | registry, vector store, embeddings |
| Registry (`IngestRegistry`) | row of `files`: status, hash, tags | needs_ingest, mark_ok / error / deleted, reset | ingestion, watcher, CLI |
| Vector store (`kb_server/vector_store.py`) | chunks per file (Qdrant) | delete_document, upsert_chunks, search, update_tags | ingestion, server |
| Embedding client (`kb_server/embed_client.py`) | cache | get_embedding, get_embeddings_batch over a provider chain | breaker, budget, providers |
| Circuit breaker, budget | per provider: state, failures, cooldown; timestamps | check, record_success / failure; check_budget, record_request | embedding client |
| File watcher (`ingest/watcher/file_watcher.py`) | timers and events per path | debounce, ask for a job; delete chunks and row | job store, registry, vector store |
| Schedules (`kb_server/schedules`, loop in `server.py`, `ingest/core/cron.py`) | rows of `schedules` | create, update, delete; a job for each due schedule | job store |
| Rate limiting (`limiter.py`, `rate_limiter.py`) | token buckets per subject | acquire, try_acquire, clean up | server, connectors, workers |
| Caches (`kb_server/cache`) | LRU with sizes, retrieval results | get, put, evict | server |
| Filter terms (`filter_terms_cache.py`) | distinct values of each field, time of the marker | re-index on a newer marker file | server, ingestion, reclassification |
| Retrieval (`server.py`, `kb_server/retrieval`, `vector_store.py`) | position in a tool call | search, fuse, rerank, list, windows, graph tools, statistics | vector store, embeddings |
| Tags (`ingest/cli/tags.py`, admin pages) | tags of a file, in registry and chunks | update, delete, bulk edits | registry, vector store |
| Reclassification (`reclassify_engine.py`, CLI) | table of backups | run, roll back | vector store, metadata store |
| Connectors (`ingest/connectors`) | checkpoint, position in a sync, staged files | fetch_documents page by page, stage, clean up | remote sites |
| Auth (`kb_server/auth`) | users, API keys, sessions, erasure requests | log in, create, revoke, erase; seed the admin account | UI, CLI |
| Configuration (`kb_server/config`) | table with a version; a cache for each process | get, set, delete, reset, refresh, seed from the environment | every service |
| Metadata store (`MetadataStore`) | tables, schema version, quota rows | create and migrate the schema; set and check quotas | jobs, schedules, reclassification |
| Experiments (`kb_server/optimization`) | the experiment collection, result files | chunking and scoring runs, sweeps | vector store, embeddings |
| Sessions (`_SessionTracker`) | last use of each | evict the oldest | the session manager of the `mcp` library |

At this commit no command starts a `JobExecutor`: it is the library half of the
job system, exercised by `tests/test_worker_system.py` and run by whoever embeds
it. The modules `JobQueue` and `JobExecution` describe it for that use, with any
number of executor processes on one database.

What is hard, and for each part what "correct" means:

- **The job queue** is updated by processes that only see each other through
  committed rows, and reads in one statement what it acts on in another.
  Correct: one executor per job, a job that has ended stays ended, every change
  follows the lifecycle of `models.py`, running rows are owned, pending jobs are
  not forgotten.
- **The pool** is one event loop whose coroutines block on two queues, one of
  them bounded, and on two waits with a timeout. Correct: no task is lost or
  counted twice, a job ends with the outcome its files had, `stop()` and
  `execute_job` come to an end.
- **Ingestion** writes to a vector store and a registry which can each fail, in
  between which the process can die, the file can change and someone else can
  withdraw it. Correct: a row `ok` vouches for what is in the index, searches
  never mix versions, what failed or was interrupted is taken up again.
- **The embedding client** decides before an await what it records after it.
  Correct: the budget is exceeded by at most the calls in flight, the breaker is
  open exactly after enough failures, and recovers.
- **A tool call** asks a limiter whose buckets come and go, then a cache whose
  entries are of an index that has changed since, and gives up the event loop
  twice between looking in the cache and filling it. Correct: nobody gets more
  than the rate, a refused client is told how long to wait, the cache holds what
  a search found and its size is what it counts.
- **Waiting for the limiter** gives up the lock for the length of a sleep.
  Correct: nobody is left behind as long as requests come to an end.
- **Schedules** are read by one loop for each server, and a job and the record
  of it are two transactions. Correct: no more jobs for a minute than the
  servers and their failures explain.
- **The watcher** has an observer, timers and a main thread on two dictionaries
  without a lock. Correct: every event is followed by an attempt to create a
  job.
- **Filter terms, configuration** are caches of a table that others change, with
  a marker file or a version number to say so. Correct: readers come to see what
  is there, in the first case without a table older than the last marker.
- **A reading tool** is a few requests to an index that moves. Correct when it
  did not move: nothing is left out, nothing comes twice, the better first.
- **Accounts** outlive several requests, a restart and a session that nobody
  rolls back. Correct: an erased user stays out.
- **Tags and reclassification** write several stores, document by document, and
  stop half-way. Correct: repeating a command that failed repairs, and what was
  ingested can be had back.
- **Connectors** page through a site that changes, with checkpoints. Correct: a
  version that was never staged is fetched by the next sync, whatever error was
  reported in between.
- **The schema** is migrated statement by statement by whoever opens the file.
  Correct: a recorded version has its tables; of those who race to migrate one
  wins.
- **Experiments** share one collection and redirect a store. Correct: a result
  measures its own chunks, and production stays clean.

## 2. The modules

**`JobLifecycle`** — the abstract specification: one status per job and the
moves `models.py` allows. It says nothing of who moves a row or when.

**`JobQueue`** — the jobs table and the processes that update it. `status`,
`prio`, `created` are columns; `pc`, `job`, `backlog`, `limit` are the local
state of an executor in `run_loop` / `execute_all_pending`, `bulk` that of a
process in the middle of a bulk operation. Every committed statement is one
action: `Update` is the conditional UPDATE of `manager.py`, with its WHERE
clause. `CanScheduleMore`, `CountRunning`, `SelectNext`, `Start` are the four
statements between "is there room" and "the row says running". `BulkList` is the
SELECT of a bulk operation, `BulkUpdate` one iteration of its loop;
`CleanDelete` the transaction of `job clean`, which tests only ids. `Crash`
loses the local state of an executor and leaves the row. The history variables
`revived` and `orphaned` name the two situations in which ownership is given up:
a job resumed while its first executor is still at it (a pause does not reach an
executor), and a row left by a crash. What happens inside `execute_job` is one
pair of steps, `Start` and `Finish`; it is detailed in

**`JobExecution`** — one executor and its pool. `tasks` and `results` are the
two queues (`tasks` bounded), `unfinished` the counter behind `join()`, `wpc`,
`wtask` the workers, `spc` and `signals` a `stop()` in progress, `epc` with
`cur`, `sent`, `processed`, `failed` the local state of `execute_job`. Since a
coroutine is interrupted only at an await that blocks, a step is what runs
between two: `Submit` puts as many tasks as there is room for, `PutSignals` as
many stop signals, `Deliver` puts the result, calls `task_done` and tests
`running` at once. `StartPool` creates new workers on the *old* queues, as
`start()` does. A statement on the jobs table can raise: before the files are
submitted (`ExecuteNothing`) and after it, at an update of the progress or at
the completion (`CollectFails`, `CollectTimeout`); `Except` is the handler,
which marks the job as failed, or raises itself and leaves the row running.
`Interrupt` is the cancellation at an await, which no handler of `execute_job`
sees. All ways to leave before the last result go through `LeaveEarly`: the
results of the tasks submitted are still to come, and `owed` counts them.
`outcome`, `collected`, `lost`, `owed`, `excepted` are history.

**`IngestIndex`** — registry and index. `index[p][t][b]` counts the copies of
the `b`-th batch of the chunks of content `t` under path `p`: chunks get fresh
ids, so nothing overwrites. `Check` .. `MarkOk` are the stretches of
`process_file` between two reads or writes of shared state; `Fail` is the
exception handler, which itself calls `mark_error`, and it is enabled wherever
the body can raise, `mark_ok` included. When the handler raises too the run ends
(`Crash`). A content is `Unreadable`, `Short` (extracted, but no chunk
survives), or one of `Texts`; the hash of a file is its content. The maintenance
operations come in their two halves (`DropChunks` then `MarkDropped`, `SyncList`
then `SyncDeleted`, `CleanIndex` then `CleanRegistry`), between which anything
can happen. The history variable `disturbed` says of each path what interfered
with its ingestion: `"others"`, another run was writing it or a maintainer took
its chunks away; `"edit"`, the file changed between extraction and `mark_ok`,
which then hashes what was not ingested; `"crash"`, the run died in between;
`"vouched"`, a run died and the row vouches for the file all the same, because
it was forced or the file was put back. It is `"nothing"` again when an
ingestion that is alone deletes the old chunks. Each property names the reasons
it does not cover.

**`ProviderResilience`** — coroutines that dispatch texts along a chain of
providers, with `breaker` and `usage` (the deque of the budget, as ages) per
provider. A coroutine gives up the loop only in the call: `Answered` and
`Failed` record the result and go on to the next call in one step, exactly as
`_try_provider` and `_dispatch_with_resilience` do. `Continue` goes through the
texts and batches that remain; `SendBatch` is the native batch path, which
checks neither breaker nor budget; a chain is any of `Chains`, and only one of a
single provider takes batches. `Tick` lets time pass.

**`TokenBucket`**, **`LRUCache`** — operators, no state: a bucket of
`limiter.py` in sixtieths of a token, so that a second adds `RequestsPerMinute`;
the cache of `lru.py` as the sequence of its entries, least recently used first,
with the count the code keeps beside it. Both run under a lock that is never
held across a wait, so an operation is a function. `AfterPut` evicts as the loop
of `put` does: the entry being replaced is off the count and still in the table.

**`ToolCalls`** — the server's path of `search_kb`, which joins the two.
`Request` is `handle_mcp` up to the point where the session takes over (over
stdio, `Read` asks nobody), `CallTool` the check in the dispatcher; then
`CacheHit`, or `CacheMiss`, `Embedded`, `Search`, `Answer` with an await between
any two. `Check` is a whole `ServerRateLimiter.check`, cleanup included. An
entry's `val` names the query and the version of the index it was found in, and
`at` when a search put it. `IndexChanges` is any ingestion, which tells the
server nothing; `Observe` starts a window of time in which `granted` counts. The
limiter and the retrieval cache are taken to be enabled and authentication to be
off; a session is used by the client that opened it; a search of several
collections is one evaluation; the size of a result list is `sys.getsizeof` in
words, a header and a pointer for each result.

The modules meet at these points: `JobQueue`'s `Start` .. `Finish` is
`JobExecution`'s `ExecuteJob` .. `CompleteJob`; a `Deliver` of `JobExecution` is
a whole behaviour of an ingester of `IngestIndex`; its `Embed` is a
`GetEmbeddingsBatch` of `ProviderResilience`, whose failure is `Fail`. The
following modules are about single components, each with its own part of the
stores; jobs created by `Schedules` and `Watcher` are `CreateJob` of `JobQueue`,
ingestion appears in the others as one step that rewrites what it rewrites.

**`JobQueue`** implements `JobLifecycle`: `Lifecycle` instantiates it with the
column `status` for its variable, and `FollowsLifecycle` says that every step of
every process is one of its moves or leaves the status alone.

**`Waiting`** — the tasks of one event loop that `acquire`. Tokens and refills
are those of `TokenBucket`; time is relative, since a bucket that has been full
for a while stays so. `Acquire` is the body of the loop for one limiter: take,
or sleep for what is missing *now*. A path of several limiters is `acquire_all`.

**`Schedules`** — `schedule` are the rows, `iteration` the local state of each
server's loop, `minute` the clock. A cron expression has two fields, minute and
hour, and `CroniterAccepts` is what the library rejects although `validate_cron`
accepts it. `Trigger` creates the job, `RecordRun` updates the row or fails.

**`Watcher`** — one path: the stretches of `schedule` and `_execute` between two
accesses to a dictionary are actions of the observer and of the timers.
`TriggerIngestion` is an attempt to create a job. `Connected` is false, since
`main` never connects its store: each attempt raises and is counted as refused.

**`FilterTerms`** — the payloads are a generation; `BeginScan`, one `ScanField`
for each field, and the readers that wait for the lock and read the table.

**`ConfigStore`** — the table with its version, a loader for each process: what
it cached, the version it knows and the values of its environment.
`ReadTableVersion` and `ReadRows` are the two halves of a refresh.

**`Retrieval`** — a tool call as the requests it makes. Chunks are numbered, a
query is the orders it induces on them, a filter the chunks it keeps; the fusion
is that of `_rrf_fusion` on ranks, a multi-collection search merges the lists. A
fused score is an exact fraction, where the code adds floating-point numbers. A
query says how many chunks of each ranking reach the score threshold (`Depths`);
each half of a hybrid search is cut at `HybridCap`, what is retrieved for a
reranking at `RerankCap`. A sparse model that cannot be loaded fails the call, a
sparse search that fails leaves the dense list.
The answers are compared with a reference: what a search, a listing or a window
over a still index contains, stated without fusion, pages or offsets.

**`Accounts`** — the account database. Each handler is a transaction; `wedged`
is the SQLAlchemy session of the UI after a failed flush. `seeding` and the CLI
are several transactions.

**`Reclassification`** — a value is the generation of the rules that gave it.
Commands are processes with the changes they detected; `Backup`,
`UpdateDocument`, `LogChanges` are their phases, rollbacks those of theirs.

**`Tags`** — `registered` and `indexed`, the tags of a file in the two stores,
and the commands that write them one after the other. A command works on one
collection, here the set `held` of the documents whose chunks are there; for the
others it writes the registry alone. `tags update` skips a document that would
have too many tags (`TooMany`), `delete-tag` does not look.

**`Connectors`** — a remote source whose documents change, and a sync with its
pages, for JIRA, both kinds of Confluence, and git; staging and its clean-up.
What a sync leaves out without an error is in `missed`: files whose `git show`
failed (`GitSync`), results after a response without a total
(`PageWithoutTotal`). A Confluence lists its first 200 spaces (`Unlisted` are
the others). The caller, which keeps a checkpoint, is external and follows
`ConnectorBase`.

**`StoreSchema`** — the tables of the file, the recorded version, and processes
that open it, each at a statement of `_migrate`, and the rows that the
migrations insert. A file of an earlier release may have any version from 1 on.

**`Experiments`** — the two collections, the `VectorStore` of each runner with
the collection it is redirected to, the phases of a run, the result files. A
runner begins runs of both kinds in any order, so a scoring run can find the
store as a chunking run has left it.

`MCServices` and `MCStores` put such components side by side: a behaviour is
chosen to be one of a single component (`part`), and the others stay in an
initial state. Since the modules share no variable this loses nothing, and the
states are the sum of the components' states and not the product.

`MC*.tla` declare the model values and the symmetries for TLC. Definitions whose
comment begins with "Variant" are plausible mistakes in the definition that
follows; each property is shown to fail when one of them takes its place.

## 3. The runs

| run | question | bounds |
|---|---|---|
| `JobQueue` | ownership, lifecycle (a refinement) and progress of jobs | 2 jobs, 2 executors (one draining), 1 bulk operator, 1 resume, 1 crash, limit 1 |
| `JobQueue_capacity` | by how much the limit on running jobs can be exceeded | 3 jobs of 2 priorities, 2 executors, limit 1 |
| `JobExecution` | tasks, outcomes, `join`, what an execution that ends early takes from later jobs, `stop()`, termination | a job of 1 or 2 files and a drained one of 1, 2 workers, task queue of 1, 2 starts, 1 error of the jobs table, progress written at every result |
| `IngestIndex` | what the row says of the index, versions, failures and crashes | 1 file, 2 texts and the two odd contents, 2 batches, 2 ingesters, 1 maintainer, 2 edits, 1 forced run, 1 failure, 1 crash |
| `IngestIndex_queued` | are files queued by `tags reingest` ingested (no) | 1 file, 1 ingester, 1 edit |
| `ProviderResilience` | budget, the state of the breaker against the results, cooldown, recovery | a chain of 2 providers, or 1 with the native batch path (batches of 1); 2 coroutines, threshold 2, cooldown 1..2, window 1, budget 1 |
| `ProviderResilience_single` | does a half-open circuit admit one request (no) | 1 provider, 2 coroutines |
| `ToolCalls` | rates, announced waits, contents and accounting of the cache | 2 calls, 2 subjects, 2 queries, 75 requests a minute, a cache that holds two results lists but not of any size, TTL 1, cleanup every 2 s, 1 change of the index, 2 s |
| `ToolCalls_expiry` | do entries of the cache expire (no) | the same over stdio, 1 subject |
| `Watcher_service` | does the watcher's service create jobs (no) | 2 events of one path |
| `Services` | jobs of a schedule, events of the watcher, filter terms, configuration, answers of the reading tools, waiting tasks | below |
| `Stores` | accounts, reclassification, tags, connectors, schema, experiments | below |

| part of `Services` | bounds |
|---|---|
| schedules | 1 schedule, 2 servers, hours of 2 minutes, 3 expressions (one that croniter rejects), 1 failure or restart |
| watcher | 3 events of one path |
| terms | 2 fields, 2 readers and the scan at the start, 2 runs, 1 scan that fails |
| configuration | 2 processes, 2 keys (one of them seeded), 2 writes, 2 restarts, 1 read that fails |
| retrieval | 4 chunks of 2 documents in 2 collections, 2 orders, 3 chunks of a ranking over the threshold, top 1 and 2, both caps 2, pages of 2, 1 change |
| waiting | 2 tasks, 2 limiters, 75 requests a minute, demands of 1 and 2, 4 calls |

| part of `Stores` | bounds |
|---|---|
| accounts | 2 users, 2 erasure requests, 1 failure |
| reclassification | 1 document, 1 field, 2 collections, 2 commands, 3 generations of rules, 2 seconds, 1 crash |
| tags | 1 file, 2 tags of which an update leaves at most 1, 2 commands, each of the file's collection or another, 1 failure |
| connectors | git and 3 kinds of sites, 2 documents of one project (another is empty, and beyond the list of spaces), pages of 1, 2 changes, 1 failure |
| schema | a new file or one of versions 1 to 6, 2 processes, 2 crashes |
| experiments | 2 runners, 2 result files, 2 runs of either kind (2 batches), 1 failure |

Why these are enough: every race of the code is between two parties over one
row, file or provider, so two of each side suffice for it to occur; a queue of
one place is full with the first task, a stop with two workers then blocks; two
batches of chunks have a middle; a threshold of two has a first and a last
failure, a cooldown cap of twice its base is reached by the second opening. A
second server, command, runner or user is what the properties of `Services` and
`Stores` are about, one failure makes each partial state, and two pages have a
border; with one schedule, an iteration never leaves rows behind it, but rows
are handled one at a time and each has its own next run. One executor crashing
once leaves an orphan that blocks a limit of one. 75 requests a minute is a rate
at which a bucket holds a fraction of a token between checks; two result lists
of 8 words fit in 17, one of 8 and one of 9 just do, and two of 9 do not, so
that a put meets each case of the eviction loop. Symmetry is used only in runs
without liveness. `CHECK_DEADLOCK FALSE` stands where the bounds (starts, edits)
exhaust what can happen; the queue and the providers never stop.

Constants that bound the model and nothing in the code: every `Max...` but
`MaxTags` (MAX_TAGS_PER_DOC), `MaxSize` (of the cache), `MaxMultiplier` and
`MaxRequests` (of breaker and budget), that is `MaxResumes`, `MaxCrashes`,
`MaxKills`, `MaxStarts`, `MaxFiles`, `MaxEdits`, `MaxForced`, `MaxErrors`,
`MaxFailures`, `MaxFaults`, `MaxAccountFaults`, `MaxExpFaults`, `MaxKept`,
`MaxVersion`, `MaxTime`, `MaxEvents`, `MaxRuns`, `MaxScanErrors`, `MaxWrites`,
`MaxRestarts`, `MaxReadErrors`, `MaxIndexChanges`, `MaxCalls`, `MaxRules`,
`MaxChanges`. `QueueCap`, `ProgressEvery`, `PageSize`, `ScrollSlack`,
`SampleSize`, `RerankCap` and `HybridCap` are constants of the code (1000, 10,
500, 10, 1000, 20 and 50) made small. The count of failures of a breaker is kept
at most at the threshold, and ages of requests at most one past the window:
beyond these no test of the code distinguishes them.

Fairness:

- `JobQueue`: weak fairness of `ExecutorStep(e)` for each executor. `run_loop`
  polls for ever, and `execute_job` ends because each wait for a result has a
  timeout of 300 s. Operators, crashes and the draining call are not fair.
- `JobExecution`: weak fairness of the coroutines that can run (the event loop
  is fair), of the two timeouts, and of `process_file` ending, whose requests
  have timeouts.
- `IngestIndex`: weak fairness of the steps of an ingestion and of the second
  half of a maintenance operation; strong fairness of a run reaching a file,
  since runs are repeated and each goes over all files it has listed. Used only
  in the run that refutes `QueuedIsReingested`, where more fairness only makes
  the refutation stronger.
- `Services`, and `Watcher_service` for the watcher: weak fairness of the
  observer and of every timer (threads of one process that nothing blocks for
  ever); of a process using its configuration, which each does again and again
  (every request, and the reload of the health server every few seconds); of
  waiting tasks that can run, and of time. Writes, restarts and failures are not
  fair, and come to an end by their bounds.
- `ProviderResilience`: weak fairness of time, of answers (HTTP calls have
  timeouts) and of new texts.

What the passing runs show, beyond their names: a cancelled job stays cancelled
although its executor later completes it; a job taken by another executor
between `SelectNext` and `Start` is not executed twice; an execution that ends
early costs later jobs as many results as it left, and no more; whatever fails
in an ingestion, the next run finds out; the recovery of a provider does not
depend on which of several late answers arrives first; no cleanup gives anybody
a second burst; a timer that lost its event to another one does no harm; a
loader that read a version and then the rows of a later one catches up; whatever
is rolled back in whatever order, the ingested value is in the payload or in a
backup; a fused ranking keeps every pair in the order on which the two agree.

## 4. The proofs

Eight modules hold the proofs: one each for `JobQueue`, `JobExecution`,
`IngestIndex`, `ProviderResilience` and `ToolCalls`, and three for the
components that `MCServices` and `MCStores` put side by side (`TablesProofs`,
`StoresProofs`, `ServicesProofs`). Each proves an inductive invariant of the
specification for every value of the constants (under the named assumptions of
each module: sets are finite where something is counted, bounds are natural
numbers, thresholds positive), and from it the safety properties of the runs.
Every invariant that a passing run checks is a theorem but for `RacesAreWon` of
`StoreSchema`, and so is the refinement `FollowsLifecycle`.

**`JobQueueProofs`.** `Inv` adds to the typing what the program counters imply
(an executor that starts or works has a job; only drainers keep a backlog), that
a `job clean` in flight has listed only ended rows, and the two ownership
properties. `OneExecutorPerJob` is not inductive without its second conjunct: a
row that could still be started has no executor, or `Start` would make two. That
a `clean` never deletes a live row needs `CleanListsEndedJobs`, which holds
because no update leaves a terminal status. `Refinement` maps each step to one
of `JobLifecycle` or a stutter. `Capacity` uses a second invariant, `Overshoot`:
running rows plus the executors past the capacity check, but for one, never
exceed the limit plus n - 1.

**`JobExecutionProofs`.** A task is in one of five places: the queue, a worker,
the queue of results, the count of a job, or lost with a cancelled worker.
`Once` says that it is in a place once, `Apart` that it is in one place,
`Tracked` that what is in a place was submitted and the other way round. The
lemmas `TakeMoves`, `DeliverMoves`, `CollectMoves`, `SubmitMoves` say what a
step moves; every other step leaves the places alone or only loses. `CountsAll`
is what `join()` rests on: the counter is at least the queue and the workers at
work. It is no equation, because a worker that takes a stop signal or is
cancelled never calls `task_done`. `Owing` counts: the tasks queued, at work,
lost or delivered are as many as the results that the job at hand still waits
for and those that earlier executions left (`owed`). A job that counts all it
waits for therefore misses as many of its own as it counted of others, and of
these no more were to be had than were owed: `JobsMissOnlyWhatIsOwed`.
`Outcomes` ties `failed`, while a job is executed, to the outcomes of what was
counted, and the row at its end to that or to the handler.

**`IngestIndexProofs`.** `Inv` says for each program counter of `process_file`
what is in the index: nothing from `DeleteOld` to the first batch, exactly the
first `ibatch` batches of the extracted text during the upsert, all of them at
`mark`; and for each file that is not disturbed by others that at most one
ingester writes it. `OkRowDescribesIndex` follows at `MarkOk` because the text
extracted is the content that is hashed, or else the path is disturbed by an
edit. For `UnservedIsNoticed` the invariant adds what a crash leaves: unless the
row vouches for the file, its hash is not that of what is on disk.

**`ProviderResilienceProofs`.** `Inv` joins the typing, the equivalence of a
closed circuit with a short series of failures, that batch calls occur only in
the native mode, and `Budgeted`: recorded requests plus those in flight stay
within the limit plus the number of coroutines less one. Purging needs the
lemma that a purged deque is no longer and that ages only grow.

**`ToolCallsProofs`.** `Accounted` is what makes `GrantsWithinRate` inductive:
what a subject was granted in the window and what its bucket holds are together
within a full bucket and the refill up to the last check; when the cleanup drops
a bucket it is full (`DroppedIsFull`), so the refill alone has paid for the
grants, and a new full bucket keeps the account. `Promised` ties an announced
wait to the last check of the bucket; it needs at least 60 requests a minute,
which the theorem `Promise` assumes. Between 30 and 59 the announced time, cut
to whole seconds, can be too short by a fraction of one; below 30 nothing is
granted at all. `CacheInv` says that the sequence of entries is sound whatever
is evicted: the lemmas on `Without`, suffixes and `Append` carry it through
`get` and `put`. `AccountInv` is about the sizes: the sum of a prefix, a suffix,
a sequence with one entry cut out (`TotalOfCutOut`), and that evicting enough of
them makes room (`EvictionsSuffice`), whence `AfterPutAccount`: the count is the
sum, unless an expired or replaced entry was taken off it twice, which
`recounted` records.

**`TablesProofs`.** *Accounts*: a request for erasure has an owner whose row was
once inserted, so no later INSERT reuses the id, and only `update_user` switches
an inactive row on. *Tags*: a command between its two writes of a file that
nothing else touched is about to write to the registry what the chunks have
(`HalfWritten`); with it, repeating the edit repairs. A command of another
collection writes no chunks, and its files count as diverged. *StoreSchema*:
what the place of a process in `_migrate` says of the tables (`MigratorSees`),
that at most one process creates the file (`OneCreates`), and that a newest
version recorded early belongs to a process in its first migration, with nothing
in its way (`EarlyVersion`). `VersionTellsTables` alone is not inductive: the
second process that opens a file relies on what the first has left of it.
*Reclassification*: a row or change carries the number of the ingestion it was
read from; one of the last ingestion has its ingested value in some backup row,
or still in the change itself (`ChangesCanBeHadBack`). This holds whatever is
rolled back: nothing replaces or deletes a backup row, a conflict of their key
ends the command before it writes.

**`StoresProofs`.** *Experiments*: what a chunking run that no other overlaps
has made of the shared collection, at each of its phases (`OwnCollection`), and
where the store of each runner points (`StoreOfRun`): to the experiments'
collection while a chunking run indexes, to production while a scoring run that
is alone searches. So production holds the original chunks and nothing else.
*Connectors*: a document within reach that was not delivered in its present
version is changed at or after the checkpoint (`NotLost`); during a sync, what
was passed was read (`ReadSoFar`), and what was read is delivered or later than
the checkpoint to be kept, or among what the sync has `missed` (`ReadAll`,
`HandedOver`). The checkpoint is the maximum of a finite set, which exists by
`FinitelyBounded`. `StoresAreSeparate` says that a behaviour of `MCStores` is
one of a single component, and `StoresTypes` follows from the components'
invariants.

**`ServicesProofs`.** *FilterTerms*: between scans, the table is empty or as new
as the last promise (`TableKeepsPromise`), and a promise is never newer than the
payloads. *ConfigStore*, *Watcher*, *Waiting*: types. *Schedules*: `Tally`
bounds the jobs of a minute. A server that has a schedule of an earlier minute
in its local list is behind; the caught up are those who are not, and `Ready`
are the caught up that may still create a job before one that is behind makes
the schedule due again by writing an old next run. Each server that catches up
makes at most all the caught up ready once more, so that with N of them 1 + ...
+ N jobs are possible, and one more for each failure. An earlier statement of
the property, 2N - 1 jobs, is the same number for two servers and false for
three; the attempt to prove it showed this. *Retrieval*: `AtMost`, `Keeping` and
`Ranked` are characterised by lemmas over lists without repetition; the fused
score follows the ranks on which the two lists agree (cross-multiplied
fractions), merging keeps the better of equal collections first, and the counts
of the pages read so far are the counts of the chunks below the offset.
`RetrievalInv` adds to the types that, as long as the index has not moved, what
was found so far is what the answer needs (`Serves`). `ServicesAreSeparate` and
`ServicesTypes` are as for the stores.

The proofs rest on the assumptions of the modules and on nothing else. The
library's induction theorems take an operator as a parameter and cannot be
used; where an induction is needed (the sum `TotalSize`, the bound of a finite
set of times, the earliest next run of a schedule), it goes by the least
counterexample of a well-founded order (`LeastNumber`, `LowestNumber`,
`FinitelyBounded`). No module uses a RECURSIVE operator.

Only model-checked: liveness, that is `EveryJobSettles`, `StopReturns`,
`ExecutionReturns`, `RecoversWhenUp`, `EveryEventIsFollowedByAnAttempt`,
`ChangesReachEveryProcess`, `EveryWaiterGoesOn` (fairness and ENABLED are beyond
the prover), and `RacesAreWon`, whose inductive strengthening has to follow
every pair of processes through the migrations. Proved and part of no run are
the types of `IngestIndex` and `Retrieval` on their own and the finality of
ended jobs.

## 5. Disagreements

Four are runs that TLC refutes, quoted under `findings` in `PROJECT.json`: `tags
reingest` strands documents, a half-open circuit admits any number of requests,
a query asked often enough is answered from the cache for ever, and the watcher
creates no job, because `main` never connects its `MetadataStore`
(`file_watcher.py:287`). The following were met while modelling; they are in the
models as the code has them, and the properties above are stated so as to hold
with them:

- `scheduler.py:24` "Enforce max concurrent jobs limit": exceeded by up to n - 1
  with n executors (`CapacityOvershootBounded` is what is true); and rows
  orphaned by a crash count against it for ever, nothing closes them.
- A job paused and resumed while it is executed is executed twice at once.
- After `get_result` times out, or the jobs table raises once the files are
  submitted (`executor.py:130`, `:167`, `:190-193`), the results that come late
  are counted for the next job, which then ends without some of its own; when
  the handler raises as well the row stays running; a restarted pool inherits
  stop signals and tasks of the stopped one (`pool.py:86-131`); `stop()` blocks,
  without timeout, when the task queue is full (`pool.py:114-117`).
- A file whose ingestion returns status `error` counts as processed with success
  (`worker.py:142-159`).
- `docs/INSTRUCTIONS.md:299-304`: a file that is deleted and restored with the
  same content is skipped, since its row is `deleted` with that hash; the old
  chunks are deleted before the new ones are embedded (`ingest.py:510`, `:564`),
  so a failure leaves the file unserved until a later run.
- `mark_ok` hashes the file anew: a change made during the ingestion is recorded
  as ingested (`metadata.py:1200`) and no later run notices it. Nor is it
  noticed when a run dies half-way whose file the row vouches for, because the
  run was forced or the file was put back.
- The DELETE of the administration API marks the document in
  `data/kb_metadata.db`, not in the registry (`routes_admin.py:745-765`), so the
  row stays `ok` and the file is not ingested again.
- A late success closes an open circuit (`circuit_breaker.py:119`); the cooldown
  doubles more than once in one open period when several requests fail late
  (`:153-158`); batches bypass an open circuit and an exhausted budget
  (`embed_client.py:627-660`), and nothing purges the deque while only batches
  are sent.
- `docs/SEARCH_QUALITY.md:362` "Cache is invalidated on ingest/reclassification
  events": `invalidate_retrieval_cache` (`server.py:1487`) has no caller. A
  search that was overtaken by a change of the index puts its older results over
  newer ones.
- `put` takes an entry that it replaces off the count and can then evict it and
  take it off again (`lru.py:147-174`): the count is too small from then on and
  the cache grows past its limit by as much (`recounted` in `ToolCalls`).
- Over streamable HTTP a tool call passes the limiter twice (`server.py:1870`,
  `:678`): the effective rate is half of the configured one, and between 30 and
  59 requests a minute, with a bucket of one token, a call that comes right
  after its request is refused. Below 30 a bucket holds nothing
  (`limiter.py:46`).
- The cleanup drops full buckets, without refilling them first
  (`rate_limiter.py:102`); a check leaves every bucket short of a token, so with
  a capacity of at least one nothing is ever dropped, and "periodically cleans
  up idle subjects" (`rate_limiter.py:24`) does not happen. `GrantsWithinRate`
  is stated and proved so that it also holds of a cleanup that drops full
  buckets.
- `limiter.py:198` "Acquire tokens from multiple limiters atomically": they are
  acquired one after the other, and a task cancelled in between has spent the
  first ones. With a capacity of 0 or a demand above it `acquire` never returns.
- A vector that a fallback provider computed is cached under the key of the
  primary model (`embed_client.py:525`).

Schedules, services and configuration:

- `update_schedule` leaves `next_run_at` where it was, so a new expression
  starts to count after the run of the old one; an expression that
  `validate_cron` accepts and croniter rejects has no next run and is triggered
  at each iteration of its minute (`irregular`). Each server runs the loop, a
  stdio server for each client too.
- A marker written while the filter terms are scanned is taken for seen
  (`filter_terms_cache.py:69`): the terms of that run appear with the next one.
- Values of the environment are written to the table when a process starts and
  no row exists; later edits of `.env` have no effect. The loader of the web UI
  uses another file, so its settings reach no server; `docs/OPERATIONS.md:1201`
  names a third. `reload_if_changed` tells observers nothing of changes that a
  `get` picked up first.

Retrieval:

- A sparse model that cannot be loaded fails the search, although a sparse
  search that fails does not (`hybrid_search.py:60`, `:68`).
- Hybrid search ignores the collection and the filters for vendor, subsystem and
  module (`server.py:872-888`); `docs/ARCHITECTURE.md:32` says that sparse
  vectors are stored, and nothing writes any.
- The context of a chunk is looked for among the first 2w + 10 points of its
  document (`vector_store.py:659`); listings stop at `limit` documents with the
  chunks counted so far; statistics look at 1000 points.
- `hybrid_search.py` merges collections by adding scores where its docstring
  says that it keeps the highest.

Stores:

- `reclassify_history` has a foreign key to a column that is not unique, with
  foreign keys on (`metadata.py:229-231`, `:58`): writing the history and
  deleting old backups raise. `reclassify run` and `rollback` therefore end with
  an exception after the payloads are rewritten, and the audit table stays
  empty, against `README.md:333` and `:350-353`.
- `docs/OPERATIONS.md:785` "Rollback specific documents to state before
  timestamp": the code restores what the last session *before* the time had
  replaced, which is one session too far back (`cli/reclassify.py:484`). A
  rollback writes to the default collection, whichever the session had changed.
- The tag pages write the registry only, the bulk addition ignores the limit of
  20 tags, as does `delete-tag`, which writes what is left of them to the chunks
  (`cli/tags.py:800-813`); an ingestion drops the tags of the chunks while the
  registry keeps them. A command writes the registry for the documents of every
  collection and the chunks of one: `update_tags` (`vector_store.py:1001-1003`)
  passes over the others without an error, and repeating the command does not
  help.
- The checkpoint of a sync is the latest change it has read: a document that
  changes, or moves to a page already read, is passed over for ever. A `git
  show` that fails or times out counts as an empty file, and the checkpoint
  moves to the head all the same (`git.py:196-200`, `:290-292`, `:305`); a
  response without a total ends the listing (`jira.py:312`,
  `confluence.py:283`); spaces after the first 200 are never listed
  (`confluence.py:208`). Documents whose payload cannot be parsed are dropped,
  sanitised names collide, deletions in git are not propagated, and staged files
  cannot be ingested (`ingest.py:477` makes their path relative to the wrong
  directory). Nothing in the repository calls `fetch_documents`.
- A file of version 1 cannot be opened: its migration begins with
  `_create_schema_v2`, which creates `schema_version` again. So it is with a new
  file whose creator was killed between `CREATE TABLE schema_version` and the
  early record of the version; one killed right after that record leaves a file
  that counts as complete. The row of `quota_config` can be missing for good
  when two processes race, and `quota set` then does nothing. `quota set` reads
  and writes the whole row; the limits of an index compare counters that nothing
  raises, and leave the upload out of the comparison (`metadata.py:568-596`).
- `auth/service.py:356` says that the admin account is ensured; one that was
  deactivated is not restored. A failed flush makes every request of the UI
  raise until it is restarted.
- The example `optimize chunk ... --strategy fixed --chunk-size 512`
  (`optimize.py:111`) passes no overlap, fails inside, saves a result of zeros
  and leaves the store redirected, so that a scoring run of the same
  `ExperimentRunner` then measures the experiments' collection
  (`chunking_experiments.py:317-321`). Two `optimize chunk` at once share a
  collection. The automatic baseline of a sweep is never written.

## 6. What is not modelled

Extraction, chunking, classification, graph metadata, validation: pure text
processing, abstracted to the content or verdict it yields. Qdrant and SQLite
are external: a statement is atomic and durable. Ranking is abstracted to
orders, prompts are constant. Observability and evaluation decide nothing. The
health and migration scripts are run by hand.

The tracker of sessions works on `sessions` of the session manager of the `mcp`
library, which is not in the repository: what it evicts, and when, is not
visible from here. `batch_processor.py` is used by nothing and calls a method
that does not exist (`validate_file`). The embedding cache, the Redis backend,
the pages of the web UI that only show something, `set_rate` and `reset` of the
limiter, `MetadataStore`'s connector state and quota usage, which nothing
writes, are left out too. So are the limits of the quota: `check_quota` decides
on the row of `quota_config` and on counters that nothing raises, and a check
that is one SELECT has nothing to race with but the `quota set` of section 5.

## 7. The plan

What is left, in this order:

1. The rate of `Waiting` by the argument of `GrantsWithinRate`: what a provider
   is asked for in a window, however the waiting tasks are woken.
2. A refinement between the job's part of `JobQueue` and `JobExecution`.
3. Safety behind the liveness properties, as invariants that can be proved: an
   event of the watcher that no attempt has followed has a timer, or is being
   handed to one.
