# centcom-satellite: TLA+ models, model checking and proofs

The satellite is one Go process per cluster (or per AWS account). A central
agent calls it over HTTP; a request names a *task*, and the task reads or
changes something in Kubernetes or in AWS and answers within the HTTP server's
60 s write timeout. Nothing is persisted in the satellite. What makes it hard is
therefore not its own storage: it is that the tasks of many concurrent requests,
of several satellites and of other people work on the same objects of two
remote systems without a lock, under time budgets, and that the process itself
starts, serves, throttles, authenticates and shuts down concurrently.

The project consists of

- component modules: `InsightSlot`, `Satellite`, `HelmApplication` with the
  abstract `HelmStore`, `WorkloadWrites` with the history variables of
  `WorkloadWatch`, `CloudTrailScan`, `ImageScan`; `PvResize`, `PodResize`;
  `LogsQuery`, `FindingsStatistics`, `PvUsage`, `LogStream`, `LogRead`,
  `RateLimiter`, `SpireClient`; `WorkloadList`, `RouteList`, `PodOwners`,
  `NodeAccounts`, `PodUsage`, `ClusterHealth` with the history variable of
  `HealthWatch`, `ResourceAccess`;
- `Orders`, the orders of finite sets that several of them use, and `Logs`, `Listings`
  and `Accounts`, which state a property of two components together;
- `MC*` modules and `.cfg` files that instantiate them for TLC. `MCResizes`,
  `MCQueries` and `MCViews` hold several small components each;
- `*Proofs` modules with theorems that TLAPS checks: one each for `Satellite`,
  `HelmApplication`, `WorkloadWatch`, `CloudTrailScan` and `ImageScan`; `ResizesProofs`
  for `PvResize` and `PodResize`; `QueriesProofs` for `LogsQuery`, `RateLimiter`,
  `FindingsStatistics`, `ResourceAccess`, `InsightSlot`, `PvUsage`, `LogStream`,
  `LogRead` and `SpireClient`; `ViewsProofs` for `WorkloadList`, `PodOwners`,
  `RouteList`, `NodeAccounts`, `PodUsage` and `HealthWatch`;
- `PROJECT.json`, which maps every definition to the lines it models and lists
  runs, mutants, hazards, findings and theorems.

To check a configuration: `tlc -config InsightSlot.cfg MCInsightSlot.tla`; to
check the proofs of a module: `tlapm ViewsProofs.tla`.

## 1. Inventory

### Process life cycle - `src/cmd/centcom-satellite/main.go`, `src/internal/server/server.go`

State: the configuration, the task registry, the SPIRE client, two
`http.Server`s, a channel of server errors, a channel of signals. Operations:
AWS initialisation, Kubernetes client, `registerTasks`, SPIRE start, a goroutine
that makes the servers and listens, `select` between a server error and a signal,
graceful shutdown within 30 s, deferred clean-up. Hard: the goroutine that makes
the servers is not synchronised with the shutdown; shutdown races with open
requests, with the deadline and with a failing listener. Correct when: requests
are served only after start-up is complete; every signal ends the process;
requests are cut off only after the grace period. **Module `Satellite`.**

### HTTP server, middleware and handlers - `src/internal/server/{middleware,handlers}.go`

State: the in-flight gauge and counters, per request its place in the chain.
Operations: recovery, metrics, rate limiting, authentication (mTLS, then JWT, then
dev mode), parsing, lookup, execution, panics. Correct when: nothing runs
unauthenticated; an optional task runs only behind its flag; the gauge is right
on every way out of the chain; probes are never throttled. **Module `Satellite`.**

### Task registry - `src/internal/task/{registry,types}.go`

A map from task type to task, filled before the server listens and only read
afterwards; `Execute` distinguishes an empty type, an unknown type, a result and an
error. **Part of `Satellite`.**

### Statistics insight - `src/internal/task/securityhub_get_insight_statistics`

State: one Security Hub insight per account and region (the *slot*), shared by all
processes; per process a lock per region and a flag "cleaned up". Operations:
list, create, update, delete, read results, read the name back, retry. Hard: other
processes rewrite the slot between any two calls; a create race; a quota; lost
answers; restarts. Correct when: the results are those of the call's own query,
users' insights are untouched, the quota is not eaten up, every call ends.
**Module `InsightSlot`.**

### HelmApplication writes - `src/internal/task/helm_application`

State: one custom resource on the API server, with its resourceVersion. Operations:
apply (get, merge, validate, create or update; createOnly, dryRun, the caller's
resourceVersion), delete (delete, second look), sync (annotation patch). Hard:
every pair of requests may be separated by somebody else's change, a deletion and a
re-creation. Correct when: apply is an atomic merge into what is stored, what is
refused or a dry run changes nothing, a version the caller saw is honoured, nothing
unusable is ever stored, delete tells the truth. **Modules `HelmStore`, `HelmApplication`.**

### Imperative writes - `workload_scale`, `workload_restart`, `pod_evict`, `nodeclaim_delete`

State: annotations, replicas, disruption budgets, the restartedAt annotation.
Operations: up to three reads that may forbid the operation, then a write without
a precondition. Hard: time of check and time of use. Correct when: an opt-out that
was there all along is honoured, and limits and budgets are honoured with respect
to some moment of the call. **Modules `WorkloadWrites`, `WorkloadWatch`.**

### CloudTrail scans - `cloudtrail_common`, `cloudtrail_lookup_events`, `cloudtrail_logins`

State: per region a rate limiter of the process; per call a cursor, counters,
coverage, a deadline. Operations: reserve, wait, send, read a page, stop for one of
five reasons, continue by token, second section. Hard: limits, empty pages,
throttling, waiting callers that give up, continuations. Correct when: everything
is scanned exactly once, the coverage says exactly what was scanned, calls end in
time, pages are asked for at the region's rate. **Module `CloudTrailScan`.**

### Image vulnerabilities - `running_image_vulnerabilities`

State: the running images, their platform manifests, statuses and findings, filled
by a pool of workers under one mutex; a time budget; the first error. Operations:
list pods, resolve a repository, read coverage and findings of a batch, join.
Hard: errors and the budget hit some workers and not others, partial results must
not claim what was not read. Correct when: a complete result accounts for every
image and finding; an image is called assessed only if its findings were read;
the pool always ends. **Module `ImageScan`.**

### Rate limiter - `src/internal/server/ratelimit.go`

State: a token bucket per client IP, last-seen times, a goroutine that evicts idle
ones. Operations: get the client's limiter, reserve a token, serve or give the token
back and refuse with a time to retry after, evict. Hard: a refused request holds a
token until it has given it back, and what it gives back depends on who came after
it; eviction recreates a full bucket. Correct when: no interval sees more than the
burst and the rate; a client that waits as long as it was told is served.
**Module `RateLimiter`**; its place in the chain is in `Satellite`.

### Log stream - `src/internal/server/handlers_stream.go`

State: the gauge of open streams; per stream the reader of the Kubernetes log
request, a line buffer of at most 1 MiB, the client's connection. There is no limit
of bytes or time of its own: a followed stream ends when the reader ends, when the
client goes away or when the server's write timeout cuts the connection. Hard: who
notices the end first, a line longer than the buffer. Correct when: a client gets
the beginning of the log without a gap, and no stream outlives its client.
**Module `LogStream`.**

### SPIRE client and federation - `src/internal/spire`

State: an X.509 source if mTLS is on; a JWT bundle source, from the workload API or,
with federation, from bundle endpoints: one fetch per trust domain at start-up, then
a watcher goroutine per domain that keeps the last bundle it could fetch. Operations:
start with a timeout, validate a token, verify a peer, close. Hard: a source that
fails after others have started, endpoints that rotate, fail and come back. Correct
when: only the domains and ids configured are admitted; an outage takes no key away;
a rotation is followed. **Module `SpireClient`**; its effect on the server is in
`Satellite`.

### AWS helper - `src/internal/aws`

State: credentials of an assumed role for the whole process, or none, written once
before the server starts. Not modelled: the modules of AWS tasks take its outcome.

### CloudWatch - `cw_logs_query` and the other `cw_*` tasks

`cw_logs_query` starts a query and polls it; it stops the query if the deadline or
the caller's end comes while it waits, not if a poll fails. Hard: a query left
running; an answer that comes at the deadline. **Module `LogsQuery`.**
The other tasks are one paginated read each and are not modelled.

### Other Security Hub and GuardDuty tasks, IAM, costs

`securityhub_get_findings_statistics` counts per status up to a cap, or pages through
everything within a budget and is continued by token, while people change the
findings. **Module `FindingsStatistics`.** `securityhub_update_findings` (one batch
call), `securityhub_get_findings`, `securityhub_list_standards`, `guardduty_*` (paged
reads, list-then-get in two requests), `aws_read` and `cost_explorer` are not
modelled.

### Volumes - `pv_usage`, `pv_resize`, `pv_resize_status`, `storage_status`

`pv_usage` asks every node's kubelet with a goroutine per node and a semaphore and
merges what they find. **Module `PvUsage`.**
`pv_resize` gets the claim, checks that its storage class can expand, that the
request grows it, and updates the claim under the resourceVersion it read; on
request it then polls every 2 s until the resize is done or a timeout.
`pv_resize_status` reads the claim, the volume and the file system one after the
other. Hard: the claim is resized, deleted and recreated meanwhile. **Module
`PvResize`.** `storage_status` is three lists and is not modelled.

### Pods - `pod_resize`, `pod_resource_usage`, `resource_pressure`

`pod_resize` checks caps, the QoS class, the node's capacity and a safe limit, then
patches the resize subresource by the container's index, found in a second `Get`.
Hard: every check is on a read of its own. **Module `PodResize`.**
The other two add up and rank. **Modules `PodUsage`, `NodeAccounts`.**

### Reads of the cluster - `list_*`, `get_resource`, `list_resources`, `get_logs`, `get_events`, `cluster_health`, `cluster_info`, `account_info`

No state of their own. Hard: several of them join what they read one list after the
other from a cluster that changes (`list_workloads`, `list_routes`, `list_pods`,
`cluster_info`, `cluster_health`), and visit Go maps, whose order is another one each
time, although their callers compare answers. `get_logs` cuts a log at a limit;
`get_resource` and `list_resources` share a denylist and a table of kinds filled when
the process starts. **Modules `WorkloadList`, `RouteList`, `PodOwners`,
`NodeAccounts`, `ClusterHealth`, `LogRead`, `ResourceAccess`.** Single lists, events
and facts are not modelled.

### Network probes - `http_request`, `dns_check`, `connectivity_test`

One outgoing call each with a timeout and a size limit. Not modelled.

### Configuration, observability, Kubernetes client, deployment

`src/internal/config` reads the environment (its cross-field validation is in
`Satellite`); `src/internal/observability` sets up logging, metrics and tracing;
`src/internal/k8s` builds the client, whose table of kinds is in `ResourceAccess`;
`src/deploy` is a Helm chart.

## 2. Plan

| step | module | what for | state |
|---|---|---|---|
| 1 | `InsightSlot` | unsynchronised sharing of one AWS object; the slot protocol | checked, proved |
| 2 | `Satellite` | the process: start-up, requests, shutdown | checked, proved |
| 3 | `HelmStore`, `HelmApplication` | optimistic concurrency; refinement of an atomic merge | checked, proved |
| 4 | `WorkloadWrites`, `WorkloadWatch` | check-then-act writes | checked, proved |
| 5 | `CloudTrailScan` | paging, limits, deadlines, a shared limiter | checked, proved |
| 6 | `ImageScan` | worker pool, partial results | checked, proved |
| 7 | `PvResize`, `PodResize`, `PvUsage` | checks before a write, a claim that changes, waiting; fan-out with a semaphore | checked, proved |
| 8 | `RateLimiter`, `LogStream` | what surrounds a request: its admission, and the answer that does not end | checked, proved |
| 9 | `LogsQuery`, `FindingsStatistics` | polling against a deadline; pages, caps and continuation | checked, proved |
| 10 | `SpireClient` | start-up of several sources, stale bundles | checked, proved |
| 11 | `WorkloadList`, `RouteList`, `PodOwners`, `NodeAccounts`, `PodUsage`, `ClusterHealth`, `HealthWatch`, `ResourceAccess`, `LogRead` | joins of reads at different moments, orders of maps, verdicts | checked, proved |

Composition: `WorkloadWatch` extends `WorkloadWrites` and `HealthWatch` extends
`ClusterHealth` with history;
`HelmApplication` instantiates `HelmStore`; `Satellite` leaves the decision of
`RateLimit` open, and `RateLimiter` is that decision. The tasks share no state of the
process (but the limiter of CloudTrail, the lock and flag of an insight's region and
the table of kinds, which are in their modules), so that their modules are composed
only with their environment.

What could follow: `deepMergeMap` of `helm_application`, a recursive merge of nested
maps, against a reference definition; the UID of the pod that `pod_evict` evicts.

## 3. Modules

Where a run has several small components, a property of the run is the conjunction
of what it asks of one of them, and the parts have names in the component's module:
they are given in brackets below. A module's type invariant is one of the parts, or,
for `InsightSlot`, `HelmApplication`, `WorkloadWatch` and `CloudTrailScan`, a theorem
only (`TypeCorrect`). Every property of a passing run has a mutant of the code that
breaks it, under the same configuration.

### InsightSlot

One action is one AWS request or one critical section. `insight[a]` is what AWS has
under ARN `a`, abstracted to what its name says: the query of a slot, an insight of
an older version of the task, a user's own. `holder` is `regionLock`, `cleaned` the
map behind `cleanupOnce`. A call goes `lock -> find -> create|update -> clean ->
delete* -> read -> verify`, with `RetryOr` for the `continue`s of the attempt loop.
Every request may fail (`AwsError`), a write may be done and not answered
(`AnswerLost`), a process may restart and forget its lock and its clean-up.
`lost[c]` is a history variable: how often the slot was renamed away from the
call's query since it was found.

| run | bounds | shows |
|---|---|---|
| `insight_slot` | 2 processes, 3 calls, 2 queries, 3 ARNs, quota 3, 2 attempts, 1 restart, interchangeable calls | `ResultsAreOurs`: one rewrite between writing the slot and reading the results is always noticed; `UserInsightsUntouched`; `OneSlotPerProcess`: a create race never makes more slots than processes; `OwnCallsHarmless`: the lock keeps a process's own calls from rewriting each other's slot |
| `insight_live` | 2 processes, 2 ARNs, quota 2, no restart | `CallsEnd`: no call retries for ever or dies with the lock |

Two processes are enough for a race and two queries for a rewrite; three calls put
two into one process, so that the lock matters; three ARNs let two slots stand
beside a user's insight at the quota. `CallsEnd` assumes weak fairness of each
call's steps: AWS answers or the SDK gives up, and a goroutine that can run does.
Nothing makes requests arrive. The runs take deletion as permitted
(`DeleteDenied = FALSE`); that `DeleteInsight` may be refused for ever is covered by
the proofs, which hold for both.

*Proved* (`QueriesProofs`): `TypeCorrect`; `UsersUntouched`; `ResultsCorrect`,
with an inductive invariant that says, for a call past the write, that the slot
still holds its query unless `lost` was raised, and that what it got was its own
query unless `lost` was raised before the results were read. The invariant needs
that an ARN is never reused and that only a rename changes an insight. Assumption:
`InsightAssumption` (names of queries and of other insights are disjoint).
`NoSelfDisturbance` proves `OwnCallsHarmless` from `Exclusion` (a call that works has
its process's lock) and `OneSlotEach` (a call never counts on an insight it is about to
delete): whoever renames or deletes a slot under a call is a working call, and so one
of another process. `SlotsBounded` proves `OneSlotPerProcess`, a bound on steps that add
a slot: by `Room`, as long as calls are about to create, the slots and those calls
together are at most as many as the processes, for a call gets there only when it has
seen no slot, and no two of them share a process. Counting needs `FiniteAccount`:
finitely many ARNs and processes.

### Satellite

`phase` follows `main()`; `server` is the main `http.Server` as `Start` and
`Shutdown` see it (`nil` until the goroutine has made it). A request's `pc` follows
the middleware chain: `limit -> route -> auth -> parse -> lookup -> execute`.
Tasks are abstracted to the group they are registered with; `RegisterTasks` is the
feature-flag logic of `registerTasks`, `Accepted` is `authenticate`. A panic in a task
unwinds through the deferred `Dec` to the recovery.

| run | bounds | shows |
|---|---|---|
| `satellite` | 1 request, 2 flags, every task group asked for, all configurations | `RequestsSound`: no task runs without its flag (`FlagsGuardTasks`) or for a caller nobody authenticated (`OnlyAuthenticatedExecute`), nothing is served before the start-up is complete (`ServesWhenReady`), probes are never throttled (`ProbesNeverThrottled`); `GaugeCountsOpen` on every way out of the chain; `GracefulExit`; `SignalEnds`, even if a task never returns |
| `satellite_early_signal` | *violated* | `SignalNeverCrashes`: a signal before `Start` has made the servers calls a method of a nil server |

Requests do not interact in this module except through the gauge, which each raises
and lowers once, so that one request, on every way out of the chain, meets what the
properties tell apart. `SignalEnds` assumes weak fairness of `main`, of the server
goroutine and of the 30 s timer, none of the requests.

*Proved* (`SatelliteProofs`), for any finite set of requests, any features and
configuration: `RequestsAreSound`, `GaugeIsExact`, `ExitsGracefully`. The inductive
invariant adds three things to the properties: `Course`, how far `main` and the
server goroutine are for each `phase` (a request can only be in the chain once the
listener was opened, and that is after the last step of the start-up); `Passed`, what
a request at each place of the chain has passed before; and `Counted`, that the gauge
is the number of requests between the `Inc` and the `Dec`, by their places.
`FiniteRequests` is needed to speak of that number.

### HelmStore and HelmApplication

`HelmStore` is the promise: an object that changes in three ways only: others edit it,
which is counted (`edits`); an apply that is no dry run creates it or merges its spec
into what is stored at that moment, once; a delete deletes it, once. Every change has one
of these as its cause, so that a dry run, a conflict, a refused spec, createOnly on an
object that exists, and a sync can change nothing of the spec. `HelmApplication` is the
code:
`ApplyGet`, `ApplyCreate`, `ApplyUpdate`, `Delete`, `DeleteCheck`, `Sync`, each one
API request and the decisions on its answer; the API server checks
resourceVersions, keeps finalizers and incarnations (`uid`). A spec is abstracted to
what the validation tells apart. The refinement `Abstract` counts as merged the calls
that were acknowledged or whose answer to a committed write was lost, as removed those
that have the incarnation they deleted. The run `helm_application` (2 calls of any task,
2 changes by others) checks it as `AppliesAtomically`, and `SeenIsMerged`,
`NeverCorrupts`, `DeleteTellsTruth`; the mutant of the first is an update that forgets
to pass the dry run on. Two calls and two changes allow the
delete-and-recreate between any two requests of a call and a race of two applies.

*Proved* (`HelmApplicationProofs`): `TypeCorrect`; `SeenMerged`; `NothingCorrupted`;
`Atomic`, the refinement, for any calls, specs and number of changes. The inductive
invariant says that a resourceVersion is never reused for another spec: whoever
holds the current one holds the current spec. It is what makes the API server's
version check amount to an atomic merge. `RoleInv` adds that a call does only what its
task does (a sync never gets to a write of the spec, createOnly never to an update) and
that incarnations are numbered from 1; with it every step of a call that the promise does
not name leaves the store alone. `DeletesTellTruth` proves `DeleteTellsTruth`
from the incarnations: `Ages` says what any step does to the object (its `uid` grows
when it is created, and it stays marked for deletion until it is gone), so that what a
call that deleted has asked for stays doomed whatever others do before its second look.

### WorkloadWrites and WorkloadWatch

`WorkloadWrites` is the code of the four tasks: a `Get` of the namespace, of the
object, a list of HPAs or budgets, then the write; the four readings of an opt-out
annotation are `OptedOut`. Others change annotations, replicas, budgets and the
existence of the objects between any two requests. `WorkloadWatch` adds history
variables (what has been so during all of the call) and states what the checks are
worth although nothing ties them to the write.

| run | bounds | shows |
|---|---|---|
| `workload_writes` | 2 calls at a time of scale, of restart, or of evict and nodeclaim_delete in any mix, replicas 0, 1, 4, wanted 0 and 4, 2 changes, 2 seconds | `OptOutHonoured`, `ScaleWithinCall`, `BudgetHonoured` (what was forbidden during all of the call is not done), `RestartRolls` |

0, 1 and 4 replicas are the cases that the limits tell apart: to zero, within and
beyond three times what is there. Two changes let a fact that a check relied on
change and change back.

*Proved* (`WorkloadWatchProofs`): `TypeCorrect`, `OptOutsHonoured`,
`ScalesWithinCall`, `RestartsHonourBudgets`. The inductive invariant says of a call
that passed a check that the history refutes "all along": the annotation it looked
at has left `alwaysOut`, the budgets have not blocked all the time, and the replicas
it read are among `during`. Budgets that select by expressions are not seen by the
check of restarts, so that `BudgetHonoured` speaks of those it sees. `RestartsRoll`
proves `RestartRolls`: by `Rolled`, the annotation that is there was written by a call
that still knows the second it wrote, so that a restart that finds its own second
already written can name another restart of that second.

### CloudTrailScan

A history is the number of events and of matches on its first p pages, so that
empty pages and pages without a match occur. `Loop` is the top of `Run`'s loop with
its three reasons to stop, `Reserve` and `Cancel` are `limiter.Wait` of
golang.org/x/time/rate with burst 1 (a reservation is given back only when it is the
last one), `Send` a page that is asked for, `Resend` what the SDK's retries send again for
it, below the limiter (`DefaultClientFactory`), `ReadPage` the page, `StopAfterPage`
the reasons after it, `CallFails`
the error branches, `NextSection` the second scan of logins, `Continue` the caller
who goes on with the token or repeats a failed call. Time is in ticks of a
third of a second (two to the limiter's interval, three to the second) and stands
still while a goroutine has something to do.

| run | bounds | shows |
|---|---|---|
| `cloudtrail` | a lookup and a logins call, 2 pages, page limits 1 and 2, match limit 1, a budget of 3 ticks (scaled down, with the 2 ticks that must be left), 5 ticks in all, 2 runs, 2 requests per page where the code has 5 | `ScannedOnce`, `CoverageHonest`, `WithinBudget`; `PagesPaced`: pages asked for through one limiter |
| `cloudtrail_continue` | *violated* | `ContinueLosesNothing`: matches beyond max_matches on the page that reaches it are in no result |

Two pages suffice for a stop, a failure or an empty page between the first and the
last; the two calls compete for the region's limiter; one request sent again shows what
any number of them does to the pacing of pages, which is nothing. `PagesPaced` speaks of
the pages that are asked for through one limiter, which is what the limiter can keep: the
requests the SDK sends again pass below it, and a second spelling of the region gets a
limiter of its own. That the region can see more than two requests a second in either
case is among the findings.

*Proved* (`CloudTrailScanProofs`), for every history, limit and number of calls:
`TypeCorrect`, `ScansOnce`, `CoverageIsHonest`, `CountsAll` (the second section of
logins counts all), `EndsWithinBudget`, and `RateKept`, which is `PagesPaced` for each
limiter, however many spellings of the region there are. The invariant of the scan ties the
counters to the position of the cursor; the one of the limiter orders the reservations
that have not been given back.

### ImageScan

`forEach` step by step: the feeder hands an item to a ready worker (`Feed`), closes
the channel when there is nothing left or an error has closed `done` (`Close`), the
workers leave, `wg.Wait` returns (`Join`). The items are repositories, then batches
of platform images. A worker's requests are `ResolveBatch`, `ListCoverage` and
`ListFindings`, any of which may fail; its critical sections are `MergeRepo` and
`Mark`. `Expire` is the end of the time budget or of the caller, noticed at a
worker's next request (`OutOfBudget`). A finding is counted when it is read, not
when its batch is done, as in the code.

| run | bounds | shows |
|---|---|---|
| `image_scan` | 2 workers, 3 images in 2 repositories that share a digest, 1 image per ECR call, 2 digests per Inspector call, 3 findings | `FindingsAccounted`: a complete result has resolved or counted every image and looked at every batch and finding (`CompleteAccountsForAll`), and none is counted twice in a batch (`CountedOncePerBatch`); `AssessedWereRead`: an image is called assessed only if its findings were read, in a partial result too; `ScanEnds` |

Two workers are enough for an error that meets another worker's request, and
three images for more than one batch. `ScanEnds` assumes weak fairness of the
workers, the feeder and the waiting call: requests are answered or fail, at the
latest when the budget's context is done.

*Proved* (`ImageScanProofs`), for any pods, repositories, platforms, findings, workers
and request sizes: `AssessedAreRead`, `FindingsAreAccounted`. The inductive invariant
says that no two workers have the same item and none has one still to be fed
(`PoolInv`); how far a worker is with its item (`StageOf`); that unless `forEach` has an
error, the images resolved and counted as unresolved are those of the repositories
that are done (`Resolving`) and every batch is to be fed, at work or finished
(`Finding`); and that a finding is counted at most once per batch that may have been
asked for it (`Counting`). `BatchesCover` is the lemma about the cutting into batches:
every digest is in one.

### PvResize and PodResize

`PvResize`: `claim` is the claim as the API server has it (size asked for, capacity
reported, volume, file system, condition), the resizer's and the kubelet's steps
(`ResizeBegins`, `VolumeExpands`, `ResizeFails`, `FilesystemGrows`,
`CapacityReported`) and the users' (`Edit`: grow, delete, recreate, change the class)
are the environment. A call goes `GetClaim -> CheckExpansionAllowed -> UpdateClaim ->
Poll*`, with `PollSpec` for the decision of a poll and `WaitTimeout` for its end; a
call of `pv_resize_status` goes `GetClaim -> ShowVolume -> ShowFilesystem`, `Phase`
being the name it gives to what it read. `fresh` holds the calls whose resourceVersion
is still the stored one, `same` those whose claim has not been replaced; `forbidden`,
`wrote` and `reached` are history.

`PodResize`: a call reads the pod (`GetPod`), the node and the pods on it
(`CheckMemory`), the usage if a memory limit is lowered (`CheckUsage`), the node
again (`CheckCpu`), the pod again (`GetAgain`) and patches (`Patch`) the container
whose index it found then. `Value` is the rounding up of `Quantity.Value`. Pods are
replaced, also with their containers in another order, others are bound to the node
and usage changes between any two requests.

| run | bounds | shows |
|---|---|---|
| `resizes` | 2 interchangeable calls, sizes 1 to 3, 1 change by a user, 5 requests of each kind; pods of two containers in either order and a Guaranteed one; usage 1 or 2 | `GrowsOnly`: no call makes a claim smaller, although others grow it; `ForbiddenStays`: a class that forbids it all the time is respected; `ClaimTold`: "done" means that the capacity has been there (`DoneMeansGrown`), and a status read at three moments shows file system, volume and claim in order (`StatusInOrder`); `PodPatchSound`: a request is raised only if it fitted at some moment of the call (`RoomSeen`), a memory limit lowered only if usage and buffer fitted under it (`ShrinkChecked`), and the container asked for is the one changed unless the pod was replaced (`RightContainer`) |

Two calls are enough for one to overtake the other between its read and its write,
three sizes for a third party to be between them, and two containers for an index to
point at the wrong one. Two resizes of two pods can still both find room and then
not both fit: nothing in the code prevents it, and `RoomSeen` speaks of one call.

*Proved* (`ResizesProofs`), for any calls, sizes and changes: `NeverShrinks`,
`ClassIsHonoured`, `ClaimIsTold` (from `DoneIsGrown` and `StatusFitsTogether`). The
inductive invariant is about the claim as much as about the calls: `Behind` orders file
system, volume and size of every claim; `Fresh` says that a call that holds the stored
version holds the stored size, which makes the update safe; `Same`, that what a claim
reports does not go back as long as it is the same claim, which puts the three reads of
a status in order; `Checked` and `Waited` carry what a call found before it writes and
waits.

`PatchesAreSound` proves `PodPatchSound`, for any pods of which no two containers share
a name (`PodAssumption`: the API server admits no other), any requests, caps and
quantities. `PodInv` says that a call's reading is the pod there is until somebody
touches it (`Untouched`), that the container asked for is in it (`Found`) and is the one
the patch will name (`Named`), and what the checks passed so far have seen (`Roomy`,
`Guarded`). What `checkNodeResourceCapacity` adds up is a sum over containers, a
recursive function: that what it compares is what fits (`RoomFits`) needs that the sum
exists and is unique, which is proved by a least counterexample (`Least`, `Induction`).

### Queries: LogsQuery, FindingsStatistics, PvUsage, LogStream, LogRead, RateLimiter, SpireClient

What takes long, and what surrounds every call. The components share nothing, so that
one run has them side by side: its variable `part` says which one a behaviour is of.

- `LogsQuery`: `StartQuery`, then `Loop`, one poll (`PollAnswered`, `PollFails`,
  `PollExpires`), the pause `Wait`, and `StopQuery` when the call gives up. The query
  lives in the service and ends by itself or not; `until` is when what the task waits
  for ends without an answer.
- `FindingsStatistics`: findings are numbered in the order of the list, `Rank` being the
  place of one among those listed, a token the rank reached and `Page` the findings of
  the ranks that follow; `CountBucket` is a count of one status by its first page,
  `CountPage` a page of the exhaustive scan, `Truncate` the end of the budget,
  `CallAgain` the caller who continues by token; people change statuses meanwhile.
- `PvUsage`: `Acquire` and `Send` are the two ends of a goroutine per node between
  which it holds the semaphore, `Report` is the main goroutine when all have left;
  `Merging[i]` is what the first i answers come to.
- `LogStream`: the handler from `Authenticate` to its end; `Scan` and `WriteLine`
  alternate; the container writes and stops, the client leaves, and the server
  notices (`ClientNoticed`); `WriteTimeout` is the 60 s after which every write fails.
- `LogRead`: `ReadPod`, `OpenLog`, `ReadLog`; `ReadAll` is the read through
  `io.LimitReader`, `Kept` the cut at a whole character, `Lines` the count. Bytes are
  abstracted to what UTF-8 tells apart.
- `RateLimiter`: one client's bucket, which is kept as golang.org/x/time/rate's state
  amounts to it: the time at which it is full. `Get`, `Reserve` and `Cancel` are the
  middleware, `Evict` the goroutine. `credit` and `told` are history: a bucket that
  pays only for what was served, and the longest the client was told to wait.
- `SpireClient`: `Begin`, `StartJwtAgent`, `Fetch` and `Started` are `Start`, with its
  early exits; `WatchError` and `WatchUpdate` a domain's watcher;
  `TokenAccepted` and `PeerAccepted` the admission. Keys are numbered in the order in
  which they come into use. Endpoints rotate, go down and come up.

| run | bounds | shows |
|---|---|---|
| `queries` | timeouts of 1, 3 and 4 ticks with a poll interval and a StopQuery of 2; 3 findings, 2 types, 2 statuses, pages of 1, 3 calls, 1 change; 3 nodes, 1 claim, 2 at a time, usage 50 and 85 %, thresholds 0 and 60; 2 lines followed; logs of up to 5 bytes with a limit of 4, pods of up to 2 containers; 2 requests, a period of 3 ticks, burst 2, eviction after 6, 12 ticks, 5 sent; 2 trust domains, 1 id, 2 keys | `QueryGivenUp`: a query given up on is not left running (`NotLeftRunning`), and the call ends in time (`AnswersInTime`); `CountsExact`: a chain of calls counts every finding once (`ChainExact`, `BucketsHonest`); `UsageTold`: the highest usage in whatever order nodes answer (`UsageIsHighest`); `LogsWhole`: a followed log has no gap (`NoGap`), and a cut is at a whole character and told (`CutHonestly`); `RateHeld`: `WithinRate` and `RetryAdmitted`; `PeersKnown`: `AdmittedAreAllowed`, `StaysHealthy`, `OutageKeepsKeys`; `WaitsEnd`: every call of `pv_usage` ends (`UsageEnds`), a stream ends when its client has gone or a line is too late (`StreamsEnd`), and a new key is taken over (`RotationFollowed`) |

The bounds are the smallest at which the cases meet: a pause between polls that
crosses the deadline; a page, a cap and a finding that moves between statuses; a node
that waits for the semaphore and a claim on several nodes; a cut in the middle of a
character; two reservations given back in either order; one domain that is down
while the other rotates.

*Proved* (`QueriesProofs`): `GivesUpCleanly`, for any timeouts, interval and
patience. `Bounded` says, by where the task is, how late what it waits for may end;
the pause is not cut to what remains, which is where its interval comes into the bound.

`RateIsHeld`, also there, is for any rate, burst and requests, as long as a bucket is
not evicted before it would have been full (`IdleEnough`: burst over rate is at most the
10 minutes after which an idle bucket is dropped). The invariant is about the
reservations that are not given back yet: they act later than now and a period apart
(`Waiting`, `Apart`), so that none of what is given back was counted for a request that
was served (`Paid`), and once all are back the bucket has a token no later than the
client was told (`FullInTime`). Without the assumption an eviction would fill a bucket
early; `Config.Validate` does not exclude it.

`CountsAreExact`, for any number of findings, types, statuses, page size, calls and
changes: `ChainInv` says that what a call and its caller have counted together is what
comes before the token, in the order in which findings are listed, and `BucketInv` that
a finding whose status did not change is counted under it as soon as that status was
asked for, or the status is told to be capped. `PageIs` is the lemma about a page: it
is what comes between two tokens.

`UsageIsTold`, for any nodes, claims, usages and number of requests at a time: every
node that has left has given exactly one answer (`VolumeInv`), so that the answers are
those of all nodes, in some order; and the first i answers come to the highest usage of
every claim on those of the i nodes that did not fail (`Highest`). The merge is a
recursive function: that it is defined for every number of answers and has this
property is proved for all i because there is no first i for which it fails (`Least`,
`Induction`). `VolumeAssumption`: percentages are numbers, nodes are finitely many.

`LogsAreWhole` speaks of both ways to a log, for any number of lines and any limit. For a
stream, `HandlerInv` says that the lines sent are the first ones, and that a line that
was read and not sent is the one in hand, or nothing is sent any more. For `get_logs`,
`KeptIs` says that what is kept of what was read is its first n bytes: if the log is
valid, a character has at most three bytes (as the bytes are abstracted), so that one of
the last three places before the limit is between two characters (`CutIsNear`), what is
before such a place is valid (`CutIsValid`), and no more is dropped. `LinesBegin` counts
lines by the bytes they begin at. `StreamAssumption`, `ReadAssumption`: the bounds are
natural numbers.

`PeersAreKnown`, for any trust domains, ids and number of rotations: what is in a bundle
is a key that its endpoint has come to serve, a domain is watched only when it has been
fetched, and a client with federation that has started watches all its endpoints
(`BundleInv`), which is why it stays healthy.
`SpireAssumption`: an endpoint has a first key.

### Views: WorkloadList, RouteList, PodOwners, NodeAccounts, PodUsage, ClusterHealth, HealthWatch, ResourceAccess

Tasks that only read, and read one list after the other from a cluster that changes
between them. Their properties speak of what did not change during the call, and of
answers that may not depend on the order of a Go map (a free choice of the order,
wherever the code ranges over one: `Ranges`). What is sorted is the set in an order that
is total on it (`InOrder`), what the API server lists in that of its keys (`Stored`);
these are in `Orders`. Again `part` says which component a behaviour is of.

- `WorkloadList`: `ListKind` per kind, `ListPdbs`, `ListHpas`, `Finish`; a failing
  list of budgets or autoscalers is taken for an empty one (`BestEffortFails`).
- `RouteList`: `ListRoutes` in the map's order, while the Gateway API is installed kind
  by kind; gateways answer a route in its status some time after an edit.
- `PodOwners`: pods, then ReplicaSets (`ListSets`), then metrics (`ReadUsage`).
- `NodeAccounts`: `cluster_info` and `resource_pressure` over the same reads. The
  scheduler binds a pod where it fits (`Bind`); a pod that runs is resized in place to
  anything (`Resize`), as `pod_resize` adds up whole units, rounded up, and two of its
  calls can find the same room; nodes come and go. `raised` and `renewed` are history:
  the pods resized to more, the nodes that came or went between the two lists.
  `PodUsage`: metrics, then pods, joined by name, ranked and cut.
- `ClusterHealth`: a pod with an init and a main container, its Deployment and its
  node as they start, hang, crash, back off, fail and recover in time; `Read` is each
  of the task's lists, `Found` its verdict. `getPodStatus` is what `list_pods` shows of
  the same pod: Terminating, the
  reason a container waits for or has exited with, or the phase; `Failing` says which
  reasons to wait for are failures.
  `HealthWatch` adds `lasting`: what has been wrong, or whether the cluster has been well,
  in every state since the call began.
- `ResourceAccess`: the denylist, the table of kinds filled once (`mapper`), `Get`,
  `List`, and the error codes (`MapAPIError`). The API server may answer any request with
  a refusal, a 401 and other 4xx among them, a fault of its own, or not at all
  (`AnyTime`); `cause` is history: the error a call has met.

| run | bounds | shows |
|---|---|---|
| `views` | 4 workloads of 3 kinds, 2 budgets of one name in two namespaces; 2 routes of 2 kinds, a gateway named with and without its namespace; a ReplicaSet name in 2 namespaces; 2 nodes with room for 1 or 2 units, 2 pods that request 1 or 2 and are resized, the highest namespace only; 3 pods with 2 limits and 2 usages, 4 payloads; grace periods and window of 1 tick, more than 1 restart are many, 2 counted; 3 kinds (denied, namespaced, installed later), 2 namespaces, a limit of 1 and at most 2; 1 or 2 changes during a call | `ListingsJoined`: a budget is shown with exactly the workloads it selects (`BudgetsExact`), called unmatched only if it selects none (`UnmatchedSelectNothing`), two polls agree (`PollsAgree`), a pod has its final owner (`OwnersFinal`); `RoutesHonest`: `RoutesListed`, `AttachmentHonest`; `AccountsHonest`: a node shown as overfull has a pod on it that was resized to more, or came or went between the lists (`OverfullExplained`), both tasks agree (`TasksAgree`), the highest are shown (`TopNamespacesShown`, `RankHonest`); `AccessHonest`: what is listed can be got (`ListedIsFound`), a request is called wrong only if it is, or if the API server itself has refused it (`FaultsNotBlamed`); `ReportsHonest`: what `list_pods` shows to wait for a failure is flagged at that moment (`FailuresFlagged`), what is stuck or lost during a whole call is in its report, and a cluster that is well, or has recovered, during a whole call is called healthy (`WholeCallIsTold`) |

Two of everything that can be confused is what these need: namespaces for names, nodes
and kinds for orders, a change before and one after the list that reads it.

*Proved* (`QueriesProofs`), for any kinds, namespaces, names, denied kinds and limits:
`ListedCanBeGot`, which is `AccessHonest`. `ListedIsKnown` says of every reference that
a list has shown that the process knows its kind and may show it, and that it carries a
namespace exactly if its kind has one, which is why a get of it is not refused;
`AnswerFits` says what the last answer may be by how the call was refused or answered,
and by the error the API server gave, if any: INVALID_REQUEST comes of a right call only
through a 4xx that is not a 429.
`AccessAssumption`: no namespace is empty.

The others are in `ViewsProofs`. They all rest on `Behinds` and `Ordered`: an order that is
total on a finite set puts a different number of elements before each, so that what is
sorted has every element exactly once and in order.

- `ListingsAreJoined`, for any workloads, templates and budgets. For `list_workloads`,
  the labels stay in the place of the entry they were read for (`LabelsInv`), what was
  there all along is in the list once its kind has been listed (`ListedInv`), and once
  budgets were read each is with what it matches (`BudgetInv`). That two calls agree
  when nothing changed is `SteadyInv`: as long as nothing was edited the call is, stage
  by stage, what the cluster alone determines; and `LastInv`: the last answer is the one
  the cluster gives now, for as long as it is kept. For `list_pods`, a ReplicaSet that
  was not edited is in the map of owners with its controller (`OwnerInv`). Assumptions:
  `ListAssumption`, `OwnerAssumption` (names and namespaces are numbers, so that they
  have an order; finitely many objects).
- `RoutesAreHonest`, for any routes, parents and edits: no route is listed twice
  (`FoundOnce`); one that was not edited has been found if its kind was listed, with the
  status it has (`FoundAsIs`); and a status names as accepting only gateways that
  have accepted the route (`StatusKnown`). Assumption: `RouteAssumption`.
- `AccountsAreHonest`, for any nodes, pods, requests, limits and usages: no pod is bound
  that is not there, and unless one of them was resized to more, neither a node's pods nor
  those that a call has added up for it ask for more than it has, or had when it was
  listed and has not come or gone since (`AccountInv`); the highest are shown because
  what is cut off comes
  later in a total order. Assumptions:
  `AccountAssumption`, `UsageAssumption`.
- `ReportsAreHonest`, for any grace periods, window and threshold: `WrongIsFound` says that
  a list read while something is wrong finds it, which needs the pod's course
  (`PodCourse`: a pod that runs now started after it last ended, so that its last
  restart is in the window if its last end is); `SoFar`, that what has been wrong since
  the call began is found as soon as its list is read, and nothing is found in a cluster
  that has been well. Well is also a pod with many restarts that has since run for longer
  than the window, so that one that has recovered is not reported for ever.
  Assumption: `HealthAssumption` (times and counts are numbers).

### Fairness

What is assumed, and why the code justifies it; everything else may happen or not.

- `InsightSlot`, `ImageScan`: weak fairness of a call's, worker's or feeder's steps.
  Goroutines run, and a request is answered or ended by its context.
- `Satellite`: weak fairness of `main`, the server goroutine and the timer of the
  grace period, none of the requests: a task may never return.
- `PvUsage`: weak fairness of each node's goroutine (`Acquire`, `Send`) and of
  `Report`: kubelets answer or the context of the request ends.
- `LogStream`: weak fairness of the handler's steps and of `ClientNoticed`: the server
  reads the connection in the background. None of the container: it may be quiet for
  ever, and then only the client's leaving ends the stream.
- `SpireClient`: strong fairness of each domain's `WatchUpdate`: the watcher tries for
  ever, so that an endpoint that is up again and again is fetched in the end.

## 4. What is proved, checked, left out

TLAPS proves the theorems named above for every value of the constants that meets
the modules' assumptions; TLC checks the same formulas on the small instances, and
mutants of the mapped definitions show that each property can fail.

Only model-checked:

- liveness (`CallsEnd`, `SignalEnds`, `ScanEnds`, `WaitsEnd`): it needs fairness and
  ENABLED, which are out of the prover's reach. All other properties of the runs are
  stated by a theorem. That `cluster_health` reports in the end what stays wrong is not
  a property of its own: every call that completes does (`ReportsHonest`);
- what a recursion over data computes for every input, with two exceptions: the
  library's induction theorems cannot be applied, but a statement about all numbers can
  be proved by its least counterexample, as the sums of `PodResize` and the merge of
  `PvUsage` are. Nothing is proved about the folds of the other modules.

Not modelled, with the reason:

- `internal/aws`: `Init` runs once before anything else and `LoadConfig` only reads
  what it left; the error classes are a table of names;
- `internal/observability`, reading the configuration, the buckets of the metrics:
  no state but counters, or functions of strings;
- the other `cw_*` tasks, the reads and the update of Security Hub, GuardDuty,
  `aws_read`, Cost Explorer, events, facts, single listings: one request, or pages up
  to a limit, and formatting; nothing is carried from one request to the next that
  `CloudTrailScan` and `FindingsStatistics` do not have already;
- `storage_status`: three lists, counted; the network probes: one call each;
- `deepMergeMap` of `helm_application`: the merge is one abstract step there;
- branches of modelled parts: the stream's answer where the connection cannot be flushed
  ("streaming not supported"); of a federation bundle's keys only the newest is kept in
  `SpireClient`; the fall-back to the creation timestamp for a pod whose container
  statuses have no time (`cluster_health/task.go:368`);
- payload parsing, formatting, logging, tracing, the test double of CloudTrail, the
  chart and build files.

## 5. Findings

Runs that TLC finds violated; `PROJECT.json`, "findings", quotes the text that the
code contradicts:

- a signal during start-up calls a method of a nil server (`satellite_early_signal`);
- matches beyond `max_matches` on the page that reaches it are lost between
  continuations (`cloudtrail_continue`).

Met while reading and modelling, without a run of their own (paths under `src/internal`,
tasks under `src/internal/task`).

Statistics insight, image scan, CloudTrail, start-up:

- a slot that is rewritten away and back between two reads is not noticed; slots that
  two processes create at once stay, if both have already cleaned up
  (`securityhub_get_insight_statistics/task.go:337`);
- the findings of one digest in two repositories are counted twice, if the two fall
  into two batches; a time budget that ends during the listing of pods gives an error
  (`running_image_vulnerabilities/task.go:234`), where line 25 speaks of a partial
  result; a partial result counts as `NOT_COVERED` images that Inspector was never
  asked about (`running_image_vulnerabilities/findings.go:268`);
- an empty region and the same region by name have a limiter each
  (`cloudtrail_common/common.go:305`); the SDK's adaptive retry, up to 5 requests for a
  page, sends below the limiter (`cloudtrail_common/common.go:39`): a region that throttles
  can see more than two requests a second;
- in AWS-only mode the capabilities name feature flags whose tasks are not
  registered (`src/cmd/centcom-satellite/main.go:183`).

Writes:

- `workload_restart` sees only budgets that select by labels (`task.go:395`); two
  restarts within one second write the same annotation and are one rollout
  (`task.go:194`);
- the threefold limit of `workload_scale` is of the replicas read before
  (`task.go:148`);
- `pod_evict` does not know the legacy key of its opt-out, as the other tasks do
  (`task.go:26`), and evicts by name without a UID (`task.go:85`);
- `pod_resize`: CPU is compared in whole cores, every quantity rounded up for itself
  (`task.go:419`, `380`); an explicit limit above the request passes the check for
  Guaranteed pods; a memory limit without a request is ignored; two resizes at once
  may both find the same room, and `cluster_info` then shows the node as more than 100 %
  full (`cluster_info/task.go:236`);
- `pv_resize`: a claim that is recreated while the call waits counts as done, and a
  condition of an earlier attempt as failure; a wait may take five minutes where the
  HTTP server stops writing after one;
- `pv_resize_status`: sizes are compared as formatted, "10Gi" with "10.00Gi", so that
  they never agree (`task.go:273`).

Queries, logs, the server:

- `cw_logs_query`: the pause between polls is not cut to what remains; a failing poll
  and a lost answer to StartQuery leave the query running (`task.go:145`, `118`);
- `pv_usage` reports "all healthy" also if nodes did not answer, or if the threshold
  is above 80 % and hides the claims;
- findings statistics: a filter of the caller's for the attribute is replaced
  (`securityhub_get_findings_statistics/task.go:253`), where the comment above says "on
  top of"; an empty first page that has a token drops the status;
- a line over 1 MiB ends a stream without a word; a quiet pod's stream outlives the
  write timeout; `Shutdown` waits for streams until the grace is over
  (`server/handlers_stream.go:193`);
- `get_logs`: one invalid byte early in a log over the limit drops all that follows;
- the rate limiter: refused requests that overlap lose tokens; a single Retry-After
  may be too early, where another request of the client was told a later time;
- SPIRE: `AllowedSPIFFEIDs` with mTLS admits nobody, because the handshake has no
  verified chains there (`spire/client.go:204`); an endpoint of a domain that is not
  trusted is fetched all the same, and its failure is fatal; watchers of a start that
  failed go on until the context ends.

Views:

- `list_workloads`: with a filter by kind, budgets of other kinds are called
  unmatched; a list of budgets that fails is an empty one; an autoscaler's current
  metrics are matched to its spec by index; in all namespaces rows are sorted by kind
  and name only;
- `list_pods`: affinity terms come in the order of a map; a Completed container hides
  a crashing one; memory is the usage of all containers over the limits of some;
- `list_routes`: a parent without a namespace matches the status of any; "Unknown"
  hides a later "True"; conditions, as the roles of nodes in `cluster_info`, come in
  the order of a map;
- `cluster_health`: an exited container that `list_pods` shows as Error or OOMKilled
  (`list_pods/task.go:361`), of a running pod with few restarts, is not flagged; a
  container that ran for longer than the window and has just ended
  is not flagged; the taint of a disruption hides a NotReady for ever; a node without
  a Ready condition is never flagged; events alone give "healthy" with a summary
  that says "has issues"; owners are kept by name across namespaces;
- `resource_pressure` counts running pods only, `cluster_info` all that have not
  ended; ties at the cut of namespaces depend on a map; pods that are not bound count
  towards utilisation; `storage_status` for one namespace reports the volumes of all;
- `get_resource`, `list_resources`: a kind installed after the start stays unknown
  until a restart, with the hint to install it; a removed kind is an invalid request
  for one task and not found for the other; a 401, which is about the process's own
  credentials, is told as an invalid request (`get_resource/errors.go:154`,
  `list_resources/task.go:260`); Total is the number on the page.
- `guardduty_findings` returns findings archived between its list and its get
  (`task.go:123`).
