# GhostDeps: a model of the program in TLA+

GhostDeps reads a repository's manifests, lockfiles and sources and reports
dependencies the code does not need. It runs as a GitHub App, as a GitHub
Action and as a command line tool. This directory holds TLA+ modules for the
parts of it in which states, interleavings and failures decide whether it is
correct, the TLC configurations that check them, and proofs of the properties
that should hold for every size of the parameters. `PROJECT.json` lists the
runs, says which lines of `src/` each definition stands for, and lists the
hazards the properties are aimed at.

Check a run with `tlc -config MCProcessMemory.cfg MCProcessMemory.tla` and the
proofs with `tlapm JobQueueProofs.tla`.

## 1. The system

| Component | State it keeps | Operations | Talks to |
| --- | --- | --- | --- |
| Webhook handlers (`github-app/src/app.ts`, `events/*`) | none but the queue and the busy limiter; an index and a deadline per installation | pull_request, push, check_run.rerequested, installation, issue_comment.edited | GitHub (lookups), job queue, busy limiter, comment sync |
| Job queue (`jobs.ts`) | waiting jobs, number running, remembered keys, idle waiters | enqueue, the end of a job, onIdle | worker |
| Analysis worker (`worker/analyse-job.ts`) | per job: stage, check run id, working directory | one job from claim to report | reporter, cache, tarball, analysis child, comment |
| Analysis child (`worker/analysis-protocol.ts`, `analysis-frame-stream.ts`) | the bytes of a frame so far | encode, collect, decode | worker, engine |
| Check reporter (`checks/reporter.ts`) | claims in flight; the runs themselves live at GitHub | find, start, restart, busy, fail, complete | GitHub |
| Result cache (`worker/result-cache.ts`) | entries in order of use, bytes, entries per repository | get, set | worker |
| Busy limiter (`checks/busy-limiter.ts`) | last busy run per repository | allow | handlers |
| Maintained comment (`comments/*`) | the lock's map of tails; the comment lives at GitHub | maintainComment, handleCommentEdited | GitHub |
| Pull request changes (`pull-request/changes.ts`, `core/diff/*`) | the parser's position in a diff | parse, pair declarations, bound source lines | GitHub, engine |
| Rate limits (`github/*`) | warnings per resource | retry decision, deadlines, the low-budget warning | GitHub client |
| Registry metadata (`worker/npm-metadata.ts`) | two caches, one budget and deadline per run | forRun, metadata, footprint | npm registry |
| Checkout (`core/checkout/*`, `worker/tarball.ts`) | position in the archive, the staging directory | download, extract | file system |
| Scanner (`core/engine/scanner/*`) | directory walk, limits used so far | walk, list, read | file system |
| Isolated adapters (`core/engine/isolated.ts`, `adapter-worker.ts`) | thread, watchdog, last partial result; a pool of lanes | run one adapter in a thread, run all | adapter runner |
| Adapter runner (`core/engine/run-adapter.ts`) | stage, abort controller, partial outcome | detect, dependencies, graph and usage | one adapter |
| Analysis engine (`core/engine/*`, `core/recommend/*`) | none, but for the previews, which read a tree twice | assemble, recommend, derive facts, preview a removal | rendering |
| Native rules (`core/native-rules/*`, `javascript-typescript/src/native/*`) | a snapshot of hashes, the evidence of four pillars | inspect, seal, decide | scanner handles |
| Rendering, Action, command line (`checks-renderer`, `action`, `cli`) | none | render, post, exit code | GitHub, terminal |
| Ecosystem adapters (`packages/adapters/*`) | none | read manifests, lockfiles, path aliases, imports | scanner handles |

An event travels like this: a handler reads the delivery, awaits a lookup of
the changed files with a deadline, and enqueues a job under the key
(repository, head). The queue collapses a key it remembers, drops a waiting
job whose head the new one replaced, refuses a job when it is full, and runs
at most two workers. A worker finds or creates the check run of its commit,
downloads, extracts and analyses, completes the run, rewrites the pull
request's comment and puts a clean result in the cache. All of it is one
Node process: a function runs to its next `await` without interruption, and
between two awaits anything may happen.

What is hard about each part, and what makes it correct:

- **Queue.** Two ordered collections change in the middle: a job leaves
  `#pending` when it is superseded, a key leaves `#seen` when it is the
  oldest of too many or belongs to a superseded job. Correct is: limits hold
  and no slot idles, order of arrival is kept, a waiting job's key is
  remembered, one key is analysed once, a job is only ever dropped for one
  that is accepted.
- **Handlers.** Deliveries are late, repeated and overtake each other in the
  lookup, which lists the files of whatever head is current. Correct is: the
  current head's job survives older events, and a relevant head is analysed.
- **Worker and reporter.** Lookup and creation of a run are two calls, any
  call may fail or lose its reply, the process may stop, busy runs and
  re-runs share the name of the analysis run. Correct is: one claim per
  commit, every run completed unless a fault the code cannot absorb hit it,
  output computed from the run's own inputs, re-runs served clean results.
- **Cache.** Counters beside the map; two limits after one insertion.
- **Limiter.** A bounded map and a wall clock.
- **Isolated adapter.** Foreign code in a thread: it may hang, stall, throw,
  exit, use up its heap or leave calls behind; two timers, one in the thread
  and one outside, race with its messages. Correct is: one result, in time,
  that names what is missing and passes nothing incomplete for complete.
- **Comment.** Read-modify-write against people who edit, deliveries of
  edits that come late, calls that fail while the lock is held. Correct is:
  one writer, one comment, no older report put back over a newer one.
- **Installation lanes.** Several lanes share an index and a deadline, and
  what lost a race against the deadline still runs. Correct is: each
  repository once, and nothing from an answer that comes too late.
- **Directories.** A walk, a read, an inspection and a preview take many calls
  on a directory that others write. Correct is: what is left out is said, what
  is served was checked, what is found is of one state.
- **Functions of the engine and the adapters.** They have no state, and many
  cases: diffs that GitHub cuts, lockfiles that are stale, ranges, globs,
  features, aliases that override one another, facts that are partial. Correct
  is: what they call complete, unused, removable, proved or a success is so.

## 2. Plan

| Step | Modules | Status |
| --- | --- | --- |
| Queue and its proofs | `JobQueue`, `JobQueueProofs` | done |
| Worker, reporter, check runs, on top of the queue | `AnalysisWorker` | done |
| Pull request events, on top of the queue; which deliveries count | `PullRequestEvents`, `PullRequestChanges` | done |
| Cache and the abstract cache it implements | `ResultCache`, `ForgetfulCache` | done |
| Busy limiter; maintained comment | `BusyLimiter`, `CommentSync` | done |
| Adapter runner in its thread, the main thread around it | `AdapterRun`, `IsolatedAdapter` | done; the lanes over many adapters are left |
| Registry metadata: budget, deadline, completeness, caches | `RegistryMetadata` | done; the store with ages and sizes is left |
| Installation lanes with one deadline; rate limits | `InstallationLanes`, `RateLimits` | done |
| Archive: extensions, extraction all or nothing, the piped download | `Extraction`, `MCDirectories` | done |
| The scanner's walk and its reads of a directory that changes | `RepositoryScan` | done |
| What a pull request changes | `PullRequestChanges` | done |
| Policy, assembly, facts, renderer, Action, command line | `ResultAssembly`, `ResultFacts`, `Reporting` | done; the wording is left |
| Native rules: evidence over several passes, the four pillars, the seal | `NativeEvidence`, `NativeEnvelope` | done; the inspections of source text are left |
| Removal preview: its edit, its two passes | `ResultFacts`, `FixPreview` | done |
| Lockfiles of the JavaScript, Rust and Python adapters, path aliases | `LockfileGraph`, `EcosystemLocks`, `PathAliases` | done; manifests' syntax, imports and Go are left |
| The answer of an analysis child: its frame, its JSON | `FrameCollector`, `AnalysisResponse` | done; the request is left |
| Proofs | `JobQueueProofs`, `ProcessMemoryProofs`, `AnalysisWorkerProofs`, `RegistryMetadataProofs`, `DeliveryProofs`, `IsolatedAdapterProofs`, `DirectoryProofs`, `AnswerProofs` | done but for what section 6 leaves to TLC |

Every component that has a state of its own is proved about, and of the functions
the verdict, the check, the command line and the removal. `NativeEnvelope`,
`AnalysisResponse`, `PathAliases` and what extends them declare recursive operators,
and stay with TLC, as do the graphs and diffs, which are folds.

A run stands for a question and not for a module: what the process keeps in
memory, what happens to a pull request's deliveries, what a changing directory
does, what the answers of the pure parts mean. Its module composes the
components, gives each its instance, and moves one of them in a behaviour
where they share nothing.

Conventions: a definition named `Slip...` stands before the definition it
varies and is a mistake that code could have had; no action uses it. Bounds
that only the model has are constants named `Max...` and appear in guards.

## 3. Modules and code

### What the process keeps

**`JobQueue`** is `jobs.ts` alone: `Enqueue` is `enqueue` with its drain,
`SettleTicket` the end of a worker's promise with the drain that follows,
`OnIdle` a caller that waits. A job is a record of what the code reads of it;
a queued job adds its `ticket`, the order of arrival, which stands for the
position in `#pending` and in the insertion-ordered `#seen`. So both are sets
here, and "the first" is "the lowest ticket".

**`AnalysisWorker`** extends it: a running job is at a stage of
`createAnalysisWorker`, and a stage ends where the code awaits. `runs` are the
check runs at GitHub, newest by id; `Latest` is what the listing returns, and
`Found` what `CheckReporter.find` makes of it. A reporter is made per job, so its map
of claims never sees another job and is left out. `Fault` names the call that
goes wrong; `Restart` forgets everything the process holds.

**`ResultCache`** keeps the entries with their bytes and order of use beside
the counters the code keeps, one action per method and outcome.
**`ForgetfulCache`** is what it promises: a value as it was set, or nothing;
`entries` without bytes and order is what the one has of the other.
**`BusyLimiter`** has a clock that takes any value at each call.
**`FrameCollector`** is `collectAnalysisFrame`: `sent` is what the child has
written, `frame` and `expected` what the collector keeps of it; `Receive` takes a
chunk of any bytes the bound leaves, `Break` is a chunk that is no bytes or a
source that fails, `End` the end of the stream, `DecodeHeader` the check that
`decodeAnalysisFrame` makes again.

**`RegistryMetadata`** is `NpmMetadataService` as one analysis after another or
beside another uses it: `AskFacts` and `AskSizes` are the engine's two calls,
with everything they do up to their first await, `Responds` and `Aborted` the
end of a request with what its lane does next, `Return` the end of a call.
`call` is the provider's side of it and `run` the engine's, which need not
agree after `GiveUp`. `Store` is the worker's question whether the metadata is
complete, the condition for caching the result.

### Pull requests and installations

**`PullRequestEvents`** extends the queue: `Push` moves a pull request
along a history, `Receive` starts a handler for one of the events it caused
(again, late, or in another order), `Read` is the changed-files lookup, which
answers for the head that is current then or fails, and `Skip` and `Analyse` are the two
ends of `decide`. What `decide` and the functions it calls answer for every
kind of event is in `PullRequestChanges`, as a function of the payload and of what the lookup returned:
pages, caps, renames, and a list that ends early.

**`InstallationLanes`** extends the queue with the handler that scans newly
granted repositories: `next` is the index the lanes share, `lane` what each
awaits, `late` the lookups that lost against the deadline and still answer.
**`RateLimits`** is `boundedThrottle` and `watchRateLimit`, fed with responses.

**`CommentSync`**: `Arrive`, `Enter`, `Leave` are `withCommentLock`, with
`tail` the map entry and `before` the promise a writer awaits. A scan lists,
then writes; an edit's handler reads, asks for the permission, reads again and
restores; `Fail` is a call that throws at any of these points. `Say`, `Edit`
and `Close` are people.

**`PullRequestChanges`** reads a diff (`unified.ts`) line by line as a fold,
classifies the files, pairs the declarations that were removed and added, and
says whether the context is complete.

### Adapters in threads

**`AdapterRun`** is the worker thread: which stages of `runAdapter` are
awaited (`running`), their timers, the shared abort, and the usage lanes of
`mapBounded` (`calls`, `next`, `laneThrew`). What follows an await without
another one, such as the end of one analysis, the partial message and the
start of the notes, is one action. **`IsolatedAdapter`** extends it with the main thread: `Receive` per
message, `OnError`, `OnExit`, `WatchdogFires`, and `Failed` for what is
salvaged. `Tick` is a unit of time.

### Directories that change or fail

**`Extraction`** is `tar.ts` over a stream of blocks: what extensions have said
(`ext`) and which block comes next decide what `next()` returns or that it
throws (`Refused`). On it, `extractTarball`: an
action per kind of entry, a file in three (`OpenFile`, `WriteBlock`,
`CloseFile`). `Counted` records an entry that is written and refuses afterwards
when it is one too many, as the code does. Whatever throws leads to "removing"
(`Abort`), `RemoveDestination` is the catch, and the process may end between the
two. A download or a disk fails in three ways. The other side, which is not in `src/`, is in `MCDirectories`: how an
archive is made of items, each named in one of six ways, so that what is
extracted can be compared with what was packed.

**`RepositoryScan`** is the walk of `scanRepository`: an action per directory
and per kind of entry, with what the limits make of it, and before it the
fixture scope. Its second part is one read of a listed file (`ReadsInit` and
`ReadsNext`), an action per call of the file system, while `Write`, `Replace` and
the like happen between any two.

**`NativeEvidence`** runs the passes of `evaluateNativeProduction` over a
changing tree: the hashes, each pillar's reads, the second listing, the seal.
**`FixPreview`** is the preview of a removal with its two analyses and two
snapshots.

### Functions

They have no state; what they read is their argument. `Calls` holds the two
variables `call` and `result`, and a behaviour makes one call.

| Module | Functions |
| --- | --- |
| `ResultAssembly` | severity, grouping; the policy's ordered rules; the passes of `assembleResult` with gates, markers and notes |
| `ResultFacts` | impact, footprints, health facts and their signals, the merged graph and its cut, the project tree; the edit of `package.json` and `package-lock.json` that a preview proposes |
| `Reporting` | the check run, the Action's `post-check`, the command line from arguments to exit code, and the calls `report`, `action` and `command` |
| `NativeEnvelope` | the rules, targets and floors, JSON with a repeated key, the seal, the policy |
| `LockfileGraph` | ranges, globs, members of Yarn and pnpm workspaces; origins, readers of npm, pnpm, Yarn and Bun lockfiles, the graph with its evidence |
| `EcosystemLocks` | Cargo workspaces, inherited dependencies, feature gates, `Cargo.lock`; `uv.lock`, `poetry.lock`, `Pipfile.lock` |
| `PullRequestChanges` | diffs, the files a pull request changes, and which events count |
| `PathAliases` | `extends`, `paths`, `baseUrl`, and whether an import is internal |
| `AnalysisResponse` | the shape of a child's answer and the limits on its tree |

Data tables of the code (the default allowlist, the capability catalogue,
directories that do not ship, the extensions, the limits) are constants of
these modules; a run gives them a few entries of each kind that the code treats
differently.

### Composition

`MCProcessMemory`, `MCPullRequests` and `MCDirectories` each compose components
that share no state, with a variable `machine` that says which of them a
behaviour moves; the others stay at their start. Names differ where these
components have the same thing (a `stage`, a `nextCall`, a `phase`), so that their
modules can be extended together and a run checks the very definitions that the
theorems state.
`MCAnswers` extends `Reporting` and `ResultFacts`, whose calls the theorems are
about, and instantiates `MCPullRequestChanges` (with the events), `MCLockfiles`,
`MCPathAliases` and `MCResults`: an initial state is a call, the step its
answer. Components that do share state are composed by `EXTENDS`, in
`AnalysisWorker`, `PullRequestEvents` and `InstallationLanes` with the queue
they enqueue into, and in `IsolatedAdapter` with the thread it watches.

## 4. Runs

| Run | Instance | What it shows |
| --- | --- | --- |
| `process_memory` | queue: 2 running, window 3, 2 waiting, 6 deliveries of 2 pull requests, a push and a re-run, 7 arrivals; cache: 3 keys in 2 repositories, sizes below, at and above the limit; limiter: 3 repositories, a map of 2, 4 instants, window 2; frames: every stream of up to 6 bytes, of 3 values each, cut in every way, a header of 2 bytes and a limit of 3 | the queue's limits, order, remembered keys and far duplicates, all parts of `QueueInv`; counters, limits and order of loss of the cache, and that it implements `ForgetfulCache`; one permission per window unless the map overflowed; a frame is the stream, whatever the chunks |
| `analysis_worker` | without faults: 2 running, 1 waiting, 3 arrivals from three pull requests, two at one commit, and a re-run; with faults: 1 running, two of nine kinds, a restart among them | one claim per commit, output of own inputs, clean re-runs; runs complete and jobs are answered; with faults, a run in progress without a worker has a fault the code cannot absorb |
| `pull_requests` | one pull request that moves over three heads, each event delivered up to twice; 3 repositories on 2 lanes and foreign jobs in the same queue; two resources of the rate limit and 5 responses; 2 scans, 2 edits, a remark, failing calls | the current head's job is never dropped, a delivery taken for a duplicate loses nothing, and the head is analysed, refused or replaced; each repository once and late answers without effect; one warning per dip (`WarnedOncePerDip`); one writer, one comment, no step back |
| `isolated_adapter` | 3 dependencies, 2 lanes, a cap of 2 usages, all capabilities | complete analyses are complete, losses are named, late stages cost no earlier fact, one result, in time |
| `registry_metadata` | 2 analyses of the same 3 packages, of which one is unlisted, a budget of 2 that may grow to 3, 2 lanes | only whole answers and whole results are cached, calls share a budget; every analysis ends |
| `directories` | archives of up to 3 entries, whole or cut at every block; trees of nine paths with symbolic links, sealed and vanishing entries under 4 sets of limits and 15 scopes; a file under up to 3 changes of the tree during a read; 3 files under 2 changes during an inspection; 4 files under 2 writes during a preview | the archive's tree when it ends, nothing once it has thrown, in between what was accepted and within the limits; a silent scan is a whole one; a read serves what was checked; a finding is of the snapshot; a checked preview compares one tree |
| `answers` | some 378,000 calls of the functions in section 3; lines of up to three arguments out of 19, and after `--fail-on` of two more | each answer against a reference that is written from what the answer means and not from how it is computed |
| `reported_facts_are_lost`, `piped_download_fails`, `pr_head_returns`, `lockfile_link_dangles`, `unknown_base_hides_usage` | the instances above, a smaller one for the first, a pull request whose head comes back for the third | **violated**: section 7 |

**References.** In `answers`, a call starts from what is true and derives what
the code sees of it. A lockfile is written from an install, and entries are
lost or stale; the graph the code builds is compared with the reach in the
install. A repository's real uses lose what an adapter or the scan cannot see;
"unused" is compared with the real uses. A pull request is two trees; `git`
makes its diff and GitHub cuts it. A `tsconfig` is resolved by TypeScript's
rules, a range by a comparison of numbers, a glob by the paths it stands for. A
removed dependency is compared with the install that would be made without
it. Where the two sides share an operator the property would be empty, so they
share only accessors.

**Why the bounds are enough.** The queue's limits of the code (2, 1000, 500)
appear as 2, 3 and 2: with more arrivals than window and queue together,
eviction, refusal and both at once happen, and the window is one
above the queue so that keys of running jobs are both remembered and
forgotten.
Three jobs at one commit are the smallest number for claim, busy run and
second claim. Two scans and two edits give every pair of writers in either
order, with a third waiting. Three repositories on two lanes leave one that a
lane takes after a lookup has answered, failed or passed the deadline, and two
that race for the index. Three dependencies on two lanes do the same in a
thread; budgets
of 1 and 2 with a grace of 1 keep the order grace < usage budget and let a
stage's timer and the watchdog expire in the same and in different instants.
Three packages under a budget of two let the budget end in a lane, between two
calls, or not at all once it has grown; the second analysis finds entries the
first one left, or the one it had evicted.
Archives hold two items where one can hide, replace or contain the other, and
limits are met exactly by some and exceeded by one by others. A read makes at
most six calls, so three changes reach every pair of calls and the
undoing of the first. Two changes during an inspection are one that is noticed
by the second listing and one after it. Trees, scopes and limits of a scan are
chosen so that each kind of skip, alone and with another, meets each limit.
Installs have at most three packages and one of them in two versions, the
smallest in which hoisting, shadowing and a dependency that is shared by two
roots happen; workspaces have a root and two members.

**What the model bounds and the code does not**: `MaxArrivals`, `MaxFaults`,
`MaxBusy`, `MaxDeliveries`, `MaxRemarks`, `MaxUses`, `MaxPermissions`,
`MaxDeps`, `MaxResponses`, `MaxChanges`, `MaxWrites`, `MaxWritten`. Runs stop there, or with
the end of what they model (a scan, a call), which is why they do not check
deadlock; that nothing waits forever is stated as liveness instead.

## 5. Fairness

A promise chain goes on once what it awaits is settled; the event loop does
not starve it. So a worker's step at each ticket, a handler's step, a comment
writer's step and a settled job are weakly fair, and the environment (pushes,
deliveries, edits, faults) is not. A module that composes restates the fairness
of each component for the behaviours that move it. For `WritersFinish` a step of a writer
includes its failure, so a call that never returns is excluded; the client
library's own time limits justify it. `RunsFinish` is about behaviours without faults: with
them a run may stay in progress, and `LostRunsHaveACause` says of which.

For `HandlerLeaves` the deadline is fair and a lookup is not: it may stay
unanswered forever. A lane that waits outside the deadline is
(`Unattended`): the token of a busy run and the one of the
changed files are awaited without it (`app.ts`), so here the
assumption is that GitHub answers or the connection ends.
`CurrentHeadIsAnalysed` and `WritersFinish` say where behaviours end up
(`<>[]`), since pushes and edits run out at their bounds.

In `IsolatedAdapter` adapter code owes
nothing: no stage is assumed to end. Timers that are due, arrived messages and
events are weakly fair, and time (`Tick`) is strongly fair, since a thread that
stalls and resumes over and over delays the thread's own timers and not the
clock. `Tick` waits for what is due in a thread that is not stalled: the model
leaves out a main thread busy for longer than the grace second.
In `RegistryMetadata` the registry owes no response; the engine's steps, the
deadline and the failure of an aborted request are weakly fair.

## 6. Proofs

`JobQueueProofs` proves, for every set of jobs and every value of the limits
that satisfies `QueueAssumption`, the invariants and the action property that
`process_memory` checks of the queue. All follow from one inductive invariant, `QueueInv` in
`JobQueue`: those properties, finiteness, and three facts about the past that
they do not mention. `TicketsArePast`: tickets number accepted jobs, and
`#seen` holds a key once. `SeenEndsWithWaiting`: the keys remembered after a
waiting job's are those of jobs that wait behind it. `ForgottenIsOld`: a job
in the queue whose key is gone was accepted at least `DedupeWindow` jobs ago.
Without the second one cannot show that eviction, which looks at age alone, never
reaches a waiting job, and without the third not that duplicates are far apart.

The argument counts: if the oldest of more than `DedupeWindow` remembered keys
were a waiting job's, all of them would be keys of waiting jobs, and
`DedupeWindow >= MaxPending` says there are not that many. That condition is
the only one needed beyond the types; the code's
defaults satisfy it (1000 and 500), and a configuration that does not would
analyse a redelivered event of a waiting job twice.

The library has no usable induction for such sets, so the existence of an
oldest ticket rests on the well-foundedness of strict inclusion of finite
sets (`OldestExists`), and each step counts with the cardinality of what is
ahead of a job (`Started`, lemma `StartedAreFirst` and its neighbours).

The other proof modules have the same shape. An inductive invariant stands
beside the component's properties, where TLC can check it on the instance of the run;
a lemma per action, or per way in which actions change a variable, says that it
is kept; the properties follow from it. Bounds of the models (`MaxFaults`,
`MaxChanges` and so on) are constants there, so the theorems hold for all
their values. A hypothesis beyond the assumptions on constants is written in the
theorem, and what makes it necessary is said below.

**`ProcessMemoryProofs`: the limiter.** `OnePerWindow` holds for every window,
every size of the map and every set of times, from `LimiterAssumption`: a map of
at least one entry, and times that are natural numbers in any order. `LimiterInv`
adds what the map tells about permissions it no longer holds.
`RememberedIsNewest`: what it remembers of a repository is the last permission.
`ForgottenIsFar`: if it has lost that one, permissions of as many other
repositories as it holds came after. With the first, a clock that has not moved
a window past the last permission is refused, even one that went back; with the
second, that refusal can fail only beyond the exception the property names. The
proof of `ForgottenIsFar` counts what is in the map when it evicts: all
`MaxRepositories` others were permitted after the one that goes (`DistinctRepos`).

**The cache.** The bytes of an entry are a set with as many members, so the byte
counter is the cardinality of a union and an eviction subtracts a part of it. From
`CacheInv` follow the counters and both limits (`CacheIsCounted`), and that a
repository loses to a limit only what it used before everything it keeps. With the
latter every step of the cache is one of `ForgetfulCache` or changes nothing a
user sees: `CacheSpec => Forgetful` is the refinement the run checks.

**The frame of a child.** `FramesAreStreams` holds for every stream, every cut of it
into chunks, every width of the header, base and limit, from `CollectorAssumption`.
`CollectorInv` says that what is kept is what was sent, and that the declared length
is the one in the first bytes sent, although no chunk needs to hold them together.
With it a stream that is refused early is one that no bytes could complete, and one
that is not refused can be completed (`BeginningsOfFrames`): how the transport cuts
decides nothing. What `DataView` reads of a header is a recursive function
(`LengthIn`), and nothing about its value is needed.

**`AnalysisWorkerProofs`** stands on the queue's proofs: a restart empties what
the process holds and keeps `QueueInv`. `WorkerInv` says of each variable what it
holds: a run's number is its own, a worker knows a run of its own commit and
inputs, a result and a cached result are of theirs. A step changes the check
runs in one of three ways (not at all, by one new run, by completing one), so
there is a lemma for each. The lost runs are counted: `Lost`, the runs in
progress whose worker is gone or is bound to leave them, never outnumber
`LossesAllowed`, to which each fault adds what it can cost, a restart as many as
there are workers. `ClaimedOnce` is about the past of two jobs and needs more.
`OneClaimPerCommit` assumes `DedupeWindow >= MaxPending`, as the
queue does, and `JobsEndInTime`: no job still runs when the job `DedupeWindow`
behind it starts. The code has no such rule; what makes it plausible are
deadlines of minutes against a window of 1000 jobs. Its invariant `ClaimInv`
says that a worker about to create a run looked when no claim was to be seen, or
a busy run hid it.

**`RegistryMetadataProofs`.** `RegistryInv` keeps an account per call
(`CallsAreAccounted`): what it wanted is in its answer, or still in a lane, or was
taken out of the answer together with its claim to be whole. From that
`CachedIsWhole`; the budget (`BudgetIsShared`) is counted over the
open calls of a run. The hard case is an engine that gives up: its call goes on
under a deadline that has passed, and whatever it settles with is incomplete.

**`DeliveryProofs`.** Handlers only use the queue's operations, so a behaviour of
the events, or of an installation's lanes, is one of the queue's `Spec` when one
looks at the queue alone (`EventsUseTheQueue`, `LanesUseTheQueue`): what is proved of the
queue holds beneath them. `CurrentHeadIsKept` has the hypothesis
`ReplacedHeadsDiffer`: no pull request returns to a head that was replaced, and none
has another's replaced head. Each part is needed: the run `pr_head_returns` shows the
loss without the first, and without the second the event that replaces the head for one
pull request drops the job of the other. Two pull requests may end at the same head.
`DuplicatesAreHandled` has no hypothesis: a key that is remembered is of a head that
is waiting, running or analysed, so what `enqueue` takes for a duplicate is. Of the lanes, `LanesInv` says where each is and that two never
hold one repository; then each candidate is taken once (`EachCandidateOnce`), and
an outcome stays (`GivenUpIsFinal`), however late a lookup answers. `RateInv`
gives one warning per dip for every order of responses.

*The comment.* `withCommentLock` forgets a queue that has run empty, so its
map cannot say who is inside. `LockInv` finds it in the promises: the writers in
the lock await one another in a chain without a fork or a cycle, whose end is
`tail`, and whoever is inside awaits nobody. Hence one writer at a time, and what a writer has read
is what it writes over (`WritersKnowTheirComment`, `OnlyScansMoveOn`). That a
pull request has one maintained comment needs `InReach`: a listing reaches the
app's comment. It does not always; section 7 names the two pages.

**`IsolatedAdapterProofs`.** `AdapterInv` has a part per place a fact can be in:
what the outcome holds at each stage (`StagesInv`), which calls have been taken
and answered (`NoneIsPassedOver`), that messages on the way are true and each
follows those it needs (`InboxInv`), what the main thread knows of them
(`MainInv`), and what it settled with (`ResultInv`). The thread may end, stall or
run on at each point; what is salvaged is the last partial message, and `InboxInv` says
what that one can hold.

**`DirectoryProofs`** is about what is read from a directory that changes, and about
what an extraction leaves in one.
*A preview*: versions of a file only grow and its stages read one after the
other, so a file that has the same version in the first and the last snapshot has it
in all that was read between them. *A read of one file*: what each call has found holds for
the rest of the read, the bytes are of versions that have been, and what is
served has the version that was checked. *A native finding*: `EvidenceInv` says
"as long as the directory is that of the snapshot" of all that is listed,
read and concluded. A file that changes is not again what it was (`~Recurring`), so a
directory that has left the snapshot never comes back (`NoWayBack`), and the last
digest, which finds it there, vouches for all stages before. With `Recurring` the
property is false: a file may change for the time of one read.

*An extraction*: only the steps between "next" and "body" touch the disk, and
whatever throws in them leads through "removing", which empties it; so `AllOrNothing`
needs no more than `DestinationInv`. It speaks of an extraction that has thrown. A
process that ends in the middle, by the error of a piped download, leaves what it
wrote, and of that `WrittenIsOnDisk` and `SizesOnDisk` still hold: `AcceptedInv` says that
what was accepted stays on the disk with its kind, and that no file is there besides. The
limits need what streams are made of
(`TarAssumption`: the sizes blocks tell are numbers): an entry is measured with
the size its extensions gave it before a byte is written, a file grows no further
than its entry says, and what a link repeats was within the limits already. Entries
are counted once they are written, so one may be there beyond their number until the
destination is removed. `ExtractionIsAllOrNothing` states the whole of `ArchiveOrNothing`.
That a finished extraction has accepted the whole archive is `WholeAndInOrder`, which
is only model-checked.

*A scan* (`ScanHidesNothing`): `ScanInv` accounts for every path of the tree while the walk
goes on (`CoverInv`). A path is listed, or a directory to descend into, or still to be read, or
below a directory that waits; or it is skipped with its reason, or below
something that is. A limit ends the walk with a status that says so. At the end nothing
waits, so what a silent scan does not list is what it may leave out.
`BoundsInv` keeps the counters within the limits at every step, `ScopeInv` the
fixture scope apart from them. `ScanAssumption` says that a tree is finite and what
is in it lies below directories.

**`AnswerProofs`** is about functions: a behaviour is a call and its answer, so the
invariant is only that the answer is the function's. *What is unused*
(`AbsenceIsAlwaysProved`): whatever the passes of the assembly add, drop and
cap, a finding that claims absence is one that somebody proposed, with its
rule and severity (`ClaimsStand`); and one that the default policy proposed stands on every
piece of evidence the policy looks at (`PolicyConvictsTheUnused`). That this evidence is the
repository's needs `SeesWhatIsThere`, in `ReportAssumption`: where no usage stage
was cut short, an adapter that reports a usage analysis has seen each use, and
its graphs each need. The model takes this of the adapters' readers, which are not modelled. *A
clean check* (`SuccessIsAlwaysMeant`): nothing kept can be marked away, so an empty list of
verdicts, notes and gaps means that there was nothing to list.

*A line of arguments*, in the same theorem: `GateIsNeverSkipped` says what a line
means by where its arguments stand, and `parseArgs` reads it from left to right.
That both agree for lines of every length (`LineIsRead`) is an induction, done by hand: of the numbers
of arguments after which the reading is wrong the least (`LeastNumber`) is not 0 and
does not follow a right one. `ReadWell` is what a right reading is: the values of each
option are those of the places before, in their order, one of them may be awaited, and
the first word is known. Then the policy of the line, the threshold and the scan's
findings are those of the reference (`JudgedIsAnalysed`), and every other way
through `run` exits with 2 or 3, or with 0 where the line asks for help, for the version or
for a preview, which takes no `--fail-on`.

*A removal* (`RemovalsBreakNothing`): reach is the least set that holds the root and what
its members find. A closed set of the edited install becomes one of the old with the
removed package added, so what the old install reaches and the edited one holds is still
reached; and where no place lies below another, a package finds what it needs at the
top or nowhere. `RemovalAssumption` says what files are: paths are sequences, and
an object without a key is not `null`.

**Only model-checked.** All liveness, which is beyond the prover's reach here:
`RunsFinish`, `CurrentHeadIsAnalysed`, `HandlerLeaves`, `WritersFinish`,
`EveryRunSettlesOnce` and `RunsEnd`. `WholeAndInOrder`: that an extracted tree is the archive's,
whose reference is a recursion over the packed items, and that files are in the
order of the walk, which sorts. Of `answers`, `NoChangeIsMissed`, `GraphsAreTheInstalls`,
`AliasesAreTypeScripts` and `DerivedFactsAreTrue`: diffs,
graphs, aliases, cuts and JSON are folds, filters and recursive operators, and the
library's theorems about those take an operator as a parameter, which the installed
provers cannot instantiate. A recursive function over numbers can be proved about, as
that of the command line was. Of the typing, the part that only bounds the models.

## 7. Findings

1. **A result that was reported is lost** (`isolated.ts:504`, run
   `reported_facts_are_lost`). The outcome a thread posts is reported only when
   the thread exits. A call that timed out in the thread may keep its event
   loop alive, an open connection for example; then the watchdog, still armed,
   ends the thread and reports its own outcome, which after a timeout of the
   listing is empty and after the usage stage has no graph. The comment at
   `isolated.ts:533` promises the opposite.
2. **A head that comes back** (`jobs.ts:160`, run `pr_head_returns`). A pull
   request forced from B back to A: the late event of A -> B carries A as its
   "before" and drops the waiting job of the current head.
3. **A download that breaks half-way** (`checkout/tar.ts:279`, run
   `piped_download_fails`). The source of a gzip archive is piped into the
   decompressor, and `pipe` forwards no errors. When the deadline or the byte
   limit cuts the download off, or the connection breaks, after the first
   bytes, the source's error event has no listener and ends the process,
   although `failureReason` has a text for each of these cases. For
   `AnalysisWorker` this is its `Restart`: every job, key and claim is gone and
   the runs in progress stay so. On the disk a part of the tree stays.
4. **A link that leads nowhere** (`lockfile/model.ts:186`, run
   `lockfile_link_dangles`). A link in `package-lock.json` whose target has no
   entry stays an id without a package. When another package depends on it,
   `assembleGraph` reads the name of the missing package and throws, outside
   the `try` of `buildLockfileGraph`, which promises "Never throws on bad
   input" (`build.ts:300`). The graphs of all projects of the adapter are lost.
5. **An unknown base hides usage** (`usage/aliases.ts:658`, run
   `unknown_base_hides_usage`). A base from `node_modules` that is not
   installed may move an alias. The code keeps the aliases it could read, so an
   import that TypeScript resolves to a package counts as the repository's own
   and its usage is dropped; `aliases.ts:203` says that an unknown alias "can
   only add usage".

Met while reading, without a run.

- **Comments and checks.** The listing of comments ends after two
  pages, oldest first (`comments/state.ts:83`): behind them the app does not find
  its own comment and adds one per scan, though `state.ts:2` says "exactly one".
  Of two quick edits (`comments/edited.ts:53`) the first delivery is refused
  because the comment has moved on, and the second restores the first one's text.
  `reporter.ts:2` and `docs/github-app.md:35`
  speak of one check run per commit, while a re-run always creates another
  (`reporter.ts:122`). `reporter.ts:73` keeps claims in flight in a map that
  lives as long as one job, since each job makes a reporter
  (`analyse-job.ts:395`), so it never joins two.
- **Queue.** Pull requests that share a head
  share a job (`jobs.ts:117`), and dropping it for one, whose head is replaced, drops it
  for the other (`jobs.ts:160`). `ReplacedHeadsDiffer` excludes the case.
  `docs/durable-queue-fairness.md:19` says re-runs are never dropped, but a full
  queue refuses them (`app.ts:447`).
- **Output.** `docs/output-formats.md:257-261` says that a duplicate capability
  of one ecosystem is for awareness only; the code marks it so
  (`capability-duplicates.ts:115`), but with a kind other than `info`, and
  `findingGroup` asks for the kind first and calls it a verdict
  (`finding-group.ts:34`). Awareness notes are "always visible" by the
  comment at `human.ts:250`, yet `--severity` drops them (`scan.ts:156`).
- **Lockfiles.** The root's own entry of a `uv.lock` is set aside
  (`python/src/lockfile.ts:86`), so the walk does not go through it when a
  member needs the root, and a graph that is called whole lacks what
  only the root brings in; `283-284` says that the walk goes through
  members (`NeedsRoot` excludes the case). A
  path dependency of Cargo that is inherited from the workspace makes no member
  (`cargo-toml.ts:238`), while `248-250` promises "as Cargo does, every path
  dependency" (`OnlyInherited` excludes it). A project with its own `poetry.lock` below a
  `uv.lock` is read from the latter (`213-226`, the comment at `183` says
  otherwise).
- **Native rules.** `docs/architecture.md:77` says that the evaluator re-reads a pinned
  snapshot.
  A file that changes during the inspection and is back with the same bytes
  before the second listing passes (`matched-api.ts:477-478`); `Recurring` would
  allow it and is `FALSE` in the run.

## 8. What is left out

Texts, evidence, formatting, logging and layout everywhere; what GitHub, npm
and the file system do beyond answering, failing or losing a reply; GitHub's
retries inside the client library (creating something is one step). Timing is
kept only where a timer decides something. By module:

- `CommentSync`: which boxes may be ticked.
- `RegistryMetadata`: the ages and sizes by which caches lose entries
  (`Forget` takes any, at any time), the filters on names and versions before a
  call; the engine gives up only while an aborted request hangs, its deadline
  being two seconds later than the provider's.
- Events in `PullRequestChanges`: pushes are fast-forwards; whether a name is of a dependency
  file or of source is a set and no pattern.
- `AdapterRun`, `IsolatedAdapter`: detection evidence, references, files that
  were not sniffed, captured output, the module-specifier guard, caps on
  lists other than usages, the lanes over many adapters.
- `Extraction`: octal fields, checksums and encodings (a block
  is readable or not), absolute names, names that fold under Unicode, the length
  of a path in bytes, extensions of more than one block, the permissions of
  files, and a removal of the destination that fails itself.
- `RepositoryScan`: the record of manifests and candidate
  roots, the links `listEntries` tells of, the length of a path in characters.
  Every write gives a file another `mtime`. A `readFile` trusts the parents it
  has checked before, and so does the model.
- `PullRequestChanges`: two declarations of one kind and name in a manifest. The
  code notices a patch that GitHub leaves out only of a file that was modified
  (`changes.ts:66`): an added, deleted or renamed one without hunks may be an empty file or a pure
  rename. The run drops the patches of all four kinds. Dependency changes are told all the same, since
  manifests are read from their contents, or the context is not complete; source lines
  of the other three are lost, and `NoChangeIsMissed` says so and leaves them out.
- `PullRequestEvents`: the run has one pull request. Two that end at one head are
  covered by the theorem alone, with them the run exceeds its time.
- `ResultAssembly`, `Reporting`: the scope lines of a scope that excludes
  nothing, a check run that cannot be created, the texts of messages.
- `FixPreview`: every change gives a file bytes it never had; a file that
  cannot be read makes a preview incomplete and blocks it.
- `NativeEvidence`, `NativeEnvelope`: the inspections of source text; what they
  find is data. Only the `axios` rule can produce a finding at present.
- `LockfileGraph`: which 50 of many mismatches are listed,
  the budget in front of a link without a target, peers of npm in the calls,
  notes on lockfiles that are missing or too large. npm's first lockfile
  format skips a missing requirement in silence, and Berry's ranges are only
  matched by name; both are as in the code.
- `EcosystemLocks`: the characters of a glob. `exclude` wins over explicit
  members, and `Cargo.lock` joins the development dependencies of path members,
  as in the code.
- `PathAliases`: the caps on memoised answers; how TypeScript resolves a
  directory with a manifest of its own is external.
- `AnalysisResponse`: the request, and the fields of the result's schema.
- `FrameCollector`: a chunk that is no bytes ends the collection, as a source that
  fails does; the time a child may take is its runner's, which `src/` has not.

Not modelled at all: the Go adapter, the readers of source text and of
manifests' syntax, start-up and settings, and the scripts
under `corpus`, `performance` and packaging. The first three are parsers, whose
hazards are in the text they read and not in states; the rest is outside of the
running program. Of the hazards in `PROJECT.json`, those with a note say why no property
covers them.
