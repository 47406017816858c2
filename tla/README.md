# A verification project for satperf

satperf measures the performance of Red Hat Satellite. It is a harness: bash
experiments start Ansible playbooks, the playbooks drive a Satellite server and
thousands of client containers, Python scripts drive a browser and read the
logs afterwards. What it produces are numbers and verdicts, and what can go
wrong is that a number does not measure what it says it measures: a batch that
ran on containers that were registered before, a duration of a retry, a verdict
on an environment that was broken, a page that counts as loaded while it is
empty, a request that is attributed to somebody else's registration. Such
faults need several actors and several steps, leave no error message, and the
repository has no test suite. This project models the parts where they can
arise, checks the models with TLC and proves the central results with TLAPS.

## The system

| Component | State it keeps | Operations | Talks to | What is hard |
|---|---|---|---|---|
| Container pool (`playbooks/tests/concurrent_tasks.yaml`) | on every container host: the shuffled list, the counter of used containers, `clients_<size>.ini` | select, execute, count | batches of an experiment; role `concurrent_task` | hosts drop out between plays; the counter is read twice; the list ends |
| Batches (`experiment/lib/hammer.sh`) | number of the batch, containers left | one playbook run per batch | container pool | rounding, last batch, runs that lose hosts |
| Registration retry (role `concurrent_task`) | log of failed hosts | retry until none has failed | client containers | unbounded loop, hosts that are unreachable |
| Measured commands (`experiment/run-library.sh`) | `measurement.log`, `junit.xml`, `latest-junit.xml`, background jobs, `set -e` | `c`, `a`, `ap`, `apj`, `e`, `ej`, `generic_environment_check`, upload | every experiment | retries, forked shell, jobs nobody waits for |
| FAM content pipeline (`experiment/lib/fam.sh`, phases of `full_fam.sh`) | the lists `products`, `content_views`, `activation_keys`; on the server LCEs, views, composites, versions; on the capsules their content; `_pending_push_pid` | fetch a product, compose, promote, push, clean up | measured commands, Foreman tasks, capsules | the push runs beside the next product; failed plays do not stop the shell; deletion needs an order |
| Foreman tasks (`playbooks/tests/includes`, `playbooks/tests/FAM`) | tasks on the server, task waited for | POST, poll, retry, print the duration | Satellite | lost answers, tasks that never end, second attempts |
| Waiting for a job (`scripts/wait_for_job.py`, `get-task-fuzzy-duration.py`) | counts seen last, a counter of polls | wait for the task, cancel, measure its sub-tasks | Satellite | hosts that never answer; progress; rounding with few sub-tasks |
| Stopping tasks (`kill_pending_tasks.yaml`) | tasks of the server | cancel, force stop, sweep | Satellite | tasks that started after the query |
| Image patching (`patch_container_image.py`, `build_patched_container_image.py`) | patch roots, drop-ins, running services, layers of an image | extract, patch, migrate, mount, restart; generate a Containerfile | podman, systemd, GitHub; role `apply_prs` | several pull requests and several calls over the same units; failures in the middle |
| UI browser (`playbooks/tests/files/ui-browser`) | results and coverage of a role, traces, request records, readiness | login, menu, scenarios, workflows, contract | Playwright, Satellite | every call may raise; events and pages change while they are read |
| Registration analysis (`scripts/registration`) | records, sessions, cache files | two passes over the log, traces, cache | sosreports | registrations mixed in one log; stopped scripts; stale layers |
| Registration reports (five scripts of the same directory) | windows of `measurement.log`, sessions, samples of the monitors | tables by level and topology, saturation, drain curves, traces | `measurement.log`, sessions of the analysis | each script cuts, classifies and counts with code of its own |
| Comparison of runs (`compare_runs.py`, `monitoring_data.py`) | JSON files of builds | average over builds, compare columns | directory of results | levels that some builds lack, integer averages |
| Setup, older tests, dashboards | configuration | | | not modelled, see below |

What makes the components correct:

* pool and batches: a container is used up once, every batch runs on exactly
  the containers it was announced for, in the same proportion of EL versions,
  and nothing but a retry that goes on for ever keeps the loop from ending;
* measured commands: only first attempts are measured, nothing is measured on
  an environment that failed its check, every failure is reported, every
  experiment whose commands return ends;
* content: a failed play is made up for by the next round, a push carries at
  least what was promoted when it started, the capsules end with everything,
  the cleanup leaves nothing;
* Foreman tasks: a printed duration is the one of a task that ran alone and
  succeeded, a play that ends well has done its targets, every play ends;
* browser: every page has one verdict, status and contract agree, results are
  stored whole, recordings end with their workflow, figures count what they say;
* analysis: what is attributed exactly is exact, sessions and traces agree,
  data from the cache are the data of the log;
* jobs: a job is cancelled only when it stands still, a hanging one is given up,
  and the cleaned duration removes exactly the share it names;
* image patching: what was applied stays what the last call that touched it
  made of it, no code is mounted without its schema, an image holds the files of
  its pull requests and nothing older;
* reports: a level contains its own batch, every registration that passed is in
  every report once and under one topology, and the reports agree; an average
  hides no failure.

## Modules

| Module | Models | Source |
|---|---|---|
| `ContainerLedger` | what a pool promises: containers are lent out and used up, never twice | abstract |
| `ContainerPool`, `ContainerPoolProps` | the three plays over list and counter, with the retries of the execution play; implements the ledger | `concurrent_tasks.yaml`, `post_execution.yaml` |
| `BatchSchedule` | the batch loop, composed with `ContainerPool` | `hammer.sh` |
| `Measurement`, `MeasurementProps` | an experiment as two shells and the jobs they leave behind | `run-library.sh` |
| `ContentPipeline` | content from the LCEs to the cleanup, with the pushes and the capsules | `fam.sh` |
| `FullExperiment` | `ContentPipeline` and `BrowserRun` as phases of one experiment | `full_fam.sh` |
| `TaskWait`, `TaskWaitProps` | plays that start Foreman tasks and wait for them, with the server | `includes/*.yaml`, `FAM/cv_publish.yaml` |
| `RoleEvaluation`, `RoleEvaluationProps` | one role of one browser | `runner.py`, `scenarios.py` |
| `BrowserRun` | all roles and browsers and the result file | `runner.py` |
| `RequestTracker`, `RequestTrackerProps` | request events of a page and the summary of a step | `navigation.py` |
| `ContentReadiness` | waiting for a page to settle | `navigation.py` |
| `RegistrationLog`, `RegistrationLogProps` | a log written by several registrations, and what is read out of it | `registration_metrics.py`, `trace_registration.py` |
| `RunCache`, `RunCacheProps` | the cache files of an archive | `common.py` |
| `TraceReport`, `TraceReportProps` | the calls of a trace, phases, representative and diagram, over `RegistrationLog` | `trace_registration.py`, `generate_trace_report.py` |
| `RegistrationCampaign` | batches of registrations, their retries, `measurement.log`, and what server, capsules and monitor log of them | `hammer.sh`, `host-registration.yaml`, `post_execution.yaml`, `reg-average.py` |
| `RegistrationReports`, `RegistrationReportsProps` | the tables of five scripts over a campaign | `common.py`, `registration_metrics.py`, `generate_registration_analysis.py`, `analyze_saturation.py`, `analyze_batch_dynamics.py`, `generate_trace_report.py` |
| `RunComparison` | averages over builds and the comparison of columns | `compare_runs.py`, `monitoring_data.py` |
| `JobWait` | a job with its sub-tasks and the two scripts that watch it | `wait_for_job.py`, `get-task-fuzzy-duration.py` |
| `ImagePatching`, `ImagePatchingProps` | calls of the patch script over the units of a host | `patch_container_image.py`, role `apply_prs` |
| `ImageBuild` | the layers of a patched image | `build_patched_container_image.py` |
| `PythonBasics` | a list that is sorted by a known order, and lemmas on lists, sums and integer division that the proofs share | `navigation.py` |
| `MC*` | constants, bounds and symmetry for TLC | |
| `*Proofs` | theorems for every value of the constants | |

How state and actions correspond to the code, module by module:

Modules that share a run have variables of their own; the MC module holds a
variable `topic` (or the phase of the experiment) that says which of them moves.

**ContainerPool.** A container is a line of the shuffled list, named by its EL
version and its place among the lines of that version, which is all the
selection looks at (`grep ^el8 | tail -n +N | head -n M`). `counter` and
`inventory` are files on the hosts and outlive a run; `play` and `at` stand for
Ansible's linear strategy: a play begins when every host left has ended the one
before, hosts of one play are independent, and a failed host stays out
(`LoseHost`). `Prepare`, `Execute` and `Increment` are the three plays. With
`RetryFailed`, which `hammer.sh` passes by default, a host may come out of
`Execute` with containers that failed to register; `Retry` is a pass of the shell
loop over them, which may leave failures in its log any number of times.
`touched` and `spent` are history: whose tasks ran, and whose run was counted.

**BatchSchedule.** `StartBatch` is the head of the loop and everything up to the
call of `ap`; `RunBatch` is a step of the playbook it waits for. The arithmetic
is bash's, with the division first. With fewer expected registrations than hosts
the division gives batches of size 0, the playbook refuses every one of them and
the loop never ends (`hammer.sh:129-138`): the model does the same, and the
liveness property says that it is about the other case (`SomeForEveryHost`).

**Measurement.** The environment check is three lists of commands (before the
fork, beside the containers, after the wait), the forked shell is another one,
and the experiment follows. `Execute` and `Retry` are an attempt of the command
a shell is at, `Record` writes `measurement.log` and forks the job, `Examine` is
`e` and `ej`, which have no attempt of their own. `errexit` is `set -e` as it is
in force in the main shell. The last ping of the check is one command: the loop
around it (`wait_for_ping`, which only `rex_insights-client.sh` sets) is left out.
A job goes through `Judge`, `AddToJunit` and
`JobLeaves`; `JunitUpload` copies the file.

**ContentPipeline.** One action per play, in the order of the functions; `pc` is
the main shell and `round` the product it is at. A play gets a list and works it
off; since the environment check ends with `set +e`, the shell goes on whatever
the play did, so a play may leave out any of the items the server would accept
(an over-approximation of the places where it can stop; `CvDelete`, where the
order matters, goes entry by entry). `published` says whether a view has a
version and whether its repositories had been synced by then. `Components` is
the list `content_views` as far as composites go: every round hands all of them
to create, publish and promote again. `PushProduct` is `_wait_push` and the fork,
`SyncCapsule` and `PushEnds` are the background shell. `Rank` is the order of
jq's `sort`, which compares the names of the fields before their values. What
Katello refuses (`InUse`, `UsesProduct`) is external. `forked`, `carried` and
`flawed` are history.

**FullExperiment.** The phase `ui` starts when content is there and `cleanup_fam`
when the browser run has ended; `BrowserRun` is instantiated with `step` for its
`pc`. Between the two stand registrations, remote execution and the backup,
which do not touch the lists.

**TaskWait.** `PostForAll`/`PostsDone` are the first loop of `cv_publish.yaml`,
`Fire`/`Refire` the block and the rescue of `fire_and_wait_one.yaml`,
`TakeTarget`/`Rescue` those of `wait_or_retry_one.yaml`; a poll is answered,
fails, or is the last one. A POST may start a task and lose its answer. Tasks
end when they like, or never.

**RoleEvaluation.** `pc` is the phase of `evaluate_role`; what is stored of a
page is which keys are there and whether they hold a measurement or an error.
Every action that calls the browser has an outcome in which it raises; where the
code's own handlers may raise again, `Escape` ends the role.

**BrowserRun.** The two nested loops of `run()`, its `finally` clauses and the
handler around them; `evaluate_role` passes, fails or raises, and so does the code that writes the
contract (`BuildContract`), which ends in the same handler.

**JobWait.** The server publishes the task of a job and its first output in steps
of their own, sub-tasks start, end or are cancelled one by one (`CancelSub`, where
of the three counts only `pending_count` moves), or never do; `script` walks through
`wait_for_job.py` (`FindTask`, `Watch`, `WatchEnds`, `WatchDies`) and then
`get-task-fuzzy-duration.py` (`SeeOutput`, `Examine`, `Measure`), as the
experiments call them. A poll is a minute; `quiet` counts the polls without any
change and is history. `FuzzyDuration` works on the two sorted lists.

**ImagePatching.** A call is a tag, a drop-in name, pull requests and options;
its steps are those of `main()`: root, user, extraction, one pull request after
the other, migrations, drop-ins, restarts, with a failure possible in each. What
a service runs is what was mounted when it was started last. `ImageBuild` follows
the RUN lines of the Containerfile: the gems that go and come at once, one diff
at a time (`at`), one line of the specification at a time (`edits`), the lines
of dropped gems last; any of them may break off.

**RequestTracker.** `live` and `ended` are what the page knows; `active` and
`records` what the tracker knows. An id that is free may be used again.

**ContentReadiness.** Time advances in units of a poll or less; `Pause` is the
poll, `Read` a read with any content at all.

**RegistrationLog.** The actions write the log (`Started`, `AuditLine`,
`Completed`) and keep the records as `_pass1` does. A list of requests is the set
of their places in `records`, which stand in the order the code sorts them in; a
bisection is what is left of the cut, `[-1]` and `[0]` are the greatest and the
least place. `Sessions` is `_pass2` and
`TraceOwn`/`TraceScripts`/`TraceRegisters` are `_build_trace` as operators over
them. Windows are constants; the code's are 120 s for sessions, 30 s and 300 s
for traces.

**TraceReport.** A path is a sequence of segments with `:id` for a UUID, so that
`startswith` is `IsPrefix`. Where several requests of one second are equally
near the index takes the one that comes first in the file, and `Traces` is the
set of the traces any order of the file gives. Step 5 of `_build_trace`
(`trace_registration.py:252-281`) has no part in it: it looks for `GET /rhsm/`
among records from which `_filter_reg_records` (`common.py:229-240`) has removed
them.

**RegistrationCampaign.** A second is the unit of all times, with the resolution
of what comes after a batch kept apart by `AllIsBefore`. A container starts, is
created (the server answers 201 or 500, also when the client has given up), and
passes or fails; what failed may be tried again before the next batch.
`RegAverage` is what `e` writes. `ProxyOf` and `PumaLog` are the two other files
the reports read.

**RegistrationReports.** A table is a function or a sequence of its rows; a
percentage or a rate is counted in thousandths and cut off. The windows of the
model are those of `parse_measurement_log`, and each script filters with its own
operator: `InWindow`, `AssignConcurrency`, `InBucket`, `Category`,
`TopoCategory`. Lists of sessions and of samples are sets of their places where
their order matters only for the first and the last.

**RunComparison.** A build runs its levels in their order and may stop after any
of them; a metric may be missing. One metric stands for the forty of the JSON
file, which all take the same path. Integer division cuts where the code's
`int()` does; where the code keeps a fraction, the properties only compare what
the fraction cannot change.

**RunCache.** `step` walks through `load_run_data`; opening a file empties it, so
every write is two steps with room for `Stop` in between. Between two calls the
code may get a new cache version and the user may remove the log.

## Runs

| Run | Shows | Bounds |
|---|---|---|
| `container_pool` | counter, fresh selections, proportion; the pool implements the ledger | 2 hosts, 12 containers each, sizes 4, 6 (refused), 8, `total` absent or 9 (refused); runs start until the counter reaches 12, so the last ones find the list exhausted |
| `container_reuse` | violated: see Findings | the same, without `reuse_hosts` |
| `batch_schedule` | account and counters agree, batches are full, every container has one turn, nothing but a retry holds up the end of the loop | 2 hosts with 20 containers: batches of 4, 8 and the cut one of 8 |
| `measurement` | `VerdictIsEarned`: first attempts only, no measurement after a failed check; everything ends once its commands return; failures reach `junit.xml` | one command in each part of the check, one of each kind after it; configuration variables free |
| `junit_too_early` | violated: see Findings | the same |
| `task_wait` | topic plays: durations, second attempts, success, end of the play; topic job: when it is cancelled, what is measured, that it is given up | 2 targets, 2 polls, both kinds of play; 3 sub-tasks, timeout and percentage with one cut at each end |
| `browser` | topics role, tracker, visit: one verdict per page, contract, recordings, first results; records, steps and concurrency of requests; when a page counts as stable and how long it is waited for | 6 pages, 4 menus, 3 workflows, 18 configurations; 2 ids and 10 events, so that ids come back and rounding joins two moments; timeout 6, settle 3, poll 1 |
| `full_fam` | pushes, capsules and cleanup of the content; browser results earned and whole | 3 products (a view per release, one shared view, one that skips a release), 2 releases, 2 browsers, 2 roles, 1 play that fails by itself (with 2 failures and without the browser: 666 thousand states, no violation) |
| `registration_data` | topic log: exact attribution, agreement of traces and sessions, whole traces; cache: fresh data, one log per result, one download; campaign: levels, topologies, buckets, errors over five scripts; comparison: averages, summary and cliff | 2 registrations with 6 requests, 3 seconds, windows of 1 and 2 seconds; a log of two parts, two versions per pickle; 3 containers in up to three batches on satellite, capsule and balanced capsule, buckets of 2 seconds; a baseline of 2 builds against one, 2 levels |
| `polling_phase` | violated: see Findings | the same |
| `image_patching` | applied patches stay, migrations before mounts, consistent images | 4 pull requests over 2 directories with 8 files, 3 units, 2 tags, 2 drop-in names, 16 command lines, 3 runs; builds of up to 3 of 7 pull requests over 4 gems |
| `patched_by_role` | violated: see Findings | the same |

Why the bounds are enough. The properties relate at most two actors of a kind
(two hosts, two targets, two registrations, two shells), and every loop is
passed at least twice with a first, a later and a last round that differ. In
`full_fam` one failed play is enough to leave any set of items out of a round,
and the next rounds show what is made up for; three products are the fewest for
which a push could carry content of a product it should not. Every
action fires, and every property is refuted by a fault planted in one mapped
definition (the operators marked "Faulty" in the modules), so no run is passed
because its interesting case does not occur.

`CHECK_DEADLOCK FALSE` stands where the modelled program ends (an experiment, a
play, a role, a run, the end of a log, or the bound of the clock).
The type invariants are proved where there is a proof module and otherwise
follow from the runs, which would fail on a value outside its set; no run spends
a property on them.

## Fairness

* `BatchSchedule`: weak fairness of the shell and of the steps the playbook takes
  by itself (`DueStep`): the shell goes on when `ap` returns, and Ansible gives the
  tasks of the three plays a result. Nothing is assumed about which result, and
  nothing at all about `Retry` and `LoseHost`: the shell loop of
  `post_execution.yaml:40` has no timeout, a pass of it may not return, and a
  container may fail in every pass. That case is the second half of
  `EndsUnlessRetrying`, and TLC refutes the property without it.
* `Measurement` (`FairSpec`): weak fairness of each shell and of each background
  job. They are processes of the operating system that wait for nothing but
  their commands. That a command returns is an assumption of the model, which the
  wrappers do nothing to enforce: `RunEnds` says that the shells, their retries and
  their `wait` add no hang of their own. It says nothing of the experiment that
  waits for a ping (`run-library.sh:262-272`), nor of a playbook that retries
  registrations for ever, which is the matter of `EndsUnlessRetrying`.
* `TaskWait`: weak fairness of the play only. A poll returns or fails; whether a
  task ever ends is left open, and `PlayEnds` holds without it.
* `JobWait`: weak fairness of the scripts, which wait for nothing but answers,
  and of the publication of the job's task and output (`JobPublished`): without
  either both scripts poll for ever, as their code says. Nothing is assumed of
  sub-tasks or of the end of the job.
* Everything else is safety, without fairness.

## Proofs

TLAPS proves, for every value of the constants that the named assumptions allow:

* **ContainerPoolProofs**: `TypeOK`, `CounterRecordsSpent`, `FreshSelection` and
  `AppleToApple` of the pool, and that it implements `ContainerLedger`. The
  invariants of the run are not inductive: a host in the last play writes back a
  counter it read again, so one must know that what it holds is still what its
  counter selects. `PoolInv` adds that (`HoldsSelection`, with the counter a
  multiple of four). For `AppleToApple` one must also know of the hosts that reuse
  what they hold (`ReuseSelects`), and it is about lists that are in proportion
  themselves: the theorem assumes `InProportion`, as the comment in
  `registrations_old.yaml:68` has it (and as `ScheduleAssumption` makes the hosts of
  a batch loop); on other lists the code promises nothing. The refinement takes one
  step per action: `Prepare` is `Take`, `Increment` is `UseUp`, losing a host is
  `GiveBack`, everything else stutters. Of the batch loop over the pool:
  `NeverOverdrawn`, `FullBatch` and `OneTurnEach` for any number of hosts,
  containers and expected registrations. `ScheduleInv` is the pool's invariant, the loop's account in whole
  groups, and for hosts never lost the exact balance of counter, batch and rest
  (`CleanAccount`).
* **FullExperimentProofs**: `PushCarries`, `ContentArrives` and
  `CleanupIsComplete` for any list of products, any failing plays and both
  branches with and without capsules. `PipelineInv` names what the shell relies on
  and what runs beside it: pushes belong to rounds in order and at most the last
  one runs (`RoundsInOrder`), a view has a version only from its round on
  (`PublishedInRound`), what is promoted is what composites held when they were
  published last (`Flow`), a push lies between what was promoted at its fork and
  what may be promoted by its end (`PushCarries`), a round without a flawed
  composite handed on everything (`RoundIsWhole`), the capsules have what the last
  push took (`LastPush`), and what the lists of the cleanup do not name is gone
  (`NothingLeftOut`). `ResultIsEarned` of the browser run goes with `RunInv`: what
  is stored and what still lies ahead account for every browser, and the role
  that is evaluated belongs to the open one. It assumes that no browser is listed
  twice (`Once(Browsers)`): `runner.py:370` takes the list as it is given, and a
  browser listed twice is stored again over what it failed before.
* **ImagePatchingProofs**: `MigratedBeforeMounted` and `AppliedStays` for any pull
  requests, command lines and number of runs. `PatchingInv` follows the migrations
  through a run: patched means pending, past `Migrate` means in the database
  (`NoneForgotten`). `AppliedInv` says for every step of a run what its tree, its
  manifest and its mounts amount to by then (`Laid`, `MountsFit`), and what of
  earlier runs it has not touched (`Stays`); `AppliedStays` alone says nothing of
  the run in progress.
  Of the image: `ImageIsConsistent` for any gems, changes and number of
  pull requests. `After(k, g)` is what the first k pull requests make of a
  dependency. As long as every diff fits, each one starts from where the one
  before it ended (`Chained`); a line of the specification is at `After(m, g)`
  when its edits are done up to the m-th (`SpecFollows`, with the order of the
  edits), although source and specification are changed in different phases.
* **BrowserProofs**: of the evaluation of a role `TypeOK`, `OneVerdictPerPage`,
  `ContractFollowsStatus`, `NothingLeftRecording` and the action property
  `FirstResultStands`, for any menu, any scenarios and any workflows. `RoleInv`
  ties the stored results to the lists of the coverage, the menu still ahead to
  the pages already there, and the recordings to the phase; without it a menu that
  lists a page a second time could not be excluded. `WaitIsHonest` for any
  contents and times: `WaitInv` keeps the read since which the present signature
  stands (`SignatureStands`) and how far the clock can be in each phase
  (`ClockInTime`). `StepsAreRequests` for any ids and any number of requests:
  what is on its way has an entry with its own start (`KnownAlive`, although
  dropped requests leave entries behind), and what had ended at a snapshot ended
  before it (`SnapshotSplits`), so cut and comparison select the same records.
  `SweepFindsOverlap` for any requests and any rounding: the sorted events are a
  list of starts and ends in which the sum up to a place is the number of
  intervals open there, also where several begin and end at one offset.
* **TaskWaitProofs**: `PrintedIsMeasured` and `OkMeansDone` for any number of
  targets and polls. That no second task starts beside one that is waited for
  depends on what the play has done with a target so far, which the tasks alone
  do not tell. `WaitInv` says it: targets that are still ahead have at most the
  unpolled task of the first loop (`TargetsAreFresh`), the task that is polled is
  the last one of its target with polls left (`WatchedFits`), and where a POST is
  about to be sent everything before was given up (`PostsWhenGivenUp`).
  Of `JobSpec`, in which script and server move from the start:
  `CancelledOnlyWhenStuck` for any number of sub-tasks and any timeout. The
  counter of the script is compared with the polls since the last change, which
  starts anew while the script is not looking; `JobInv` says that a change since
  the last poll always shows: every change takes a sub-task from the pending ones
  and none comes back (`SeenLiesBehind`). `FuzzyIsThin` follows from `FuzzyInv`
  (a job that stopped has sub-tasks that ended) and the position of the k-th
  value in the sorted lists.
* **RegistrationDataProofs**, the log: `AttributionIsExact`, `FiguresAgree` and
  `LoneTraceIsWhole` for any registrations, plans of requests and windows, and a
  log of any length. `LogInv` says what the log is by then: records in the order of
  the clock (`InOrder`), each sent by its registration (`WasSent`), those of the
  plan's single requests once (`LoggedOnce`), audit lines with the UUID of their own
  request or none (`OwnUuid`), and the scripts before the creation
  (`ScriptThenCreate`). A bisection only sees times and several lines share a
  second, so what stands before or behind a creation follows from the order of
  the plan and not from the window.
  The cache: `CacheIsTransparent` and `DownloadedOnce` for logs of any
  length and any number of updates. `CacheInv` adds what a call has read by the
  step it is at, and that all layers, the call in progress and all results stem
  from a log of one length, unless the log was cut or removed (`AllFrom`).
  The campaign and its reports: `LevelIsTheBatch` and `PassesAreFound` for any
  containers, any plans of batches, any threads and buckets of any size.
  The reports compare times and know nothing of batches, so `CampaignInv` has to
  say that batches are apart in time: of the containers (`BatchesApart`), of the
  sessions, among which those of a batch that failed as a whole and those of
  retries have no window of their own (`SessionsApart`), and of the rows, which
  bound the passed containers of exactly one batch (`RowsOfBatches`). A container
  that passed has one session of its first try, inside its time (`FirstTries`).
  `ReportsAgree` for the same, with any number of samples: the sessions of a window
  are divided up by category, by type of error and by bucket, and the parts of each
  division add up (`PartsAddUp`); that a session without an answer has no duration
  (`NoAnswerNoTime`) is why the analysis, which asks for both, and the traces
  count the same ones.
  The comparison: `ComparisonIsFair` for any builds, levels and results.
* **MeasurementProofs**: `VerdictIsEarned` for any lists of commands.
  `MeasurementInv` ties the position of both shells to the success of the first
  attempts behind them (`CheckedSoFar`), `set +e` to the end of the whole check
  (`MeasuringAfterCheck`), and jobs and `junit.xml` to rows of the log.

Assumptions are those stated with `ASSUME` in the modules (`PoolAssumption`,
`ScheduleAssumption`, `RoleAssumption`, `TrackerAssumption`,
`ReadinessAssumption`, `TaskWaitAssumption`, `JobWaitAssumption`,
`RegistrationLogAssumption`, `TraceReportAssumption`, `CampaignAssumption`,
`ReportsAssumption`, `ComparisonAssumption`, `RunCacheAssumption`,
`MeasurementAssumption`, `PatchingAssumption`, `BuildAssumption`,
`ContentAssumption`, `NoVersionAssumption`, `ExperimentAssumption`); TLC evaluates
them in the runs. `NoVersionAssumption` only says that the value for "no version" is
not a set of views. `RegistrationLogAssumption` has each client send its scripts before it is created, and create and register once,
as `subscription-manager` does; `CampaignAssumption` and `ComparisonAssumption` have
finitely many containers, builds and levels.

Lists that the code filters and sorts are written with their members' places
(`Window` of `RequestTracker`, the sets of places in `RegistrationLog`, `Sorted` of
`PythonBasics`) where something is proved about them: `SelectSeq`, `SortSeq` and the
folds are defined by recursion, of which the provers see nothing. What has to be
shown for every finite set (a sum, an enumeration in order) is shown from a least
element of one fixed set of numbers (`WFMin`, in `MemberByMember` and `CountsUp`),
never with an induction theorem.

Only model-checked are the liveness properties (`EndsUnlessRetrying`, `RunEnds`,
`PlayEnds`, `JobIsGivenUp`) and `FailureReported`, which says that something comes
about: under fairness they are out of the prover's reach. Every invariant and
action property of the runs that pass, and the refinement, is stated by a theorem.

## Findings

* `container_reuse`: with the default of `reuse_hosts` a run selects containers
  an earlier run executed its tasks on, when that run lost the host before its
  counter was advanced.
* `junit_too_early`: `latest-junit.xml` is copied while status data jobs are
  still running, and lacks their results.
* `polling_phase`: a call of a trace belongs to the first phase with a pattern its
  path begins with; `GET /rhsm/` of the status and certificate loop
  (`generate_trace_report.py:69`) comes before the pattern of compliance polling
  (`:72`), so that phase, printed as "Phase 6 — Compliance polling" (`:563`), is
  always empty and its calls are counted and timed with the loop.
* `patched_by_role`: the role calls the patch script once per container with
  `--force` and the default tag (`apply_prs/tasks/main.yaml:20`), so the call for
  a container removes the tree that the container before it mounts.

Divergences between documents and code met while modelling, described here and
not run:

* `navigation.py:438`, docs/ui/ui-browser-metrics.md:282: content counts as
  stable although the page was empty for a while within the settle time.
  `StableWindow` states what does hold.
* `runner.py:1053`, docs/ui/ui-browser-metrics.md:426: after a fatal error the
  browsers that were finished have results and no contract.
* `runner.py:200`, same document, line 443: which pages the contract tracks.
* `navigation.py:160`, line 215: the slowest requests include failed ones.
* `navigation.py:413`, lines 306 and 320: the clock of a workflow step starts
  later than described.
* `fam.sh:631`: "while next product fetches": the push also overlaps the
  composites of the next product and their promotion, so it may carry them.
* `fam.sh:1210`: `cleanup_fam` never sees the view of
  `incremental_cv_updates_fam`; with it the RHEL products stay.
* `hammer.sh:129`: with fewer expected registrations than container hosts the
  batches have size 0 and the loop over them never ends.
* `hammer.sh:138`: a repeated experiment starts its batches from the full count
  and meets the end of the list.
* `run-library.sh:703`: "Retry the execution until it succeeds" ends after five
  retries, and under `set -e` the first failing retry ends the shell.
* `common.py:549`: sessions cached without an inventory stay unrouted for later
  runs that give one; `--inventory` promises a classification by topology.
* `common.py:395`: a log whose writing was interrupted is a cache hit.
* `common.py:719`: with a full cache `measurement.log` and the list of archives
  are still fetched.
* `wait_for_job.py`: the help text counts successful and failed sub-tasks as
  progress, the code pending ones too (line 109). A timeout of 0 never cancels;
  a job whose output ends while it is read stops the script with an exception;
  the check for `error` cannot be reached; and `jsr` goes on as if the job had
  succeeded in every case.
* `apply_prs/tasks/main.yaml` describes the diff method, and calls with
  `--whole-file`. There a later pull request overwrites the files of an earlier
  one, while with diffs migrations are skipped silently (their directory is a link
  that is not extracted).
* `patch_container_image.py:554`: "independent per-PR drop-in layers that don't
  conflict": layers of two pull requests that change one file are two mounts of
  one path, and the unit does not start.
* Reports. Samples "spread across the duration distribution" are the fastest ones
  when there are fewer than twice as many registrations. "Saturation begins" names
  the last level when nothing failed, and "No plateau data — all levels
  succeeded" stands where nobody passed. A level where nobody passed has no row in
  `measurement.log` and is in no table; a repeated level keeps its first row
  there, while its JSON file is overwritten by the last. A registration that fails
  in the last second of its window is in the level and in no bucket. Requests
  without an answer count as successful in traces. `generate_trace_report.py`
  ends with an error when a level it is asked for has no row.
* `compare_runs.py`: "drops below 100%" is tested as below 95 %, and "100% pass
  rate at all tested levels" follows from it; a baseline without a level shows 0
  passed in it; the executive summary adds up the levels each side has.
* Never called: `_collect_satellite_data`, `_collect_capsule_data` and the second
  `_lb_locations_from_topology` of `generate_registration_analysis.py`,
  `_build_traces_for_group` of `generate_trace_report.py`.

## Not modelled

* Setup of Satellite, capsules and container hosts (`playbooks/satellite`,
  `katello`, `common`, `ansible-cnv-host-mgr`), but for `apply_prs`: declarative
  configuration without a state of the harness.
* `kill_pending_tasks.yaml`: it sweeps over all jobs of the server, also those that
  started after the tasks it was called for.
* The log files of the registration retry. The loop itself is `Retry` of
  `ContainerPool`, its effect on the reports is in `RegistrationCampaign`; that a
  container which is unreachable in a pass is not counted as failed is one of the
  ways in which `Retry` may find nothing left to do.
* `wait_for_ping`: the loop that repeats the last command of the environment check
  until the Satellite answers, without a bound (`run-library.sh:262-272`).
* A step 5 of the traces: see **TraceReport** above.
* Menus, tables and login of the browser: selectors and fallbacks over a page;
  each of them succeeds, finds nothing or raises in `RoleEvaluation`.
* Monitors of PostgreSQL, Tomcat, the network and garbage collection in the
  analysis, which are averaged like the ones of Puma; `investigate-regs-errors.py`,
  `pulp-tasks-flow.py`, `horreum_status_data.py`, `grep_production_log.py`, the
  Locust users, dashboards: computations and text over given data.
* The experiments themselves: lists of the commands `Measurement` models. The
  playbooks of older tests: they share the counter file with the pool.
* Two operators or two scripts at once on one host, inventory or cache
  directory: nothing in the code foresees it.

## Plan

1. Done: container pool and batches, measured commands, browser (role, run,
   tracker, readiness), Foreman tasks, registration log, cache, the FAM content
   pipeline and its composition with the browser run, jobs, image patching and
   building, registration campaigns with their reports, traces, comparison of
   runs.
2. The other scenarios of `fam.sh` and `hammer.sh`: remote execution with its
   sweep, rolling views, and the manifest steps left in the background.
3. `kill_pending_tasks.yaml` on the server of `TaskWait`.
4. `wait_for_ping` in the environment check of `Measurement`.
5. The capsules' files in `RunCache`, rotated logs in `RegistrationLog`.
