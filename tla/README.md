# TLA+ models of the test agent

The repository is a Go program that runs on a test host: an HTTP server through
which a client (usually an AI agent) executes commands, runs long commands as
asynchronous tasks, uploads files, and rotates the token that protects all of
this. Everything it does is written to a signed, hash-chained log. This
directory holds TLA+ models of its parts, TLC configurations that check them on
small instances, and theorems about them proved with TLAPS.

Every definition is a translation of Go code; `PROJECT.json` names the file and
the lines ("map"), the hazards each property is for ("hazards"), and for each
property a plausible bug that it catches ("mutants").

    tlc -config TaskManager.cfg TaskManager.tla       # one run
    tlapm TaskManagerProofs.tla                       # the proofs of a module

## 1. The system

| component | source | state | operations |
|---|---|---|---|
| task manager | `internal/taskmanager` | map of tasks, `runningCount`, one context per task | `Submit`, `Get`, `Cancel`, `CancelAll`, `runTask` (a goroutine per task), `cleanup` (ticker) |
| command execution | `internal/executor` | none between calls; per call: process group, two pipes, context | `Validate`, `ResolveWorkDir`, `Execute`, `readLimited`, `killProcessTree` |
| token manager | `internal/auth` | token file, cached token, a channel with one place | `InitToken`, `VerifyToken`, `RotateToken`, `rotationLoop`, `TriggerManualRotation` |
| audit log | `internal/logger`, `internal/logentry` | sequence number, last hash, log file, replication queue | `New` (recovery), `Handle`, `appendEntry`, `dispatchLoop`, `Close`, `VerifyLogFile` |
| senders | `internal/mq` | connection or spool directory | `Send` (file, Redis, Kafka), `Close` |
| uploads | `internal/gateway` | the upload directory | `handleUpload`, `saveUploadedFile` |
| gateway | `internal/gateway` | the HTTP server; none of its own per request | middlewares, handlers of exec, tasks, uploads, rotation |
| start, shutdown | `main.go` | signal channel, service context | start order, `CancelAll`, `svcCancel`, `Shutdown`, `Close` of the log |
| signing keys | `internal/logger/signer.go` | two key files | `EnsureKeyPair`, `LoadSigner`, `GenerateKeyPair` |
| configuration | `internal/config` | none | `Load`: defaults, YAML, environment, checks |
| Windows variant | `executor_sys_windows.go` | none | kills the main process |
| scripts | `deploy/` | none | installation, fetching the token |

How they interact. The gateway calls everything else from one goroutine per
request. A `POST /tasks` spawns a task goroutine, which calls `Execute`, which
starts two readers and a killer besides the watcher that `exec.CommandContext`
starts. Contexts carry cancellation downwards: `Cancel` and `CancelAll` cancel a
task's context, a closed client connection the context of `/exec`. The token
file is shared with operators, scripts and other processes. Every component logs,
from any goroutine, through `TamperProofLogger.Handle`, so the log is where all
of them meet. `main` ends the process: cancel all tasks, stop the services, shut
the server down, close the log.

What is hard, and what makes each part correct:

* **Task manager**: a task is written by its own goroutine, by requests and by
  shutdown, in two critical sections with the command between them. The count of
  slots must agree with the tasks; outcomes must agree with what happened;
  nothing may be forgotten too early, or never; slots must come back.
* **Reads of tasks**: `Get` hands out the live pointer, so the JSON encoder
  races with the writers. What a client concludes from a body must still hold.
* **Audit log**: numbering and appending are two critical sections; writes fail;
  processes die between them; a dispatcher and `Close` race with producers. The
  chain must be linear, the log must verify when nobody touched it, nothing may
  be replicated that is not on file, and `Close` must return.
* **Token manager**: file and cache cannot change together. The file's token
  must always be accepted, an old one never again, whatever fails in between.
* **Uploads**: requests share a directory, and names are chosen by clients. A
  target must be whole and belong to its last successful upload.
* **Execution**: the process ends by itself, at its deadline, or is cancelled,
  while four goroutines race. Result and output must be true, and `Execute` must
  return.
* **Daily rotation**: a timer counts real hours and the configuration names an
  hour of the wall clock, which changes twice a year. Rotations must be neither
  left out nor drift.
* **Requests**: paths, names, timeouts and settings come from outside. What a
  command gets must be what was asked for within what is allowed, at every edge:
  `..`, the root, relative directories, overflow, values out of range.
* **Signing keys**: two files are written one after the other. A key that has
  signed must never be replaced, whatever write fails or crash comes.
* **Shutdown**: requests are served while the process ends. It must end, and what
  survives it must be explained.

## 2. The modules

| module | models | extends or instantiates |
|---|---|---|
| `TaskManager` | taskmanager.go; of `Execute` what `runTask` can see | |
| `TaskLifecycle` | abstract: what the task API promises | |
| `TaskRead` | `Get` and `respondJSON` against the task manager | `TaskManager` |
| `TamperLog` | logger.go: `New`, `Handle`, dispatcher, `Close`, verification | |
| `TokenManager` | auth.go, and the requests that use it | |
| `Upload` | `handleUpload`, `saveUploadedFile` | |
| `FileStore` | abstract: what the upload directory promises | |
| `Executor` | one `Execute` on Unix with its goroutines | |
| `RotationClock` | when `rotationLoop` rotates, on a clock that changes | |
| `KeyFiles` | signer.go and `GenerateKeyPair`: the key files over starts and crashes | |
| `Agent` | main.go from the listener to the end of the process, with requests | `TaskManager` |
| `Paths` | `path/filepath`, and a reference that follows a path segment by segment | |
| `Config` | config.go: `Load` | |
| `Gateway` | what the handlers decide: refusals, directory, time limit, file name | `Paths`, `Config` |
| `GatewayMC` | inputs for the model checker | `Gateway` |
| `TaskManagerProofs`, `TamperLogProofs`, `UploadProofs`, `KeyFilesProofs`, `ExecutorProofs`, `GatewayProofs` | theorems | the module of that name, `TLAPS` |
| `TokenManagerProofs` | theorems | `TokenManager`, `RotationClock`, `TLAPS` |
| `CompositionProofs` | theorems | `Agent`, `TaskRead`, `TaskManagerProofs` |

The step size follows the locks and the system calls. What happens under one
lock is one action (`Submit`, `Cancel`, `Chain`, `AppendEntry`); what happens
without a lock is one action per access to shared state (the four file
operations of a rotation, the loads of the JSON encoder, each `read` of a pipe).
Each module keeps a `SafeSpec` (no fairness), a `Spec` (with fairness), its
properties, and the inductive invariant its proofs use. Operators commented
"A seeded fault" are not part of the model: each is a variant of the definition
below it with a plausible bug, and shows that a property would notice.

**TaskManager.** `tasks`, `status`, `ctx`, `runningCount` are the fields of the
Go structs; `finished` stands for `FinishedAt` and `Result`; `pc` is where the
goroutine of the task is: spawned, past the first critical section, in the
command, past it, done. `exit` is the exit code `Execute` gave. Each task
identifier is used once, as `GenerateTaskID` draws them. A timeout is unset (0),
within `max_timeout`, or beyond it: `context.WithTimeout(ctx, 0)` is born expired
(`InitialCtx`), and beyond the maximum `Execute`'s own deadline comes first
(`ExecCapped`). `released` is a history variable: the cancellations that gave a
slot back. `Detaching` marks commands that leave their process group with the
pipes open.

**TaskRead.** The encoder reads the fields of the live task, a string as a
pointer and a length, in any order: that is what the data race allows. `snaps`
records the states the task went through meanwhile, `ended` whether it had
finished when `Get` looked it up.

**TamperLog.** A call is its own hash: hashes collide for no two entries. `file`
lists lines; a write may fail and leave a part of a line (`torn`), behind which
the next line is unreadable (`Garbage`). `mode` follows the process through
`Close` (cancelled, draining, closed), `Crash` and `Restart`, which recovers
number and hash from the last line, or falls back to stderr when it cannot read
it. `HonoursCtx` and `SendMayFail` say what kind of sender there is. `Split` are the
calls with an attribute that JSON does not give back as it was: a preview cut
inside a rune, a request id that is not UTF-8, an integer beyond 2^53.

**TokenManager.** `disk` is the content of the token file, `cache` the field,
`rot` the position of the one goroutine that rotates. A request goes through
`CompareCache`, `ReadFile` (or `ReadFileFails`: any error denies), `RefreshCache`,
the three accesses of `VerifyToken`. `main` takes the token for its banner and
prints it in two steps (`ReadBanner`, `PrintBanner`), while the loop may rotate.
`Outside` is everybody else at the file. History variables record which tokens a
completed rotation replaced (`retired`), whose token was in the file all along
and could be read there (`steady`), whether a rotation replaced the token of the
banner before it was printed (`behind`), whether a rotation fell between a request's read of the file and its
refresh of the cache (`crossed`), and whether the file was changed otherwise than
by a completed rotation (`astray`).

**Upload.** A path is a name and how many `.tmp` it ends in; the directory maps
paths to files, and a file is named after the upload that created it, so renames
move files as the operating system does. `latest` records successful answers.
The disk that makes an upload fail may also refuse `os.Remove`, whose error the
code discards (`CleanupFails`); `stuck` records those uploads.
`FileStore` has neither temp files nor renames: an upload is stored whole, in
one step, in which it is also answered with success; otherwise it leaves no
trace under a target, and a conflict has a reason: the target exists, or another
upload of it is under way, was lost, or failed. `ImplementsStore` maps a target to what a reader finds there, and a
handler at any of its steps to an upload that is pending.

**Executor.** Output comes in units, a pipe holds `PipeCap` of them, a reader
stops at `Limit`. `pid` says what the pid of the shell stands for, since
`killProcessTree` goes by it. A background process may hold the pipes or not.

**RotationClock.** A day is a number of hours (24, or 23 and 25 when the clock
changes), `elapsed` of which have passed. `skips` and `repeats` are the hours that
the local zone leaves out in spring and shows twice in autumn, which may be the
first or the last one of a day. `Wall` is what the clock shows, and `Moments` is
`time.Date`, which picks one of two for an hour that is repeated and a neighbour
for one that is skipped, be it across midnight. `delay` is what the timer has left, in real
hours. An hour is the step: what happens within it happens at its beginning.

**KeyFiles.** A key pair is one value in two files. `os.WriteFile` is two steps,
creating (or truncating) and writing, and may fail in between and leave a part.
`step` follows one start; `Crash` and `Restart` lead to the next, which may be
configured otherwise. `signedWith` records what entries were signed with.

**Agent.** `main` is where main is between the listener's start and the exit,
`conn` where the handler of each request is. The requests call the actions
`Submit` and `Cancel` of `TaskManager`, main calls `CancelAll`; tasks go on as
long as there is a process. `StopServices` is both `CancelAll` and `svcCancel`,
which no request can tell apart. `late` records tasks submitted after
`CancelAll`, `drained` whether `Shutdown` returned without an error.

**Paths, Config, Gateway.** Pure decisions: one request is one step, and
`effect` is what its handler goes on to do (the rest is in `Executor`,
`TaskManager`, `Upload`). A path is a sequence of segments. `Push`, `Clean`, `Join`
and `Rel` are the lexical operations of the library; `Descend`, `Walk` and `Place`
are what an operating system does, and the properties compare the two. Configuration fields
stand for the kinds there are: with or without a variable, refused, filled in or
taken as they are. Times are in two's complement of few bits (`Half`), a second
has `Unit` nanoseconds.

## 3. The runs

`CHECK_DEADLOCK FALSE` stands where the system may stop: tasks, calls, uploads
and executions are finite in number, a failed start and an exit are final. In
`KeyFiles` and `RotationClock` there is always a next step, and TLC checks it.

| run | properties | question |
|---|---|---|
| `task_manager` | `SlotAccounting` `OvershootBound` `CleanupSafe` `OutcomeHonest` `RunningCancelWins` `ImplementsLifecycle` `EveryTaskEnds` `FinishedForgotten` | two tasks for one slot: is the bookkeeping right, is the promise kept, does everything end? |
| `task_views` | `ShownOutcomeIsFinal` `LateGetExact` | what may a client conclude from a body that was encoded without a lock? |
| `audit_log` | `ChainLinear` `SmoothVerifies` `FirstLifeComplete` `DisplacementBound` `ReplicaRecorded` `CloseTerminates` | what survives overlap, failing writes, a restart, a failing broker and `Close`? |
| `token_rotation` | `FileWhole` `FileTokenWelcome` `RotationRevokes` `PrintedValid` `TriggerHonoured` | which tokens are accepted while everything about a rotation may go wrong? |
| `daily_rotation` | `AttemptEveryDay` `DriftBounded` | does the rotation keep its pace and its hour over the changes of the clock? |
| `upload_directory` | `NeverPartial` `StoredIsOwn` `TempOwned` `ConflictExplained` `EveryUploadEnds` `ImplementsStore` | are uploads kept apart, through failures and a crash, and is each one atomic for readers? |
| `execution` | `OutcomeHonest` `OutputComplete` `ExecuteReturns` | are result and output true whichever goroutine is faster? |
| `requests` | `ConfigSound` `LimitRight` `WorkDirRight` `UploadRight` | are configuration, time limit, directory and file name right at the edges? |
| `signing_keys` | `KeysAgree` | does one key sign everything, and does the public key fit it? |
| `shutdown` | `OrphansExplained` `DrainedIsQuiet` `ShutdownEnds` | which commands outlive the agent, is a drained server quiet, does the process end? |
| `log_overlap`, `rotation_storm` | `AlwaysVerifies`, `RotatesDaily` | see section 6 |

The type invariants are theorems and not in the runs.

Bounds, and why they are enough:

* `task_manager`: 2 tasks, 1 slot, both cancellable (44,544 states). Tasks meet
  only in `runningCount` and in `CancelAll`; two tasks show a slot given back too
  early being used, and a task refused until a slot is free. The safety
  properties are proved for any number of tasks and slots.
* `task_views`: 1 task and one `GET` after another (53,912). A body concerns one
  task, and other tasks do not write to it.
* `audit_log`: 3 calls, two of them possibly in flight (`MaxInFlight`), 2 processes
  (`MaxLife`), a queue of 1 (`QueueCap`) (211,812). Two calls in flight can
  displace a line by one, and with the third a line could be out of place by two,
  which `DisplacementBound` excludes; a full queue needs two entries, and a second
  process starts from every file three calls and failing writes can leave. All of
  it but the liveness is proved for any number.
* `token_rotation`: 3 tokens, 1 request at a time, outsiders, failing reads, writes,
  renames and chmods, crashes at every step (460,015). Three tokens are two
  rotations after a start, which a request can straddle. Any number of requests
  is in the theorems.
* `upload_directory`: 3 uploads to 2 targets, 1 crash (`MaxCrashes`), failing
  writes, renames and removals (65,870). Two uploads collide while the third comes after
  the crash.
* `execution`: `Limit` 2, `PipeCap` 1, `MaxOut` 4 units on each stream, all kinds
  of background process, pids used again (103,680). 4 is more than limit and pipe
  together, so the shell can be stuck in a write; 2 lets a reader be partly done.
* `daily_rotation`: zones that skip, and repeat, hour 0, 1, 2 or 23; rotation hours
  0 to 4, 12, 21 to 23, which are those near a change or midnight and one that is
  not; any number of years, as the state is that of one day (209,120).
  `rotation_storm`: hour 0, in a zone that changes at 2.
* `requests`: every path of up to three segments out of two names and `..`, under
  work directories that are absolute, relative, the root and nested; every
  timeout of six bits (`Half` 32), which overflow with 6 nanoseconds to a second;
  settings at and beyond the edges of their ranges; every kind of refusal
  (185,426). One request at a time: the handlers share nothing here.
* `signing_keys`: 4 keys: one in each file, one in use, one new (1,384).
* `shutdown`: 2 tasks for 1 slot, 2 requests, a signal at any moment, so that
  a request comes before and one after `CancelAll` (168,140).

Fairness. The runs with liveness properties assume it of these only:

* `TaskManager`: a spawned goroutine is scheduled; deadlines and retentions pass
  (timers); the ticker sweeps until `main` stops it. Nothing obliges a client to
  act or a command to end: `EveryTaskEnds` rests on the deadline.
* `TamperLog`: the dispatcher goroutine runs, `Send` returns (its context has
  five seconds), and `Close` goes on; the draining ends because its context has
  three seconds, so `CloseEnds` is fair also while producers refill the queue.
* `TokenManager`: the rotation goroutine goes on, and its select takes a waiting
  manual request. Nothing is assumed of clients, the daily timer or outsiders.
  The rotation is weakly fair as one unit, so a failing step also counts.
* `Upload`: a handler goes on; the form has been parsed by then, so it waits for
  the disk only.
* `Executor`: the deadline passes, both goroutines that kill run, readers read
  what is there, `Wait` and the return happen. The command and its background
  process need never end.
* `Agent`: `main` goes on, and the timer of `Shutdown` fires. Nothing is assumed of
  requests, of their commands, of tasks, or of the listener.

## 4. What is proved

The theorems hold for every value of the constants (any number of tasks, slots,
calls, tokens, requests, uploads, crashes), from the assumptions named in the
modules: the set of tasks is finite, `max_running_tasks` is positive (as
`config.Load` makes it), rotation hours are hours, and constants are of the
expected types. Every proof is checked to the last leaf; nothing is assumed
without proof. Every safety property that a passing run checks is among them.

* **TaskManagerProofs.** `SlotAccounting` is not inductive by itself: whether a
  slot was given back early depends on the status a cancellation found, and that
  on where the goroutine is. The invariant `IndInv` adds `Coherent(t)`, which
  relates status, goroutine, `FinishedAt` and the releases of one task, and
  `CountBound`. It is proved in three layers: types; then what concerns one task
  (`LocalInv`, one lemma for each kind of action); then the count (`CountInv`),
  where the work is the cardinality of `Unfinished` and `released` under each
  action, in particular under `CancelTasks(S)` for a set `S`. From it follow the
  accounting, `OvershootBounded`, `BoundWithoutCancel` (while nobody cancels,
  `max_running_tasks` does bound the commands that run, which is exactly what
  fails after a cancellation), `CleanupIsSafe`, `OutcomesCorrect`, `RunningCancelDecides`,
  `OutcomesStable`, and `Refinement`: every step is a step of `TaskLifecycle`
  or leaves it alone.
* **TamperLogProofs.** `ChainIsLinear` with `ChainInv`: the running process's
  entries have numbers up to `lastSeq`, and the one with that number is
  `lastHash`. `SmoothLogVerifies` with `SmoothInv`: as long as calls do not
  overlap and writes do not fail, the file is a chain and the logger stands at
  its end, or one entry ahead of it; a crash may lose that entry, and recovery
  stands at the end again. So `--verify-log` succeeds at every moment, through
  any number of restarts. So what breaks an intact log is overlapping calls,
  failed writes, or, where `Split` is not empty, an attribute that JSON does not
  give back as it was: a preview cut inside a rune, a request id that is not
  UTF-8, an integer beyond 2^53 (section 6). `FirstLifeIsComplete` and
  `DisplacementIsBounded` say how far it goes, for the first process while writes
  succeed: `CompleteInv` counts, `lastSeq` is the length of the file and the calls
  that are about to append, so no number is missing once they have, and a line is
  out of place by fewer than `MaxInFlight`. `ReplicasAreRecorded` with
  `RecordedInv`: only what is past its write gets into the queue, also when the
  queue is full, drained, or refilled while `Close` goes on.
* **TokenManagerProofs.** `FileAlwaysWhole`, `FileTokenIsWelcome`,
  `RotationDoesRevoke`, `PrintedIsValid` from one invariant of five parts: every
  token anywhere was issued; where the rotation stands tells what is in the
  file; a steady request's token is in the file and it is not denied; no retired
  token is in the file, nor in the cache or on the way there unless a rotation
  crossed a request; and (`PrintInv`) file, cache and banner agree, but for the
  moment between the rename and the cache, and for a banner that a rotation
  overtook while it was printed: that one is made good by the next rotation only
  (section 6). `FileTokenIsWelcome` excepts requests that could not read the file.
* In the same module, of `RotationClock`: `AttemptedEveryDay`, for all rotation
  hours from 0 to 23 and all zones that skip one hour, whichever, in spring and
  repeat one in autumn: `age + delay <= 24` (`TimerInv`)
  is inductive, because `nextRotationDelay` never asks for more than 24 real hours
  (`DelayUntilBound`, over all moments of days of 23 to 25 hours) and an hour moves
  one from `delay` to `age`. The lower bound there is 0 and not 1, which is
  `rotation_storm`. `DriftIsBounded` needs to look ahead: `DueInv` says that the
  timer which is set now fires near the hour (`FiresNear`), today or tomorrow,
  whatever tomorrow's length can be (`NextLengths`), over any number of years; or
  at the midnight that is left of hour 23 when it is skipped. It also says when the storm comes: only in the last hour of a day of 25 hours, for
  `rotation_hour` 0.
* **UploadProofs.** `TargetsWhole`, `TargetsOwn`, `TempFilesOwned`,
  `ConflictsExplained`, under the hypothesis that no target ends in `.tmp`
  (`Suffixes = {0}`): an upload at work has the temp name of its target to
  itself, a target holds a complete file of an upload answered with success, and
  a temp file bears the name its own upload gave it (`TempNamed`) and is there
  because that one is at work, was interrupted by a crash, or could not remove it
  (`MayHaveTemp`). Every step is then one of `FileStore` or leaves it alone
  (`PromiseStep`, one case per action): the rename is the one step that stores, a
  409 finds the upload it is blamed on, a crash loses all uploads under way at once; so `StoreImplemented`. The
  hypothesis is needed: section 6.
* **KeyFilesProofs.** `KeysDoAgree`, for any number of keys, starts, crashes and
  failing writes. The invariant says what `EnsureKeyPair` relies on without
  checking it: a start that writes found neither file (the public one is never
  there alone), so a whole public key appears only as the last step of its own
  pair; and entries are signed with what is in the private file, which is not
  written again once it is there.
* **ExecutorProofs.** `OutcomesAreHonest` and `OutputIsComplete`, for any limit,
  pipe and amount of output, and whichever goroutine is faster. The invariant
  has what the goroutines tell each other without a lock: output goes one way,
  wanted, written, read (`OutputFlows`); a reader that has stopped is at the limit
  or has all there will ever be (`ReadersTell`), so `Wait`, which comes after both
  readers, finds all of it; shell and pid exist only while `Execute` collects
  (`ShellTells`).
* **CompositionProofs.** `AgentRunsTasks` and `ReadsRunTasks`: every step of
  `Agent`, and of `TaskRead`, is a step of `TaskManager` or leaves it alone, so all of
  `TaskManagerProofs` holds of the composed agent and under the eyes of readers.
  On that, `OrphansAreExplained` and `DrainedStaysQuiet` with `AgentInv`: after
  `CancelAll` an unfinished task has its context done or is `late` (`Swept`, which
  needs `Coherent` and `CleanupSafe` of the task manager: `CancelAll` finds every
  unfinished task in the map), and a drained server has a closed listener and no
  busy handler. `ShownOutcomesAreFinal` and `LateGetsAreExact` with `ReadInv`: the
  fields of a finished task do not change (`FieldsFixed`), and a body that shows
  an outcome of `runTask` has loaded it after that.
* **GatewayProofs.** Pure decisions, for every path, default, file, environment,
  request and width of integers.
  `ConfigIsSound` and `LimitIsRight` (with `LoadedInv` and `EffectInv`): as long as
  the configured times fit, no asked timeout, however it overflows, gets a
  command more than `max_timeout` or nothing. `CountedTimeoutsAreCapped`: overflow
  is the only way in which a command that asks for more than the maximum does
  not get the maximum.
  `CleanPath` and `JoinPath` say that `filepath.Clean` and `Join`, which are
  lexical, lead where the operating system would go, from any directory, and
  keep relative paths in the form `../../a/b` (`Stacks`). On them rest
  `WorkDirIsRight` (with `DirectoryInv`), where the work is `filepath.Rel`: it
  begins with `..` exactly when the target is outside (`WayDown`, `NoWayDown`);
  and, with `UploadInv`, `UploadIsRight`, under the hypothesis that upload
  directories are absolute (`AllAbsolute`), and its first half, `SavedIsBelow`,
  for all that do not begin with `..` when cleaned (`NoParent`). `Clean` and
  `Walk` are folds; what they do to a path of any length is proved by induction
  on the number of segments, where the induction itself is proved from the least
  number that fails (`LeastNumber`, `NumberInduction`, `SequenceInduction`), and
  the fold is laid out as the table of its intermediate values (`TableExists`).

Each of them but the last also proves that the variables keep their types.

Only model-checked: liveness, as TLAPS proves neither liveness under fairness
nor ENABLED here (`EveryTaskEnds`, `FinishedForgotten`, `CloseTerminates`,
`TriggerHonoured`, `EveryUploadEnds`, `ExecuteReturns`, `ShutdownEnds`); `UploadRight`
for relative upload directories, but for what `SavedIsBelow` says of them; and
the two runs of section 6, which find a counterexample.

## 5. Abstractions

* Hashes do not collide, signatures verify exactly the bytes signed;
  canonicalising and signing do not fail for what the agent logs. Whether what is
  read back canonicalises to the same bytes is not computed: the constant `Split`
  names the calls for which it does not.
* `InitToken` with a token in the file is one step. With none it rotates step by
  step. A failing chmod of an existing file at start, which only stops the
  start, and an outsider between the two halves of the load are left out.
* Clients present tokens that were issued at some time; a guess is denied.
* The daily rotation may come at any moment in `TokenManager` (`TakeTimer`);
  when it does come is in `RotationClock`, for hours from 0 to 23. `Load` takes any
  `rotation_hour`; nothing is said of what another number should mean. Changes of
  the clock by other than an hour (Lord Howe Island, Troll), changes that do not
  come in turn, and changes of a zone's own rules are left out.
* `killProcessTree`'s `Getpgid` and `Kill` are one step.
* The checks of an upload (size, form, name, extension, directory) are one choice
  between going on and refusing in `Upload`; they are in `Gateway`.
* There are no symbolic links: `ResolveWorkDir` is lexical, and so is the reference
  it is compared with. A segment of a path is a value, not a string: the prefix
  test of the handlers compares whole segments, as the slash it adds makes it do.
* `ResolveWorkDir` takes a directory of nothing but spaces for none; in `Gateway`
  such a request is the one with the empty path.
* `Validate` looks at words: a blocked pattern is one word, and the whitelist is
  compared with the first.
* In `Agent` a connection carries one request, and one that has been accepted is
  in its handler; `net/http` also counts connections that have not sent anything
  yet as busy, for five seconds.
* A key that is read back is the key that was written; `--generate-keys` writes to
  the configured paths, and is used while the agent is down (`main` does not look
  whether it is).
* The log's failing write leaves nothing or a part of a line; a part is never
  the whole JSON of an entry.
* A message queue delivers or not; connections, spool file names and the
  partitioning of Kafka are not modelled.

## 6. Where the code departs from what is said of it

Two runs find a statement of the sources violated:

* `log_overlap` (`AlwaysVerifies`): two overlapping calls append in the other
  order than they were numbered; the untouched log does not verify.
* `rotation_storm` (`RotatesDaily`): on the day of 25 hours, with `rotation_hour` 0
  (the default), 24 hours after midnight is 23:00 of the same day. The timer fires
  there; the next delay is counted from midnight again and is not positive, so
  the loop rotates, writes and prints one token after the other until midnight.
  `DriftBounded` and `AttemptEveryDay` hold all the same.

The modules state more of this kind, which no listed run checks; each is
violated when its definition is added to a configuration:

| definition | constants that show it | what happens |
|---|---|---|
| `TaskManager!ConcurrencyBound` | 3 tasks, 1 slot | `Cancel` and `CancelAll` give the slot back, and `runTask` again: `max_running_tasks` no longer bounds the commands (`OvershootBound` says by how much) |
| `TaskManager!UnsetTimeoutRuns` | 1 task | a task submitted without a timeout gets an expired context, never runs, and ends as `timeout` |
| `TaskManager!CancelWins` | 2 tasks, 2 slots | a task cancelled before its goroutine starts ends as `failed` |
| `TaskManager!CancelEnds` (with `Spec`) | `Detaching` not empty | `Execute` waits for pipes held outside the group |
| `TaskRead!ViewIsSnapshot` | 1 task | a body mixes fields of different moments, although `Get` "returns a copy" |
| `TamperLog!AlwaysVerifies` | `Split` not empty, `MaxInFlight = 1` | a command preview cut inside a rune, or a request id that is not UTF-8, is signed over other bytes than are read back |
| `TamperLog!SeqUnique` | 3 calls, `MaxLife = 2` | recovery takes the number of the last line, which need not be the highest |
| `TamperLog!CloseFlushes` | `HonoursCtx`, not `SendMayFail` | an entry the dispatcher takes after `Close` cancelled its context is lost |
| `TokenManager!OldTokenRejected` | 3 tokens, 2 requests, no outsiders or failures | a request that read the file before a rotation stores the old token in the cache after it |
| `TokenManager!DeletionRevokes` | `Outsiders` | removing the file revokes nothing: the cache is compared first |
| `TokenManager!PrintedLastValid` | those of `token_rotation` | a rotation stores and prints its token after `main` has taken one for its banner and before it prints that: the banner, which comes last, has the old token |
| `RotationClock!AtTheHour` | `Hours = {0}`, change at 2 | a rotation falls on 1:00 after the change in spring, on 23:00 in autumn |
| `Upload!ExistingKept` | 2 uploads, 1 name | an existing target is replaced silently; the 409 of the documents comes only from the temp file |
| `Upload!StoredIsOwn` | `Suffixes = {0, 1}` | the temp name of `x` is the target `x.tmp` of another upload |
| `Executor!LimitOnlyTruncates` | `Patient`, `MaxOut` above limit and pipe | nobody empties the pipe beyond the limit: the command blocks and is reported as a timeout |
| `Executor!TreeKilled` | `ChildKinds = {"quiet"}` | the watcher kills the shell, `Wait` returns, and the killer finds no group |
| `Executor!KillsOwnGroup` | `PidsRecycled` | the killer uses a pid that has been waited for |
| `Executor!TruncatedExceeded` | `Limit = MaxOut` | output of exactly the limit is marked as truncated |
| `Gateway!LongTimeoutCapped` | those of `requests` | seconds times nanoseconds overflow: a huge timeout becomes the default or a short one |
| `KeyFiles!PublicKeyThere` | those of `signing_keys` | after a crash between the two files no start completes the pair |
| `KeyFiles!StartsSigned` | those of `signing_keys` | an empty or broken private key is not made again; the log falls back to unsigned lines on stderr |
| `Agent!NoLateTask` | those of `shutdown` | a task is accepted after `CancelAll`, and nobody cancels it |
| `Agent!TasksEnded` | those of `shutdown` | main waits for no task; a command may survive, even a cancelled one whose group was not killed yet |
| `Agent!ServesOrExits` | those of `shutdown` | when the listener fails, the process stays up without serving |

The prefix test of uploads compares cleaned paths as strings. For an upload
directory whose clean form begins with `..`, say `..` itself, a path like
`../../x` has the prefix `../`, although it is not below. `UploadIsRight` and
`SavedIsBelow` (section 4) say for which settings the test is exact; the
settings of the run `requests` are among them.

A temp file left by a crash, or by a failed upload whose `os.Remove` failed too,
blocks its target with 409 for good: `ConflictExplained` names these cases
(`MayHaveTemp`) besides an upload at work. It and `FileStore` also allow the 409 of
the documents, for a target that exists (DESIGN.md:108); the code never looks at
the target, so that reason never comes alone.

Two more disagreements are in the model without a property of their own. The
write timeout of the server equals the default of `max_timeout`, so the answer to
the longest command may be lost (`ExecAnswer`); and output that contains
`[timeout]` is answered with 408 (`Exec` in `Gateway` may answer so to any
command).

## 7. What is not modelled, and the plan

Not modelled: the cryptography, the connections of Redis and Kafka, the Windows
variant (it kills the main process only), the deployment scripts, logging texts
and response layouts, HTTP routing, configuration fields that are only passed on.

Done: every safety property of the passing runs is stated by a theorem, and both
abstract specifications (`TaskLifecycle`, `FileStore`) are shown to be implemented.

Planned, in this order:

1. An abstract specification of the token file (a token in force, replaced in one
   step), implemented by `TokenManager` as long as no request straddles a rotation
   and nobody else changes the file.
2. `Executor` inside `TaskManager`: that the commands `TaskManager` assumes are
   what `Executor` does (a refinement of `ExecExit`, `ExecKilled`, `ExecCapped`).
3. Theorems that say exactly when the statements of section 6 fail, as
   `BoundWithoutCancel`, `SmoothLogVerifies` and `CountedTimeoutsAreCapped` do for
   three of them.
