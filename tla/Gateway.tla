------------------------------ MODULE Gateway ------------------------------
(***************************************************************************)
(* What the handlers of internal/gateway/gateway.go decide by themselves,  *)
(* with the checks of internal/executor that they call, under a            *)
(* configuration that Load has accepted: which requests are refused, and   *)
(* with which directory, time limit or file name the others go on.         *)
(*                                                                         *)
(* The handlers share nothing at this level, so one request is one step.   *)
(* What goes on afterwards is in Executor, TaskManager and Upload.         *)
(***************************************************************************)
EXTENDS Paths, Config

CONSTANTS
    Setup,         \* settings: yaml and env, the inputs of Load, are functions on
                   \* Field; workDir and uploadDir are executor's directories
    Cwd,           \* the working directory of the agent
    AllowedCommands, BlockedWords, \* the rules of Validate
    ExecRequest, UploadRequest,    \* the requests that clients send
    Unit,          \* nanoseconds in a second, scaled
    Half           \* half the range of the machine's integers

ASSUME WidthAssumption == Unit \in Nat \ {0} /\ Half \in Nat \ {0}

\* Numbers have been parsed as numbers: by yaml.Unmarshal, strconv.Atoi and the
\* decoder of the request.
ASSUME NumberAssumption ==
    /\ \A s \in Setup : \A f \in Number :
          s.yaml[f] \in Int \cup {Unset} /\ s.env[f] \in Int \cup {Unset, Unreadable}
    /\ \A r \in ExecRequest : r.timeout \in Int

\* Paths are strings, whatever they hold.
ASSUME PathAssumption ==
    /\ Cwd \in Directory
    /\ \A s \in Setup : s.workDir \in FilePath /\ s.uploadDir \in FilePath \cup {Unset}
    /\ \A r \in ExecRequest : r.dir \in FilePath
    /\ \A r \in UploadRequest : r.id \in Seq(STRING)

\* The request for an upload is told from the others by its path.
ASSUME RequestAssumption == ExecRequest \cap UploadRequest = {}

VARIABLES
    setup,   \* the member of Setup that the agent is started with
    cfg,     \* what Load returned
    mode,    \* "down", "failed" or "up"
    request, \* the request that was served, Nothing between requests
    reply,   \* the HTTP status it was answered with
    effect   \* what its handler went on to do

vars == <<setup, cfg, mode, request, reply, effect>>

Nothing == [op |-> "nothing"]

-----------------------------------------------------------------------------
(* Start *)

workDir == setup.workDir

\* UploadDir: an empty upload_dir stands for the directory uploads in work_dir.
uploadDir ==
    IF setup.uploadDir = Unset THEN Join(workDir, Relative(<<"uploads">>)) ELSE setup.uploadDir

Init ==
    /\ setup \in Setup
    /\ cfg = Default
    /\ mode = "down"
    /\ request = Nothing /\ reply = 0 /\ effect = Nothing

\* config.Load and executor.New, which may fail to make a directory or to
\* compile a blocked keyword: the program ends.
Start ==
    /\ mode = "down"
    /\ IF LoadFails(setup.yaml, setup.env)
       THEN mode' = "failed" /\ UNCHANGED cfg
       ELSE mode' \in {"up", "failed"} /\ cfg' = Loaded(setup.yaml, setup.env)
    /\ UNCHANGED <<setup, request, reply, effect>>

Answer(r, status, e) ==
    /\ request' = r /\ reply' = status /\ effect' = e
    /\ UNCHANGED <<setup, cfg, mode>>

-----------------------------------------------------------------------------
(* POST /exec and POST /tasks *)

\* Validate: the first word by the whitelist, if there is one, and then every
\* pattern of the blacklist.
Validate(command) ==
    /\ AllowedCommands = {} \/ Head(command) \in AllowedCommands
    /\ ToSet(command) \cap BlockedWords = {}

Blank(command) == command = <<>>

\* The refusals of authMiddleware and of the handlers, up to Validate.
EarlyRefusal(r) ==
    IF r.auth # "right" THEN 401
    ELSE IF r.body = "garbled" \/ Blank(r.command) THEN 400
    ELSE 403

Admitted(r) ==
    r.auth = "right" /\ r.body = "json" /\ ~Blank(r.command) /\ Validate(r.command)

\* The path asked for, under work_dir unless it is absolute.
Target(r) ==
    LET asked == Clean(r.dir)
    IN  IF asked.abs THEN asked ELSE Join(Clean(workDir), asked)

\* A seeded fault: only the parent of work_dir itself is refused.
TargetRefusedParentOnly(base, target) ==
    RelFails(base, target) \/ Rel(base, target) = <<"..">>

\* ResolveWorkDir refuses: there is no way down from base to target.
TargetRefused(base, target) ==
    \/ RelFails(base, target)
    \/ LET rel == Rel(base, target) IN rel # <<>> /\ Head(rel) = ".."

\* n * time.Second in two's complement.
Nanoseconds(n) == ((n * Unit + Half) % (2 * Half)) - Half

\* The handlers: 0 lets the executor apply its default.
AskedTimeout(r) == IF r.timeout <= 0 THEN 0 ELSE Nanoseconds(r.timeout)

\* A seeded fault: the default is taken after the cap.
LimitUncappedDefault(t) ==
    IF t <= 0 THEN Nanoseconds(cfg.defaultTimeout)
    ELSE IF t > Nanoseconds(cfg.maxTimeout) THEN Nanoseconds(cfg.maxTimeout)
    ELSE t

\* Execute: the time the command gets.
Limit(t) ==
    LET wanted == IF t <= 0 THEN Nanoseconds(cfg.defaultTimeout) ELSE t
        most   == Nanoseconds(cfg.maxTimeout)
    IN  IF wanted > most THEN most ELSE wanted

\* The context of a task has a deadline of its own: none is left if it is 0.
TaskLimit(t) ==
    IF t <= 0 THEN 0 ELSE IF t < Limit(t) THEN t ELSE Limit(t)

\* What both handlers check, in the order in which they do.
Refuse(r) ==
    \/ ~Admitted(r) /\ Answer(r, EarlyRefusal(r), Nothing)
    \/ Admitted(r) /\ TargetRefused(Clean(workDir), Target(r)) /\ Answer(r, 400, Nothing)

GoesOn(r) == Admitted(r) /\ ~TargetRefused(Clean(workDir), Target(r))

\* handleExec: 408 when stderr holds "[timeout]"; 400 when the directory
\* cannot be made.
Exec(r) ==
    \/ Refuse(r)
    \/ /\ GoesOn(r)
       /\ \/ \E status \in {200, 408} :
                Answer(r, status, [op |-> "exec", dir |-> Target(r),
                                   limit |-> Limit(AskedTimeout(r))])
          \/ Answer(r, 400, [op |-> "mkdir"])

\* handleCreateTask: 429 when the task manager has no slot.
CreateTask(r) ==
    \/ Refuse(r)
    \/ /\ GoesOn(r)
       /\ \/ Answer(r, 202, [op |-> "task", dir |-> Target(r),
                             limit |-> TaskLimit(AskedTimeout(r))])
          \/ Answer(r, 429, [op |-> "refused"])
          \/ Answer(r, 400, [op |-> "mkdir"])

-----------------------------------------------------------------------------
(* POST /upload *)

\* savedName is "upload_", the first eight bytes of the request id, "_" and the
\* safe name.  The eight bytes may hold slashes, so that the name has several
\* segments: r.id lists them, the first and the last glued to the rest of the
\* name.  It is empty when the id has fewer than eight bytes.
SavedPath(r) == Join(uploadDir, Relative(r.id))

\* sanitizeFilename: the last segment, with other characters than letters,
\* digits, ".", "_" and "-" replaced, unless it is no name at all.
NameRefused(r) == r.name \in {"", ".", ".."}

\* A seeded fault: the test of the prefix is left out.
PathRefusedNever(path) == FALSE

\* The prefix test on strings: the upload directory, a slash, and more. The
\* clean forms of the root and of the working directory itself do not fit it.
PathRefused(path) ==
    LET dir == Clean(uploadDir)
    IN  dir.segs = <<>> \/ path.abs # dir.abs \/ ~IsStrictPrefix(dir.segs, path.segs)

Uploads(r) == r.auth = "right" /\ r.form = "good" /\ ~NameRefused(r) /\ r.extension

UploadRefused(r) ==
    \/ r.auth # "right" /\ Answer(r, 401, Nothing)
    \/ r.auth = "right" /\ r.form = "large" /\ Answer(r, 413, Nothing)
    \/ /\ r.auth = "right"
       /\ r.form = "bad" \/ (r.form = "good" /\ NameRefused(r))
       /\ Answer(r, 400, Nothing)
    \/ /\ r.auth = "right" /\ r.form = "good" /\ ~NameRefused(r) /\ ~r.extension
       /\ Answer(r, 403, Nothing)

\* reqID[:8] of a shorter id: the handler panics, recoverMiddleware answers.
UploadPanics(r) == Uploads(r) /\ r.id = <<>> /\ Answer(r, 500, [op |-> "panic"])

\* saveUploadedFile, or a failure of it or of making the directory.
UploadSaves(r) ==
    /\ Uploads(r) /\ r.id # <<>>
    /\ \/ PathRefused(SavedPath(r)) /\ Answer(r, 400, [op |-> "outside"])
       \/ ~PathRefused(SavedPath(r)) /\ Answer(r, 200, [op |-> "saved", path |-> SavedPath(r)])
       \/ ~PathRefused(SavedPath(r)) /\ Answer(r, 409, [op |-> "exists"])
       \/ Answer(r, 500, [op |-> "io"])

Served ==
    /\ request # Nothing
    /\ request' = Nothing /\ reply' = 0 /\ effect' = Nothing
    /\ UNCHANGED <<setup, cfg, mode>>

Next ==
    \/ Start
    \/ Served
    \/ /\ mode = "up" /\ request = Nothing
       /\ \/ \E r \in ExecRequest : Exec(r) \/ CreateTask(r)
          \/ \E r \in UploadRequest : UploadRefused(r) \/ UploadPanics(r) \/ UploadSaves(r)

Spec == Init /\ [][Next]_vars

-----------------------------------------------------------------------------
(* The inductive invariant *)

\* An agent that is up has what Load made of its settings.
LoadedInv ==
    /\ setup \in Setup
    /\ mode = "up" =>
          ~LoadFails(setup.yaml, setup.env) /\ cfg = Loaded(setup.yaml, setup.env)

\* A command or a task belongs to the request at hand and has its limit.
EffectInv ==
    /\ effect.op \in {"exec", "task"} => mode = "up" /\ request \in ExecRequest
    /\ effect.op = "exec" => effect.limit = Limit(AskedTimeout(request))
    /\ effect.op = "task" => effect.limit = TaskLimit(AskedTimeout(request))

\* A command or a task has the directory that its request names; a request that
\* has passed everything before is refused for its directory only.
DirectoryInv ==
    /\ effect.op \in {"exec", "task"} =>
          request \in ExecRequest /\ GoesOn(request) /\ effect.dir = Target(request)
    /\ request \in ExecRequest /\ Admitted(request) /\ reply = 400 /\ effect.op # "mkdir" =>
          TargetRefused(Clean(workDir), Target(request))

\* A file is where the request at hand leads, and the check has seen that path.
UploadInv ==
    /\ effect.op = "saved" =>
          /\ request \in UploadRequest
          /\ effect.path = SavedPath(request) /\ ~PathRefused(effect.path)
    /\ effect.op = "outside" =>
          request \in UploadRequest /\ PathRefused(SavedPath(request))

IndInv == LoadedInv /\ EffectInv /\ DirectoryInv /\ UploadInv

-----------------------------------------------------------------------------
(* Properties *)

\* Whatever stands in the file and in the environment, an agent that starts has
\* the positive numbers that the other modules assume, and a variable that can
\* be read has won, unless its value had to be replaced.
ConfigSound ==
    mode = "up" =>
        /\ \A f \in Filled \cup {"port"} : cfg[f] > 0
        /\ \A f \in Overridable :
              LET v == setup.env[f]
              IN  v \notin {Unset, Unreadable} /\ (f \in Filled => v > 0) => cfg[f] = v

\* A command runs in the directory that its request names, as the operating
\* system would find it, and that is inside work_dir; a directory is refused
\* only if it is outside (if work_dir is absolute, and up to mkdir).
WorkDirRight ==
    LET base  == Place(Cwd, workDir)
        asked == Place(IF request.dir.abs THEN <<>> ELSE base, request.dir)
    IN  /\ effect.op \in {"exec", "task"} =>
              IsPrefix(base, asked) /\ Place(Cwd, effect.dir) = asked
        /\ request \in ExecRequest /\ workDir.abs /\ Admitted(request)
              /\ reply = 400 /\ effect.op # "mkdir" => ~IsPrefix(base, asked)

\* As long as the configured times can be counted in nanoseconds, a command has
\* a positive limit of at most max_timeout; one that asks for less than that
\* gets what it asks for, also as a task.
LimitRight ==
    LET fits(n) == n * Unit < Half
    IN  fits(cfg.defaultTimeout) /\ fits(cfg.maxTimeout) =>
        /\ effect.op = "exec" => effect.limit \in 1..(cfg.maxTimeout * Unit)
        /\ effect.op \in {"exec", "task"} /\ request.timeout \in 1..cfg.maxTimeout
              => effect.limit = request.timeout * Unit

\* A file is stored below the upload directory, wherever the slashes of a
\* request id lead; no other upload is refused for its path, if the upload
\* directory is not the root or the working directory itself.
UploadRight ==
    /\ effect.op = "saved" =>
          IsStrictPrefix(Place(Cwd, uploadDir), Place(Cwd, effect.path))
    /\ effect.op = "outside" /\ Clean(uploadDir).segs # <<>> =>
          ~IsStrictPrefix(Place(Cwd, uploadDir), Place(Cwd, SavedPath(request)))

\* A request for more than max_timeout gets max_timeout.
\* The code does not satisfy this; the README says where it departs.
LongTimeoutCapped ==
    effect.op = "exec" /\ request.timeout > cfg.maxTimeout =>
        effect.limit = Nanoseconds(cfg.maxTimeout)
=============================================================================
