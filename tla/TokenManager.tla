---------------------------- MODULE TokenManager ----------------------------
(***************************************************************************)
(* The token manager (internal/auth/auth.go) and its use by the gateway.   *)
(*                                                                         *)
(* The valid token is kept twice: in the token file and in a cache.  One   *)
(* goroutine (rotationLoop) replaces both, the file first.  Requests check *)
(* a presented token against the cache, then against the file, and copy    *)
(* the file's token into the cache when it matches.  Nothing orders these  *)
(* steps but the lock around each access to the cache.  Operators, deploy  *)
(* scripts and other processes may write or remove the file.               *)
(***************************************************************************)
EXTENDS FiniteSets

CONSTANTS
    Token,         \* the tokens generateToken will hand out, each once
    Request,       \* the HTTP requests being served at once (a BOUND)
    None,          \* the token file does not exist
    Empty,         \* an empty file, and the empty cache of a new process
    Outsiders,     \* whether others write, truncate or remove the file
    DiskMayFail,   \* whether reading the token file, writing or renaming
                   \* the temp file may fail
    ChmodMayFail   \* whether the chmod after the rename may fail

ASSUME TokenConstants ==
    /\ None \notin Token /\ Empty \notin Token /\ None # Empty
    /\ {Outsiders, DiskMayFail, ChmodMayFail} \subseteq BOOLEAN

VARIABLES
    mode,      \* the process: "down", "init" (InitToken), "served" (accepting
               \* requests, banner to come), "printing" (the banner) or "up"
    disk,      \* the content of the token file
    cache,     \* tm.token
    rot,       \* where RotateToken is; "idle": in the select of rotationLoop
    fresh,     \* the token RotateToken generated
    manual,    \* tm.manualRotate holds a request
    pc,        \* where a request is
    token,     \* the token it presents
    read,      \* the token it read from the file
    issued,    \* history: the tokens generated so far
    retired,   \* history: the tokens a completed rotation replaced
    late,      \* history: requests whose token was retired when they came
    steady,    \* history: requests whose token has been in the file all along,
               \* and could be read there
    waiting,   \* history: a manual rotation was asked for, none begun since
    crossed,   \* history: a rotation completed between a request's reading
               \* another token from the file and its refresh of the cache
    astray,    \* history: the file was changed since the last rename other
               \* than by a rotation that completed
    banner,    \* the token main has taken for the banner it is printing
    behind,    \* history: a rotation replaced the token of the banner while
               \* that was being printed, and none was printed since
    printed    \* history: the token printed last

vars == <<mode, disk, cache, rot, fresh, manual, pc, token, read, issued,
          retired, late, steady, waiting, crossed, astray, banner, behind,
          printed>>

requestVars == <<pc, token, read, late>>
rotateVars == <<rot, fresh, issued>>
bannerVars == <<banner, behind>>
historyVars == <<retired, crossed>>

Serving == mode \in {"served", "printing", "up"}

-----------------------------------------------------------------------------
\* The first start: there may be a token file from an earlier installation.
Init ==
    /\ mode = "down"
    /\ \E t \in Token : /\ disk \in {None, Empty, t}
                        /\ issued = {disk} \cap Token
    /\ cache = Empty /\ fresh = Empty /\ printed = Empty
    /\ rot = "idle" /\ manual = FALSE /\ waiting = FALSE
    /\ pc = [r \in Request |-> "idle"]
    /\ token = [r \in Request |-> Empty]
    /\ read = [r \in Request |-> Empty]
    /\ retired = {} /\ late = {} /\ steady = {}
    /\ banner = Empty /\ behind = FALSE
    /\ crossed = FALSE /\ astray = FALSE

\* InitToken: load the token file, or rotate when there is nothing in it.
InitToken ==
    /\ mode = "down"
    /\ IF disk \in Token
         THEN mode' = "served" /\ cache' = disk /\ rot' = "idle"
         ELSE mode' = "init" /\ rot' = "generate" /\ UNCHANGED cache
    /\ astray' = FALSE
    /\ UNCHANGED <<disk, fresh, manual, requestVars, issued, historyVars,
                   steady, waiting, bannerVars, printed>>

\* main prints the current token after the services have been started: it
\* evaluates CurrentToken(), and then prints what that was.
ReadBanner ==
    /\ mode = "served"
    /\ mode' = "printing"
    /\ banner' = cache
    /\ UNCHANGED <<disk, cache, rotateVars, manual, requestVars, historyVars,
                   steady, waiting, astray, behind, printed>>

PrintBanner ==
    /\ mode = "printing"
    /\ mode' = "up"
    /\ printed' = banner
    /\ banner' = Empty
    /\ UNCHANGED <<disk, cache, rotateVars, manual, requestVars, historyVars,
                   steady, waiting, astray, behind>>

Crash ==
    /\ mode # "down"
    /\ mode' = "down"
    /\ cache' = Empty /\ rot' = "idle" /\ fresh' = Empty
    /\ manual' = FALSE /\ waiting' = FALSE
    /\ pc' = [r \in Request |-> "idle"]
    /\ token' = [r \in Request |-> Empty] /\ read' = [r \in Request |-> Empty]
    /\ steady' = {} /\ late' = {}
    /\ banner' = Empty /\ behind' = FALSE
    /\ UNCHANGED <<disk, issued, historyVars, astray, printed>>

-----------------------------------------------------------------------------
(* rotationLoop and RotateToken *)

TakeTimer ==
    /\ Serving /\ rot = "idle"
    /\ rot' = "generate" /\ waiting' = FALSE
    /\ UNCHANGED <<mode, disk, cache, fresh, manual, requestVars, issued,
                   historyVars, steady, astray, bannerVars, printed>>

TakeManual ==
    /\ Serving /\ rot = "idle"
    /\ manual
    /\ manual' = FALSE
    /\ rot' = "generate" /\ waiting' = FALSE
    /\ UNCHANGED <<mode, disk, cache, fresh, requestVars, issued,
                   historyVars, steady, astray, bannerVars, printed>>

\* A seeded fault: the token is written to the file itself.
DiskDuringWriteInPlace == Empty

\* Writing the temp file leaves the token file alone.
DiskDuringWrite == disk

\* The requests whose token has been in the file all along.
StillSteady(content) == {r \in steady : token[r] = content}

WriteTemp ==
    /\ rot = "generate"
    /\ \E t \in Token \ issued :
        /\ fresh' = t
        /\ issued' = issued \cup {t}
    /\ rot' = "written"
    /\ disk' = DiskDuringWrite
    /\ UNCHANGED <<mode, cache, manual, requestVars, historyVars, steady,
                   waiting, astray, bannerVars, printed>>

Rename ==
    /\ rot = "written"
    /\ rot' = "renamed"
    /\ disk' = fresh
    /\ steady' = StillSteady(fresh)
    /\ astray' = FALSE
    /\ UNCHANGED <<mode, cache, fresh, manual, requestVars, issued,
                   historyVars, waiting, bannerVars, printed>>

Chmod ==
    /\ rot = "renamed"
    /\ rot' = "store"
    /\ UNCHANGED <<mode, disk, cache, fresh, manual, requestVars, issued,
                   historyVars, steady, waiting, astray, bannerVars, printed>>

\* A seeded fault: the cache keeps the token it has.
StoredOld == cache

Stored == fresh

\* The requests that matched the file and are about to refresh the cache.
Refreshing == {r \in Request : pc[r] = "matched"}

\* setToken; InitToken returns then, rotationLoop's callback is still to come.
SetToken ==
    /\ rot = "store"
    /\ cache' = Stored
    /\ retired' = issued \ {fresh, disk}
    /\ crossed' = (crossed \/ \E r \in Refreshing : read[r] # fresh)
    /\ behind' = (behind \/ (mode = "printing" /\ banner # fresh))
    /\ IF mode = "init" THEN mode' = "served" /\ rot' = "idle"
                        ELSE mode' = mode /\ rot' = "print"
    /\ UNCHANGED <<disk, fresh, manual, requestVars, issued, steady, waiting,
                   astray, banner, printed>>

\* OnRotate.
PrintToken ==
    /\ rot = "print"
    /\ rot' = "idle"
    /\ printed' = fresh
    /\ behind' = (behind /\ mode # "up")
    /\ fresh' = Empty
    /\ UNCHANGED <<mode, disk, cache, manual, requestVars, issued,
                   historyVars, steady, waiting, astray, banner>>

\* An error ends RotateToken: rotationLoop logs it, InitToken's caller exits.
RotateFails ==
    /\ \/ DiskMayFail /\ rot \in {"generate", "written"} /\ UNCHANGED astray
       \/ ChmodMayFail /\ rot = "renamed" /\ astray' = TRUE
    /\ rot' = "idle"
    /\ fresh' = Empty
    /\ mode' = IF mode = "init" THEN "down" ELSE mode
    /\ UNCHANGED <<disk, cache, manual, requestVars, issued,
                   historyVars, steady, waiting, bannerVars, printed>>

-----------------------------------------------------------------------------
(* Requests: authMiddleware, VerifyToken, handleRotate *)

\* A client presents a token it once got hold of.
Arrive(r) ==
    /\ Serving
    /\ pc[r] = "idle"
    /\ \E t \in issued :
        /\ token' = [token EXCEPT ![r] = t]
        /\ late' = IF t \in retired THEN late \cup {r} ELSE late \ {r}
        /\ steady' = IF t = disk THEN steady \cup {r} ELSE steady \ {r}
    /\ pc' = [pc EXCEPT ![r] = "compare"]
    /\ UNCHANGED <<mode, disk, cache, rotateVars, manual, read, historyVars,
                   waiting, astray, bannerVars, printed>>

\* A seeded fault: no second look at the file.
OnCacheMissDenied == "denied"

OnCacheMiss == "reading"

CompareCache(r) ==
    /\ pc[r] = "compare"
    /\ pc' = [pc EXCEPT ![r] = IF token[r] = cache THEN "granted" ELSE OnCacheMiss]
    /\ UNCHANGED <<mode, disk, cache, rotateVars, manual, token, read, late,
                   historyVars, steady, waiting, astray, bannerVars, printed>>

ReadFile(r) ==
    /\ pc[r] = "reading"
    /\ read' = [read EXCEPT ![r] = disk]
    /\ pc' = [pc EXCEPT ![r] = IF token[r] = disk THEN "matched" ELSE "denied"]
    /\ UNCHANGED <<mode, disk, cache, rotateVars, manual, token, late,
                   historyVars, steady, waiting, astray, bannerVars, printed>>

\* Any error of os.ReadFile denies, also one that says nothing of the content.
ReadFileFails(r) ==
    /\ DiskMayFail
    /\ pc[r] = "reading"
    /\ pc' = [pc EXCEPT ![r] = "denied"]
    /\ steady' = steady \ {r}
    /\ UNCHANGED <<mode, disk, cache, rotateVars, manual, token, read, late,
                   historyVars, waiting, astray, bannerVars, printed>>

Refreshed(r) == read[r]

RefreshCache(r) ==
    /\ pc[r] = "matched"
    /\ cache' = Refreshed(r)
    /\ pc' = [pc EXCEPT ![r] = "granted"]
    /\ UNCHANGED <<mode, disk, rotateVars, manual, token, read, late,
                   historyVars, steady, waiting, astray, bannerVars, printed>>

\* A seeded fault: a channel without a buffer. The request is dropped unless
\* the loop is just waiting for it.
TriggeredUnbuffered == rot = "idle"

\* The channel has one place; a request that finds it taken is dropped.
Triggered == TRUE

\* handleRotate: TriggerManualRotation.
Trigger(r) ==
    /\ pc[r] = "granted"
    /\ pc' = [pc EXCEPT ![r] = "triggered"]
    /\ manual' = (manual \/ Triggered)
    /\ waiting' = TRUE
    /\ UNCHANGED <<mode, disk, cache, rotateVars, token, read, late,
                   historyVars, steady, astray, bannerVars, printed>>

\* The answer; handleRotate gives it 100 ms after the trigger, whatever
\* rotationLoop has done until then.
Answer(r) ==
    /\ pc[r] \in {"granted", "denied", "triggered"}
    /\ pc' = [pc EXCEPT ![r] = "idle"]
    /\ token' = [token EXCEPT ![r] = Empty]
    /\ read' = [read EXCEPT ![r] = Empty]
    /\ late' = late \ {r} /\ steady' = steady \ {r}
    /\ UNCHANGED <<mode, disk, cache, rotateVars, manual, historyVars, waiting,
                   astray, bannerVars, printed>>

-----------------------------------------------------------------------------
(* Others at the token file: remove it, truncate it, replace it *)

Outside ==
    /\ Outsiders
    /\ \/ disk' \in {None, Empty} /\ UNCHANGED issued
       \/ \E t \in Token \ issued : disk' = t /\ issued' = issued \cup {t}
    /\ disk' # disk
    /\ steady' = StillSteady(disk')
    /\ astray' = TRUE
    /\ UNCHANGED <<mode, cache, rot, fresh, manual, requestVars, historyVars,
                   waiting, bannerVars, printed>>

-----------------------------------------------------------------------------
RotateStep == WriteTemp \/ Rename \/ Chmod \/ SetToken \/ PrintToken \/ RotateFails
VerifyStep(r) ==
    CompareCache(r) \/ ReadFile(r) \/ ReadFileFails(r) \/ RefreshCache(r)

Next ==
    \/ InitToken \/ ReadBanner \/ PrintBanner \/ Crash
    \/ TakeTimer \/ TakeManual \/ RotateStep
    \/ \E r \in Request : Arrive(r) \/ VerifyStep(r) \/ Trigger(r) \/ Answer(r)
    \/ Outside

SafeSpec == Init /\ [][Next]_vars

\* rotationLoop is a goroutine, its file operations return, and its select
\* picks a ready case. Nothing is assumed of clients, timers or operators.
Fairness == WF_vars(RotateStep) /\ WF_vars(TakeManual)

Spec == SafeSpec /\ Fairness

-----------------------------------------------------------------------------
(* Properties *)

\* The variables keep their types.
TypeOK ==
    /\ mode \in {"down", "init", "served", "printing", "up"}
    /\ disk \in Token \cup {None, Empty}
    /\ cache \in Token \cup {Empty}
    /\ rot \in {"idle", "generate", "written", "renamed", "store", "print"}
    /\ fresh \in Token \cup {Empty}
    /\ pc \in [Request -> {"idle", "compare", "reading", "matched", "granted",
                           "denied", "triggered"}]
    /\ token \in [Request -> Token \cup {Empty}]
    /\ read \in [Request -> Token \cup {None, Empty}]
    /\ issued \subseteq Token /\ retired \subseteq Token
    /\ late \subseteq Request /\ steady \subseteq Request
    /\ manual \in BOOLEAN /\ waiting \in BOOLEAN
    /\ crossed \in BOOLEAN /\ astray \in BOOLEAN
    /\ {banner, printed} \subseteq Token \cup {Empty}
    /\ behind \in BOOLEAN

\* While the agent serves, and nobody else touched the file since the last
\* rotation, the file holds a whole token at every moment: a client that
\* fetches it never gets nothing, whatever failed or crashed before.
FileWhole == Serving /\ ~astray => disk \in Token

\* A request whose token was the content of the file from its arrival on is
\* not denied unless the file cannot be read, whatever the cache holds and
\* whoever rotates meanwhile.
FileTokenWelcome == \A r \in Request : pc[r] = "denied" => r \notin steady

\* Unless a rotation crossed a request between its reading the file and its
\* refresh of the cache, a token replaced before a request came is rejected.
RotationRevokes ==
    ~crossed => \A r \in Request : pc[r] \in {"granted", "triggered"} => r \notin late

\* Between rotations the token printed last is the one in the file, unless
\* the file was changed otherwise, or a rotation crossed a request or replaced
\* the token of the banner between main's reading and printing it; the next
\* rotation makes up for the latter.
PrintedValid ==
    mode = "up" /\ rot = "idle" /\ ~astray /\ ~crossed /\ ~behind => printed = disk

\* Every manual request is followed by a rotation that begins after it,
\* also when the place in the channel was taken.
TriggerHonoured == waiting ~> ~waiting

\* "The old token is void at once" after a rotation.
\* The code does not satisfy this; the README says where it departs.
OldTokenRejected ==
    \A r \in Request : pc[r] \in {"granted", "triggered"} => r \notin late

\* "The new token is printed here after each rotation": whatever was printed
\* since, it was not an older token.
\* The code does not satisfy this; the README says where it departs.
PrintedLastValid ==
    mode = "up" /\ rot = "idle" /\ ~astray /\ ~crossed => printed = disk

\* Revocation "by removing the file": a request is not granted its token by a
\* comparison made while the file is gone.
\* The code does not satisfy this; the README says where it departs.
DeletionRevokes ==
    [][\A r \in Request :
        disk = None => ~(pc[r] = "compare" /\ pc'[r] = "granted")]_vars

-----------------------------------------------------------------------------
(* Inductive invariant *)

\* Every token that is anywhere was issued, and a request that is about to
\* refresh the cache has read the token it presents.
IssuedInv ==
    /\ fresh \in issued \cup {Empty}
    /\ disk \in issued \cup {None, Empty}
    /\ cache \in issued \cup {Empty}
    /\ retired \subseteq issued
    /\ \A r \in Request :
        /\ pc[r] # "idle" => token[r] \in issued
        /\ pc[r] = "matched" => read[r] = token[r]

\* RotateToken at work on fresh.
Replacing == rot \in {"written", "renamed", "store", "print"}

\* Where a rotation stands tells what is in the file.
RotationInv ==
    /\ Replacing => fresh \in Token
    /\ mode = "init" => rot \in {"generate", "written", "renamed", "store"}
    /\ mode = "down" => rot = "idle"
    /\ rot \in {"renamed", "store", "print"} /\ ~astray => disk = fresh
    /\ FileWhole

\* A steady request has its token in the file, and is not denied.
SteadyInv ==
    /\ ~Serving => \A r \in Request : pc[r] = "idle"
    /\ \A r \in steady : token[r] = disk
    /\ FileTokenWelcome

\* No retired token is in the file, or in the cache or on its way there
\* unless a rotation crossed a request.
RevokeInv ==
    /\ disk \notin retired
    /\ Replacing => fresh \notin retired
    /\ ~crossed =>
        /\ cache \notin retired
        /\ \A r \in Request : pc[r] = "matched" => read[r] \notin retired /\ r \notin late
    /\ \A r \in late : token[r] \in retired
    /\ RotationRevokes

\* The file has the new token and the cache still the old one.
Replaced == rot \in {"renamed", "store"}

\* But for that moment the cache, and what is on its way there, is what the
\* file holds; the banner that is being printed has it, unless it is behind, and
\* once that is out it was printed, or is just to be.
PrintInv ==
    Serving /\ ~astray /\ ~crossed /\ ~Replaced =>
        /\ cache = disk /\ \A r \in Refreshing : read[r] = disk
        /\ mode = "printing" /\ ~behind => banner = disk
        /\ mode = "up" /\ ~behind /\ rot # "print" => printed = disk

IndInv == TypeOK /\ IssuedInv /\ RotationInv /\ SteadyInv /\ RevokeInv /\ PrintInv
=============================================================================
