------------------------------- MODULE Config -------------------------------
(***************************************************************************)
(* The configuration (internal/config/config.go): defaults, overridden by  *)
(* the YAML file, overridden by environment variables, then checked and    *)
(* filled in.  The fields here stand for the kinds there are: numbers with *)
(* and without an environment variable, refused, filled in or taken as     *)
(* they are when they are out of range, and a switch.                      *)
(***************************************************************************)
EXTENDS Integers

CONSTANTS
    Unset,       \* a key that is missing, a variable that is missing or empty
    Unreadable,  \* a variable that strconv.Atoi or parseBool does not accept
    Default      \* the record of DefaultConfig

Field == {"port", "rotationHour", "defaultTimeout", "maxTimeout",
          "maxUploadSize", "maxRunning", "retention", "logEnabled"}

\* The fields that applyEnvOverrides looks at.
Overridable == {"port", "rotationHour", "maxUploadSize", "logEnabled"}

\* The fields that are filled in when they are not positive.
Filled == {"defaultTimeout", "maxTimeout", "maxUploadSize", "maxRunning", "retention"}

\* The fields that are numbers.
Number == Field \ {"logEnabled"}

ASSUME DefaultAssumption ==
    /\ \A f \in Number : Default[f] \in Int
    /\ \A f \in Filled : Default[f] > 0

\* What DefaultConfig leaves when the file has the keys of yaml.
Unmarshal(yaml) ==
    [f \in Field |-> IF yaml[f] = Unset THEN Default[f] ELSE yaml[f]]

\* applyEnvOverrides: a variable that cannot be read is passed over.
ApplyEnv(cfg, env) ==
    [f \in Field |->
        IF f \in Overridable /\ env[f] \notin {Unset, Unreadable}
        THEN env[f] ELSE cfg[f]]

FillIn(cfg) ==
    [f \in Field |-> IF f \in Filled /\ cfg[f] <= 0 THEN Default[f] ELSE cfg[f]]

\* A seeded fault: the environment is applied last.
LoadedEnvLast(yaml, env) == ApplyEnv(FillIn(Unmarshal(yaml)), env)

Loaded(yaml, env) == FillIn(ApplyEnv(Unmarshal(yaml), env))

\* Load fails: the port is the only field that is refused.
LoadFails(yaml, env) == ApplyEnv(Unmarshal(yaml), env).port <= 0
=============================================================================
