------------------------------ MODULE KeyFiles ------------------------------
(***************************************************************************)
(* The signing key of the log on disk (internal/logger/signer.go): what    *)
(* EnsureKeyPair and LoadSigner do when the agent starts, step by step, so *)
(* that a failing write or a crash can come in between, and what           *)
(* --generate-keys does between two starts.                                *)
(*                                                                         *)
(* os.WriteFile truncates the file and then writes it.                     *)
(***************************************************************************)
CONSTANTS
    Key,    \* key pairs, or secrets; public and private half have one name
    None,   \* no such file; no signer
    Empty,  \* a file that was created or truncated, and not written
    Torn    \* a file that was written in part

ASSUME DistinctAssumption ==
    /\ {None, Empty, Torn} \cap Key = {}
    /\ None # Empty /\ None # Torn /\ Empty # Torn

VARIABLES
    algo,       \* log.signature_algo
    generates,  \* log.auto_generate_keys
    priv, pub,  \* the files sign_key_file and verify_pub_file
    step,       \* where the start is
    fresh,      \* the key that EnsureKeyPair is writing
    signer,     \* what the running agent signs with
    signedWith, \* history: what entries were signed with since --generate-keys
    interrupted \* history: the last --generate-keys did not finish

vars == <<algo, generates, priv, pub, step, fresh, signer, signedWith, interrupted>>

File == Key \cup {None, Empty, Torn}

Init ==
    /\ algo \in {"ed25519", "hmac-sha256"}
    /\ generates \in BOOLEAN
    /\ priv = None /\ pub = None
    /\ step = "stat" /\ fresh = None
    /\ signer = None /\ signedWith = {} /\ interrupted = FALSE

\* Randomness does not repeat itself.
Unused == Key \ ({priv, pub, fresh} \cup signedWith)

\* A seeded fault: the pair is made again when the public key is missing.
MissingEither == priv = None \/ (algo = "ed25519" /\ pub = None)

\* os.Stat: a file that is there is not looked into.
Missing == priv = None

\* EnsureKeyPair up to the creation of the private key file, if main calls it.
Stat ==
    /\ step = "stat"
    /\ IF generates /\ Missing
       THEN /\ fresh' \in Unused
            /\ priv' = Empty
            /\ step' = "private"
       ELSE step' = "load" /\ UNCHANGED <<priv, fresh>>
    /\ UNCHANGED <<algo, generates, pub, signer, signedWith, interrupted>>

WritePrivate ==
    /\ step = "private"
    /\ priv' = fresh
    /\ step' = IF algo = "ed25519" THEN "public" ELSE "load"
    /\ UNCHANGED <<algo, generates, pub, fresh, signer, signedWith, interrupted>>

OpenPublic ==
    /\ step = "public"
    /\ pub' = Empty
    /\ step' = "opened"
    /\ UNCHANGED <<algo, generates, priv, fresh, signer, signedWith, interrupted>>

WritePublic ==
    /\ step = "opened"
    /\ pub' = fresh
    /\ step' = "load"
    /\ UNCHANGED <<algo, generates, priv, fresh, signer, signedWith, interrupted>>

\* A write fails and may leave a part; the start ends with an error.
WriteFails ==
    /\ \/ step = "private" /\ priv' \in {Empty, Torn} /\ UNCHANGED pub
       \/ step = "public" /\ UNCHANGED <<priv, pub>>
       \/ step = "opened" /\ pub' \in {Empty, Torn} /\ UNCHANGED priv
    /\ step' = "failed"
    /\ UNCHANGED <<algo, generates, fresh, signer, signedWith, interrupted>>

\* LoadSigner: a private key must be readable PEM, a secret must not be empty.
Loads == IF algo = "ed25519" THEN priv \in Key ELSE priv \notin {None, Empty}

\* Without a signer, the logger falls back to unsigned lines on stderr.
Load ==
    /\ step = "load"
    /\ signer' = (IF Loads THEN priv ELSE None)
    /\ signedWith' = signedWith \cup (IF Loads THEN {priv} ELSE {})
    /\ step' = "done"
    /\ UNCHANGED <<algo, generates, priv, pub, fresh, interrupted>>

\* The process is gone at any moment, or for an error.
Crash ==
    /\ step # "down"
    /\ step' = "down" /\ fresh' = None /\ signer' = None
    /\ UNCHANGED <<algo, generates, priv, pub, signedWith, interrupted>>

\* Each start reads the configuration, in which the switch may have changed.
Restart ==
    /\ step = "down"
    /\ step' = "stat"
    /\ generates' \in BOOLEAN
    /\ UNCHANGED <<algo, priv, pub, fresh, signer, signedWith, interrupted>>

\* GenerateKeyPair over the configured files: both are replaced, the private
\* one first; it may be interrupted or fail before or in either of its writes.
Generate ==
    /\ step = "down"
    /\ \E k \in Unused :
          \/ priv' = k /\ pub' = k /\ interrupted' = FALSE
          \/ priv' = k /\ pub' \in {pub, Empty, Torn} /\ interrupted' = TRUE
          \/ priv' \in {Empty, Torn} /\ UNCHANGED pub /\ interrupted' = TRUE
    /\ signedWith' = {}
    /\ UNCHANGED <<algo, generates, step, fresh, signer>>

Next ==
    \/ Stat \/ WritePrivate \/ OpenPublic \/ WritePublic \/ WriteFails \/ Load
    \/ Crash \/ Restart \/ Generate

Spec == Init /\ [][Next]_vars

-----------------------------------------------------------------------------
\* The variables keep their types.
TypeOK ==
    /\ algo \in {"ed25519", "hmac-sha256"} /\ generates \in BOOLEAN
    /\ priv \in File /\ pub \in File
    /\ step \in {"stat", "private", "public", "opened", "load", "done", "failed", "down"}
    /\ fresh \in Key \cup {None}
    /\ signer \in Key \cup {None, Torn}
    /\ signedWith \subseteq Key \cup {Torn}
    /\ interrupted \in BOOLEAN

\* "Regenerating it would break verification of previously signed entries":
\* through any crashes, failing writes and restarts, one key signs all entries,
\* and a public key that is whole is the one that verifies them.
KeysAgree ==
    ~interrupted => \A k \in signedWith :
        signedWith = {k} /\ (pub \in Key /\ algo = "ed25519" => pub = k)

\* After a start with auto_generate_keys, what is signed can be verified.
\* The code does not satisfy this; the README says where it departs.
PublicKeyThere == step = "done" /\ generates /\ algo = "ed25519" /\ signer \in Key => pub \in Key

\* A start with auto_generate_keys ends with a signer.
\* The code does not satisfy this; the README says where it departs.
StartsSigned == step = "done" /\ generates => signer # None

-----------------------------------------------------------------------------
(* The inductive invariant *)

\* Entries are signed with what the private file holds, which never goes back
\* to nothing; a start that writes found neither file, so that a whole public
\* key is there only when its pair is complete.
IndInv ==
    /\ TypeOK
    /\ signedWith \subseteq {priv} \ {None, Empty}
    /\ priv = None => pub = None
    /\ step \in {"private", "public", "opened"} => fresh \in Key
    /\ step = "private" => priv = Empty /\ pub = None
    /\ step \in {"public", "opened"} => priv = fresh /\ pub \notin Key
    /\ ~interrupted /\ pub \in Key => pub = priv
=============================================================================
