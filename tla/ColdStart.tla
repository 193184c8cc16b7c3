----------------------------- MODULE ColdStart -----------------------------
(***************************************************************************)
(* The cold start of a Lambda container: _perform_cold_start() loads the   *)
(* environment secret and the LAMBDA_TASKS_SECRET_* references into        *)
(* os.environ and sets up Django, on the first invocation and again on     *)
(* every later one until it has succeeded once.  An exception fails the    *)
(* invocation only: the container, with its os.environ and its module      *)
(* globals, serves the next one.                                           *)
(***************************************************************************)
EXTENDS Integers, FiniteSets

CONSTANTS
    Names,          \* environment variables of interest
    Secrets,        \* (arn, version id) pairs
    MaxInvocations  \* bound: invocations of the container

ASSUME ColdStartAssumption == MaxInvocations \in Nat

VARIABLES
    config,      \* how the function is deployed; never changes
    environ,     \* who set each variable of os.environ
    refs,        \* names with a LAMBDA_TASKS_SECRET_ variable in os.environ
    envLoaded,   \* environment_loader._loaded
    secLoaded,   \* secret_loader._loaded
    cache,       \* secret_loader._secret_cache
    django,      \* the app registry: "new", "ready", or "broken" by a failed setup
    done,        \* _cold_start_done
    handlers,    \* boot handlers attached to the lambda_tasks logger
    pc,
    pending,     \* references the loop has not resolved yet
    conflicts,   \* the names of the ValueError that was raised last
    invocations

loaderVars == <<environ, refs, envLoaded, secLoaded, cache>>
vars == <<config, loaderVars, django, done, handlers, pc, pending, conflicts,
          invocations>>

\* direct: variables of the function itself.  references: names the function gives
\* a LAMBDA_TASKS_SECRET_ variable into the secret secretOf, malformed or naming a
\* missing json key some of them.  garbled: secrets that are no JSON.  envSecret: the
\* function names an environment secret, which holds envKeys and reference variables
\* for envRefs, if it is valid.
Configs ==
    {c \in [direct : SUBSET Names, references : SUBSET Names, malformed : SUBSET Names,
            missingKey : SUBSET Names, secretOf : [Names -> Secrets],
            garbled : SUBSET Secrets, envSecret : BOOLEAN, envValid : BOOLEAN,
            envKeys : SUBSET Names, envRefs : SUBSET Names, memoryValid : BOOLEAN, settings : BOOLEAN] :
        /\ ~c.envSecret => c.envValid /\ c.envKeys = {} /\ c.envRefs = {}
        /\ c.malformed \cup c.missingKey \subseteq c.references \cup c.envRefs
        /\ c.malformed \cap c.missingKey = {}
        /\ c.garbled \subseteq {c.secretOf[n] : n \in c.references \cup c.envRefs}}

PCs == {"idle", "memory", "environment", "scan", "resolve", "setup", "import", "serving"}
Loading == {"environment", "scan", "resolve"}

TypeOK ==
    /\ config \in Configs
    /\ environ \in [Names -> {"unset", "direct", "environment", "secret"}]
    /\ refs \subseteq Names
    /\ envLoaded \in BOOLEAN /\ secLoaded \in BOOLEAN /\ done \in BOOLEAN
    /\ cache \subseteq Secrets
    /\ django \in {"new", "ready", "broken"}
    /\ handlers \in Nat
    /\ pc \in PCs
    /\ pending \subseteq Names
    /\ conflicts \subseteq Names
    /\ invocations \in 0..MaxInvocations

Init ==
    /\ config \in Configs
    /\ environ = [n \in Names |-> IF n \in config.direct THEN "direct" ELSE "unset"]
    /\ refs = config.references
    /\ envLoaded = FALSE /\ secLoaded = FALSE /\ done = FALSE
    /\ cache = {}
    /\ django = "new"
    /\ handlers = 0
    /\ pc = "idle"
    /\ pending = {} /\ conflicts = {}
    /\ invocations = 0

\* mutant: nothing detaches the boot handler when a loader raises
RaiseAttached ==
    /\ pc' = "idle"
    /\ pending' = {}
    /\ UNCHANGED handlers
\* mutant: the boot handler is detached on every exception
RaiseDetached ==
    /\ pc' = "idle"
    /\ pending' = {}
    /\ handlers' = handlers - 1
\* An exception leaves _perform_cold_start(): the finally clause around the two
\* loaders detaches the boot handler, and the invocation fails.
Raise ==
    /\ pc' = "idle"
    /\ handlers' = IF pc \in Loading THEN handlers - 1 ELSE handlers
    /\ pending' = {}

\* handler() is invoked: up to and including addHandler
Invoke ==
    /\ pc = "idle"
    /\ invocations < MaxInvocations
    /\ invocations' = invocations + 1
    /\ \/ done /\ pc' = "import" /\ UNCHANGED handlers
       \/ ~done /\ pc' = "memory" /\ handlers' = handlers + 1
    /\ UNCHANGED <<config, loaderVars, django, done, pending, conflicts>>

\* the memory size is no integer, or above the hard limit: outside the try
SetMemoryLimit ==
    /\ pc = "memory"
    /\ \/ config.memoryValid /\ pc' = "environment" /\ UNCHANGED <<handlers, pending>>
       \/ ~config.memoryValid /\ Raise
    /\ UNCHANGED <<config, loaderVars, django, done, conflicts, invocations>>

(* resolve_environment() *)
SkipEnvironment ==
    /\ pc = "environment"
    /\ ~config.envSecret \/ envLoaded
    /\ pc' = "scan"
    /\ UNCHANGED <<config, loaderVars, django, done, handlers, pending, conflicts, invocations>>

SetEnvironment(keys, references) ==
    /\ environ' = [n \in Names |-> IF n \in keys THEN "environment" ELSE environ[n]]
    /\ refs' = refs \cup references

LoadEnvironment ==
    /\ pc = "environment"
    /\ config.envSecret /\ ~envLoaded /\ config.envValid
    /\ SetEnvironment(config.envKeys, config.envRefs)
    /\ envLoaded' = TRUE
    /\ pc' = "scan"
    /\ UNCHANGED <<config, secLoaded, cache, django, done, handlers, pending, conflicts, invocations>>

\* the fetch fails, or the reference or the content is invalid: nothing is written
EnvironmentRaises ==
    /\ pc = "environment"
    /\ config.envSecret /\ ~envLoaded
    /\ Raise
    /\ UNCHANGED <<config, loaderVars, django, done, conflicts, invocations>>

(* resolve_secrets_into_env() *)
\* mutant: the check for variables that are already set is missing
NoConflicts == {}
Conflicts == {n \in refs : environ[n] # "unset"}

\* already loaded, or no references (_loaded is not set then)
SkipSecrets ==
    /\ pc = "scan"
    /\ secLoaded \/ refs = {}
    /\ pc' = "setup"
    /\ handlers' = handlers - 1
    /\ UNCHANGED <<config, loaderVars, django, done, pending, conflicts, invocations>>

ScanRaises ==
    /\ pc = "scan"
    /\ ~secLoaded
    /\ \/ refs \cap config.malformed # {} /\ UNCHANGED conflicts
       \/ refs \cap config.malformed = {} /\ Conflicts # {} /\ conflicts' = Conflicts
    /\ Raise
    /\ UNCHANGED <<config, loaderVars, django, done, invocations>>

\* mutant: _loaded is set before the references are resolved
ScanMarksLoaded ==
    /\ pc = "scan"
    /\ ~secLoaded /\ refs # {}
    /\ refs \cap config.malformed = {}
    /\ Conflicts = {}
    /\ pending' = refs
    /\ secLoaded' = TRUE
    /\ pc' = "resolve"
    /\ UNCHANGED <<config, environ, refs, envLoaded, cache, django, done, handlers, conflicts, invocations>>
ScanReferences ==
    /\ pc = "scan"
    /\ ~secLoaded /\ refs # {}
    /\ refs \cap config.malformed = {}
    /\ Conflicts = {}
    /\ pending' = refs
    /\ pc' = "resolve"
    /\ UNCHANGED <<config, loaderVars, django, done, handlers, conflicts, invocations>>

\* _fetch_secret: no API call for a secret version that is in the cache
FetchSecret(s) ==
    /\ s \notin config.garbled
    /\ cache' = cache \cup {s}

ResolveSecret(n) ==
    /\ pc = "resolve"
    /\ n \in pending
    /\ n \notin config.missingKey
    /\ FetchSecret(config.secretOf[n])
    /\ environ' = [environ EXCEPT ![n] = "secret"]
    /\ pending' = pending \ {n}
    /\ UNCHANGED <<config, refs, envLoaded, secLoaded, django, done, handlers, pc, conflicts,
                   invocations>>

\* the API call fails
FetchRaises(n) ==
    /\ pc = "resolve"
    /\ n \in pending
    /\ config.secretOf[n] \notin cache
    /\ Raise
    /\ UNCHANGED <<config, loaderVars, django, done, conflicts, invocations>>

\* The secret arrives and json.loads() fails: it is not cached, so that the next
\* attempt fetches it again.
DecodeRaises(n) ==
    /\ pc = "resolve"
    /\ n \in pending
    /\ config.secretOf[n] \in config.garbled
    /\ Raise
    /\ UNCHANGED <<config, loaderVars, django, done, conflicts, invocations>>

\* secret[ref.json_key] raises KeyError, after the secret was cached
MissingKeyRaises(n) ==
    /\ pc = "resolve"
    /\ n \in pending
    /\ n \in config.missingKey
    /\ FetchSecret(config.secretOf[n])
    /\ Raise
    /\ UNCHANGED <<config, environ, refs, envLoaded, secLoaded, django, done, conflicts,
                   invocations>>

SecretsLoaded ==
    /\ pc = "resolve"
    /\ pending = {}
    /\ secLoaded' = TRUE
    /\ pc' = "setup"
    /\ handlers' = handlers - 1
    /\ UNCHANGED <<config, environ, refs, envLoaded, cache, django, done, pending, conflicts, invocations>>

(* Django, whose app registry refuses a second attempt after one that failed in
   apps.populate(), though not after an error in the settings *)
SetupRaises ==
    /\ pc = "setup"
    /\ config.settings /\ django # "ready"
    /\ django' \in {django, "broken"}
    /\ Raise
    /\ UNCHANGED <<config, loaderVars, done, conflicts, invocations>>

Setup ==
    /\ pc = "setup"
    /\ config.settings => django # "broken"
    /\ django' = IF config.settings THEN "ready" ELSE django
    /\ done' = TRUE
    /\ pc' = "import"
    /\ UNCHANGED <<config, loaderVars, handlers, pending, conflicts, invocations>>

\* from lambda_tasks.models import ...: AppRegistryNotReady without Django
ImportModels ==
    /\ pc = "import"
    /\ pc' = IF django = "ready" THEN "serving" ELSE "idle"
    /\ UNCHANGED <<config, loaderVars, django, done, handlers, pending, conflicts, invocations>>

\* the records are processed and the response is returned
Return ==
    /\ pc = "serving"
    /\ pc' = "idle"
    /\ UNCHANGED <<config, loaderVars, django, done, handlers, pending, conflicts, invocations>>

\* No further invocation reaches the container.
Retired ==
    /\ pc = "idle"
    /\ invocations = MaxInvocations
    /\ UNCHANGED vars

Next ==
    \/ Invoke \/ SetMemoryLimit
    \/ SkipEnvironment \/ LoadEnvironment \/ EnvironmentRaises
    \/ SkipSecrets \/ ScanRaises \/ ScanReferences \/ SecretsLoaded
    \/ \E n \in Names : ResolveSecret(n) \/ FetchRaises(n) \/ DecodeRaises(n) \/ MissingKeyRaises(n)
    \/ SetupRaises \/ Setup \/ ImportModels \/ Return \/ Retired

Spec == Init /\ [][Next]_vars

(***************************************************************************)
(* Safety.                                                                 *)
(***************************************************************************)
\* Records are processed only in a container whose cold start went through, on
\* whatever attempt: Django is ready, every reference was resolved, and every key of
\* the environment secret has the value of that secret.
ServingIsConfigured ==
    pc = "serving" =>
        /\ django = "ready"
        /\ \A n \in refs : environ[n] = "secret"
        /\ \A n \in config.envKeys : environ[n] = "environment"
        /\ config.envRefs \subseteq refs

\* A resolved reference never replaces the value of a variable that was already set,
\* by the deployment or by the environment secret.
SecretStep == \A n \in Names :
    environ[n] \in {"direct", "environment"} => environ'[n] # "secret"
SecretsNeverOverride == [][SecretStep]_vars

\* While the memory limit can be set, the boot handler is attached during the
\* loaders only, however often they fail.
BootHandlerConfined ==
    config.memoryValid => handlers = (IF pc \in Loading \cup {"memory"} THEN 1 ELSE 0)

(***************************************************************************)
(* What the documentation says.                                            *)
(***************************************************************************)
\* secret_loader: "calling it multiple times is safe"; the ValueError says the
\* variables "are set both directly and via LAMBDA_TASKS_SECRET_*".
ConflictsAreConfigured ==
    \A n \in conflicts : n \in config.direct \cup config.envKeys
=============================================================================
