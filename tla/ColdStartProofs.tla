-------------------------- MODULE ColdStartProofs --------------------------
(***************************************************************************)
(* Proofs about ColdStart, for every deployment and any number of          *)
(* variables, secrets and failed attempts.                                 *)
(***************************************************************************)
EXTENDS ColdStart, TLAPS

(***************************************************************************)
(* HandlerInv pairs the boot handler with the program counter.             *)
(* EnvironmentInv and SecretInv say what os.environ holds at each stage of *)
(* the loaders: a reference that is still pending has no variable, and a   *)
(* sentinel is set only when everything it stands for is in place.         *)
(***************************************************************************)
HandlerInv ==
    /\ pc \in Loading \cup {"memory"} => handlers >= 1
    /\ BootHandlerConfined

EnvironmentInv ==
    /\ envLoaded =>
          /\ config.envRefs \subseteq refs
          /\ \A n \in config.envKeys : environ[n] = "environment"
    /\ secLoaded \/ done \/ pc \in {"scan", "resolve", "setup", "import", "serving"}
          => envLoaded \/ ~config.envSecret

SecretInv ==
    /\ pc = "resolve" =>
          /\ pending \subseteq refs
          /\ \A n \in refs : environ[n] = (IF n \in pending THEN "unset" ELSE "secret")
    /\ secLoaded \/ done \/ pc \in {"setup", "import", "serving"} =>
          \A n \in refs : environ[n] = "secret"
    /\ pc = "serving" => django = "ready"
    /\ pc \in Loading \cup {"memory", "setup"} => ~done

ColdStartInv == TypeOK /\ HandlerInv /\ EnvironmentInv /\ SecretInv

\* What a deployment is, field by field.
LEMMA ConfigFields ==
    ASSUME NEW c \in Configs
    PROVE  /\ c.secretOf \in [Names -> Secrets]
           /\ c.references \subseteq Names /\ c.envKeys \subseteq Names /\ c.envRefs \subseteq Names
           /\ ~c.envSecret => c.envKeys = {} /\ c.envRefs = {}
BY DEF Configs

\* A fresh process satisfies ColdStartInv.
LEMMA ColdStartBegins == Init => ColdStartInv
<1> USE ColdStartAssumption DEF PCs, Loading, BootHandlerConfined
<1> SUFFICES ASSUME Init PROVE ColdStartInv
  OBVIOUS
<1>1. TypeOK
  <2>1. config \in Configs /\ refs \subseteq Names
    BY ConfigFields DEF Init
  <2>2. environ \in [Names -> {"unset", "direct", "environment", "secret"}]
    BY DEF Init
  <2>3. /\ envLoaded \in BOOLEAN /\ secLoaded \in BOOLEAN /\ done \in BOOLEAN
        /\ cache \subseteq Secrets
        /\ django \in {"new", "ready", "broken"} /\ pc \in PCs
        /\ pending \subseteq Names /\ conflicts \subseteq Names
    BY DEF Init
  <2>4. handlers \in Nat /\ invocations \in 0..MaxInvocations
    BY DEF Init
  <2> QED
    BY <2>1, <2>2, <2>3, <2>4 DEF TypeOK
<1>2. HandlerInv /\ EnvironmentInv /\ SecretInv
  BY DEF Init, HandlerInv, EnvironmentInv, SecretInv
<1> QED
  BY <1>1, <1>2 DEF ColdStartInv

\* Every step of the cold start preserves ColdStartInv.
LEMMA ColdStartContinues == ColdStartInv /\ [Next]_vars => ColdStartInv'
<1> USE ColdStartAssumption DEF PCs, Loading, BootHandlerConfined
<1> SUFFICES ASSUME ColdStartInv, [Next]_vars PROVE ColdStartInv'
  OBVIOUS
<1> USE DEF ColdStartInv, TypeOK, HandlerInv, EnvironmentInv, SecretInv, loaderVars
<1>1. ASSUME Invoke PROVE ColdStartInv'
  BY <1>1 DEF Invoke
<1>2. ASSUME SetMemoryLimit PROVE ColdStartInv'
  BY <1>2 DEF SetMemoryLimit, Raise
<1>3. ASSUME SkipEnvironment PROVE ColdStartInv'
  BY <1>3 DEF SkipEnvironment
<1>4. ASSUME LoadEnvironment PROVE ColdStartInv'
  BY <1>4, ConfigFields DEF LoadEnvironment, SetEnvironment
<1>5. ASSUME EnvironmentRaises PROVE ColdStartInv'
  BY <1>5 DEF EnvironmentRaises, Raise
<1>6. ASSUME SkipSecrets PROVE ColdStartInv'
  BY <1>6 DEF SkipSecrets
<1>7. ASSUME ScanRaises PROVE ColdStartInv'
  BY <1>7 DEF ScanRaises, Raise, Conflicts
<1>8. ASSUME ScanReferences PROVE ColdStartInv'
  BY <1>8 DEF ScanReferences, Conflicts
<1>9. ASSUME SecretsLoaded PROVE ColdStartInv'
  BY <1>9 DEF SecretsLoaded
<1>10. ASSUME NEW n \in Names, ResolveSecret(n) PROVE ColdStartInv'
  <2>1. config.secretOf[n] \in Secrets
    BY ConfigFields
  <2> QED
    BY <1>10, <2>1 DEF ResolveSecret, FetchSecret
<1>11. ASSUME NEW n \in Names, FetchRaises(n) \/ DecodeRaises(n) PROVE ColdStartInv'
  BY <1>11 DEF FetchRaises, DecodeRaises, Raise
<1>12. ASSUME NEW n \in Names, MissingKeyRaises(n) PROVE ColdStartInv'
  <2>1. config.secretOf[n] \in Secrets
    BY ConfigFields
  <2> QED
    BY <1>12, <2>1 DEF MissingKeyRaises, Raise, FetchSecret
<1>13. ASSUME SetupRaises PROVE ColdStartInv'
  BY <1>13 DEF SetupRaises, Raise
<1>14. ASSUME Setup PROVE ColdStartInv'
  BY <1>14 DEF Setup
<1>15. ASSUME ImportModels PROVE ColdStartInv'
  BY <1>15 DEF ImportModels
<1>16. ASSUME Return PROVE ColdStartInv'
  BY <1>16 DEF Return
<1>17. ASSUME Retired PROVE ColdStartInv'
  BY <1>17 DEF Retired, vars
<1>18. CASE UNCHANGED vars
  BY <1>18 DEF vars
<1> HIDE DEF ColdStartInv
<1> QED
  BY <1>1, <1>2, <1>3, <1>4, <1>5, <1>6, <1>7, <1>8, <1>9, <1>10,
     <1>11, <1>12, <1>13, <1>14, <1>15, <1>16, <1>17, <1>18 DEF Next

\* ColdStartInv is an invariant of the container over all its invocations.
THEOREM ColdStarts == Spec => []ColdStartInv
BY ColdStartBegins, ColdStartContinues, PTL DEF Spec

\* Records are processed only after a complete cold start.
THEOREM ServesConfigured == Spec => []ServingIsConfigured
<1>1. ColdStartInv => ServingIsConfigured
  BY ConfigFields DEF ColdStartInv, TypeOK, EnvironmentInv, SecretInv, ServingIsConfigured
<1> QED
  BY <1>1, ColdStarts, PTL

\* The boot handler is gone whenever no loader runs, if the memory limit can be set.
THEOREM BootHandlerIsConfined == Spec => []BootHandlerConfined
<1>1. ColdStartInv => BootHandlerConfined
  BY DEF ColdStartInv, HandlerInv
<1> QED
  BY <1>1, ColdStarts, PTL

\* No step of the cold start resolves a reference into a variable that is set.
LEMMA SecretStepHolds == ColdStartInv /\ [Next]_vars => [SecretStep]_vars
<1> SUFFICES ASSUME ColdStartInv, Next PROVE SecretStep
  OBVIOUS
<1>1. ASSUME NEW n \in Names, ResolveSecret(n) PROVE SecretStep
  <2>1. environ[n] = "unset"
    BY <1>1 DEF ResolveSecret, ColdStartInv, SecretInv
  <2> QED
    BY <1>1, <2>1 DEF ResolveSecret, SecretStep, ColdStartInv, TypeOK
<1>2. ASSUME LoadEnvironment PROVE SecretStep
  BY <1>2 DEF LoadEnvironment, SetEnvironment, SecretStep
<1>3. CASE ~LoadEnvironment /\ \A n \in Names : ~ResolveSecret(n)
  <2>1. UNCHANGED environ
    BY <1>3 DEF Next, Invoke, SetMemoryLimit, SkipEnvironment, EnvironmentRaises,
       SkipSecrets, ScanRaises, ScanReferences, SecretsLoaded, FetchRaises,
       DecodeRaises, MissingKeyRaises, SetupRaises, Setup, ImportModels, Return, Retired, loaderVars, vars
  <2> QED
    BY <2>1 DEF SecretStep
<1> QED
  BY <1>1, <1>2, <1>3

\* Resolving references never replaces a variable set in another way.
THEOREM NoOverride == Spec => SecretsNeverOverride
BY SecretStepHolds, ColdStarts, PTL DEF Spec, SecretsNeverOverride
=============================================================================
