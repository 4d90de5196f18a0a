-------------------- MODULE PlatformCredentials_proofs --------------------
(***************************************************************************)
(* Proofs about PlatformCredentials, for any operators, scripts and bounds. *)
(*                                                                         *)
(* The claims below are about a store s and the configuration v that the   *)
(* object server has loaded, so that one lemma serves a state and the next  *)
(* one.  The argument: an object that is in the store stays what it is     *)
(* while any script runs or any late creation is pending, because people   *)
(* delete objects only when all is quiet (Orderly); hence what a script    *)
(* has read and found present, has created, or has verified still holds    *)
(* when it acts on it, and whatever it or its last request creates fits    *)
(* what is stored by then (Sound).                                         *)
(***************************************************************************)
EXTENDS PlatformCredentials, SequenceTheorems, TLAPS

-----------------------------------------------------------------------------
(* The tables. *)

ReadStages == {"postgres", "bootstrap", "credentials", "identities", "registry",
               "executionRegistry", "runtime", "migration", "authority", "resources",
               "repository", "root"}
OtherStages == {"deployPostgres", "deployObjects", "sql", "initialize", "probe",
                "applications", "submit", "restart", "rollout", "retrieve"}

\* What the stages read and own, as sets.
RowsOfReads ==
    /\ Read["postgres"] = {"postgres", "volume", "postgresServer"}
    /\ Read["bootstrap"] = {"bootstrap", "objects", "objectServer"}
    /\ Read["credentials"] = {"bootstrap", "uploader", "server", "executor", "objectServer"}
    /\ Read["identities"] = {"database", "roles"}
    /\ Read["registry"] = {"registry"}
    /\ Read["executionRegistry"] = {"executionRegistry"}
    /\ Read["runtime"] =
           {"database", "uploader", "runtimeConfig", "runtime",
            "registryConfig", "authentication"}
    /\ Read["migration"] = {"migrated"}
    /\ Read["authority"] = {"authority"}
    /\ Read["resources"] = {"controlPlane"}
    /\ Read["repository"] = {"repository"}
    /\ Read["root"] = {"root"}

RowsOfOwns ==
    /\ Owned["postgres"] = {"postgres"}
    /\ Owned["bootstrap"] = {"bootstrap"}
    /\ Owned["credentials"] = {"uploader", "server", "executor"}
    /\ Owned["identities"] = {"database", "roles"}
    /\ Owned["registry"] = {"registry"}
    /\ Owned["executionRegistry"] = {"executionRegistry"}
    /\ Owned["runtime"] = {"runtimeConfig", "runtime", "registryConfig", "authentication"}
    /\ Owned["migration"] = {"migrated"}
    /\ Owned["authority"] = {"authority"}
    /\ Owned["resources"] = {}
    /\ Owned["repository"] = {"repository"}
    /\ Owned["root"] = {"root"}

LEMMA DomainsOfStages ==
    DOMAIN Stage = ReadStages \cup OtherStages /\ DOMAIN Read = DOMAIN Stage
        /\ DOMAIN Owned = DOMAIN Stage
BY DEF Stage, ReadStages, OtherStages, Read, Owned

LEMMA RowsOfReadsHold == RowsOfReads
<1>1. Read["postgres"] = {"postgres", "volume", "postgresServer"}
  BY DomainsOfStages DEF Read, Stage, ReadStages, PostgresStage
<1>2. Read["bootstrap"] = {"bootstrap", "objects", "objectServer"}
  BY DomainsOfStages DEF Read, Stage, ReadStages, BootstrapStage
<1>3. Read["credentials"] = {"bootstrap", "uploader", "server", "executor", "objectServer"}
  BY DomainsOfStages DEF Read, Stage, ReadStages, CredentialsStage
<1>4. Read["identities"] = {"database", "roles"}
  BY DomainsOfStages DEF Read, Stage, ReadStages, IdentitiesStage
<1>5. Read["registry"] = {"registry"}
  BY DomainsOfStages DEF Read, Stage, ReadStages, RegistryStage
<1>6. Read["executionRegistry"] = {"executionRegistry"}
  BY DomainsOfStages DEF Read, Stage, ReadStages, ExecutionRegistryStage
<1>7. Read["runtime"] =
         {"database", "uploader", "runtimeConfig", "runtime",
          "registryConfig", "authentication"}
  <2>1. Stage["runtime"].reads = <<"database", "uploader", "runtimeConfig", "runtime",
                                   "registryConfig", "authentication">>
    BY DEF Stage, RuntimeStage
  <2>2. /\ Len(Stage["runtime"].reads) = 6
        /\ Read["runtime"] = {Stage["runtime"].reads[i] : i \in 1..Len(Stage["runtime"].reads)}
    BY <2>1, DomainsOfStages DEF Read, ReadStages
  <2> QED BY <2>1, <2>2
<1>8. Read["migration"] = {"migrated"}
  BY DomainsOfStages DEF Read, Stage, ReadStages, MigrationStage
<1>9. Read["authority"] = {"authority"}
  BY DomainsOfStages DEF Read, Stage, ReadStages, AuthorityStage
<1>10. Read["resources"] = {"controlPlane"}
  <2>1. Stage["resources"].reads = <<"controlPlane">>
    BY DEF Stage, ResourcesStage
  <2> QED BY <2>1, DomainsOfStages DEF Read, ReadStages
<1>11. Read["repository"] = {"repository"}
  BY DomainsOfStages DEF Read, Stage, ReadStages, RepositoryStage
<1>12. Read["root"] = {"root"}
  BY DomainsOfStages DEF Read, Stage, ReadStages, RootStage
<1> QED BY <1>1, <1>2, <1>3, <1>4, <1>5, <1>6, <1>7, <1>8, <1>9, <1>10, <1>11, <1>12 DEF RowsOfReads

LEMMA RowsOfOwnsHold == RowsOfOwns
<1>1. Owned["postgres"] = {"postgres"}
  BY DomainsOfStages DEF Owned, Stage, ReadStages, PostgresStage
<1>2. Owned["bootstrap"] = {"bootstrap"}
  BY DomainsOfStages DEF Owned, Stage, ReadStages, BootstrapStage
<1>3. Owned["credentials"] = {"uploader", "server", "executor"}
  BY DomainsOfStages DEF Owned, Stage, ReadStages, CredentialsStage, CredentialsOrder
<1>4. Owned["identities"] = {"database", "roles"}
  BY DomainsOfStages DEF Owned, Stage, ReadStages, IdentitiesStage
<1>5. Owned["registry"] = {"registry"}
  BY DomainsOfStages DEF Owned, Stage, ReadStages, RegistryStage
<1>6. Owned["executionRegistry"] = {"executionRegistry"}
  BY DomainsOfStages DEF Owned, Stage, ReadStages, ExecutionRegistryStage
<1>7. Owned["runtime"] = {"runtimeConfig", "runtime", "registryConfig", "authentication"}
  <2>1. Stage["runtime"].owns = <<"runtimeConfig", "runtime", "registryConfig", "authentication">>
    BY DEF Stage, RuntimeStage
  <2>2. /\ Len(Stage["runtime"].owns) = 4
        /\ Owned["runtime"] = {Stage["runtime"].owns[i] : i \in 1..Len(Stage["runtime"].owns)}
    BY <2>1, DomainsOfStages DEF Owned, ReadStages
  <2> QED BY <2>1, <2>2
<1>8. Owned["migration"] = {"migrated"}
  BY DomainsOfStages DEF Owned, Stage, ReadStages, MigrationStage
<1>9. Owned["authority"] = {"authority"}
  BY DomainsOfStages DEF Owned, Stage, ReadStages, AuthorityStage
<1>10. Owned["resources"] = {}
  BY DomainsOfStages DEF Owned, Stage, ReadStages, ResourcesStage
<1>11. Owned["repository"] = {"repository"}
  BY DomainsOfStages DEF Owned, Stage, ReadStages, RepositoryStage
<1>12. Owned["root"] = {"root"}
  BY DomainsOfStages DEF Owned, Stage, ReadStages, RootStage
<1> QED BY <1>1, <1>2, <1>3, <1>4, <1>5, <1>6, <1>7, <1>8, <1>9, <1>10, <1>11, <1>12 DEF RowsOfOwns

\* Stages that read nothing: Helm deploys a server, or something is checked.
LEMMA StagesWithoutReads ==
    \A st \in OtherStages :
        /\ Stage[st].reads = <<>> /\ Stage[st].needs = {} /\ Stage[st].traces = {}
        /\ Stage[st].owns = CASE st = "deployPostgres" -> <<"postgresServer">>
                              [] st = "deployObjects" -> <<"objectServer">>
                              [] OTHER -> <<>>
BY DEF Stage, OtherStages, Deploying, Checking, ClientStage

LEMMA OwnedWithoutReads ==
    /\ Owned["deployPostgres"] = {"postgresServer"}
    /\ Owned["deployObjects"] = {"objectServer"}
    /\ \A st \in OtherStages \ {"deployPostgres", "deployObjects"} : Owned[st] = {}
BY StagesWithoutReads, DomainsOfStages DEF Owned, OtherStages

\* Every other stage reads what it owns, which is never a server or the Pod.
LEMMA StagesWithReads ==
    ASSUME NEW st \in ReadStages
    PROVE  /\ Len(Stage[st].reads) \in Nat \ {0} /\ Stage[st].reads # <<>>
           /\ \A i \in 1..Len(Stage[st].reads) : Stage[st].reads[i] \in Read[st]
           /\ Read[st] \subseteq Names
           /\ Owned[st] \subseteq Read[st] \ (Servers \cup Pods)
<1>1. /\ Len(Stage["postgres"].reads) = 3 /\ Len(Stage["bootstrap"].reads) = 3
      /\ Len(Stage["credentials"].reads) = 5 /\ Len(Stage["identities"].reads) = 2
      /\ Len(Stage["registry"].reads) = 1 /\ Len(Stage["executionRegistry"].reads) = 1
      /\ Len(Stage["runtime"].reads) = 6 /\ Len(Stage["migration"].reads) = 1
      /\ Len(Stage["authority"].reads) = 1 /\ Len(Stage["resources"].reads) = 1
      /\ Len(Stage["repository"].reads) = 1 /\ Len(Stage["root"].reads) = 1
  BY DEF Stage, PostgresStage, BootstrapStage, CredentialsStage, IdentitiesStage,
         RegistryStage, ExecutionRegistryStage, RuntimeStage, MigrationStage, AuthorityStage,
         ResourcesStage, RepositoryStage, RootStage
<1>2. Len(Stage[st].reads) \in 1..6
  <2>1. \/ Len(Stage[st].reads) = 1 \/ Len(Stage[st].reads) = 2 \/ Len(Stage[st].reads) = 3
        \/ Len(Stage[st].reads) = 5 \/ Len(Stage[st].reads) = 6
    BY <1>1 DEF ReadStages
  <2> QED BY <2>1
<1>3. Stage[st].reads # <<>>
  <2> SUFFICES ASSUME Stage[st].reads = <<>> PROVE FALSE
    OBVIOUS
  <2>1. Len(Stage[st].reads) = 0
    OBVIOUS
  <2> QED BY <2>1, <1>2
<1>4. \A i \in 1..Len(Stage[st].reads) : Stage[st].reads[i] \in Read[st]
  BY DomainsOfStages DEF Read
<1>5. Read[st] \subseteq Names
  BY RowsOfReadsHold DEF RowsOfReads, ReadStages, Names, Fresh, Derived, Servers, Volumes,
                         Others, Pods
<1>6. Owned[st] \subseteq Read[st] \ (Servers \cup Pods)
  BY RowsOfReadsHold, RowsOfOwnsHold DEF RowsOfReads, RowsOfOwns, ReadStages, Servers, Pods
<1> QED BY <1>2, <1>3, <1>4, <1>5, <1>6

\* What the stages own can be created.
LEMMA OwnedAreNames ==
    ASSUME NEW st \in DOMAIN Stage
    PROVE  Owned[st] \subseteq Names \ (Pods \cup Volumes \cup Applications \cup Results)
BY DomainsOfStages, OwnedWithoutReads, RowsOfOwnsHold
   DEF RowsOfOwns, ReadStages, OtherStages, Names, Fresh, Derived, Servers, Volumes, Others,
       Pods, Applications, Results

\* The calls of the scripts one by one.
Calls == [stage : DOMAIN Stage, create : BOOLEAN]

LEMMA CallFacts ==
    \A st \in DOMAIN Stage :
        /\ Creating(st) \in Calls /\ Creating(st).stage = st /\ Creating(st).create
        /\ Verifying(st) \in Calls /\ Verifying(st).stage = st /\ ~Verifying(st).create
BY DEF Calls, Creating, Verifying

LEMMA ShortScripts ==
    /\ Len(PostgresDeploy) = 3 /\ PostgresDeploy[1] = Creating("postgres")
    /\ PostgresDeploy[2] = Creating("deployPostgres") /\ PostgresDeploy[3] = Verifying("sql")
    /\ Len(ObjectStoreDeploy) = 4 /\ ObjectStoreDeploy[1] = Creating("bootstrap")
    /\ ObjectStoreDeploy[2] = Creating("credentials")
    /\ ObjectStoreDeploy[3] = Creating("deployObjects")
    /\ ObjectStoreDeploy[4] = Verifying("initialize")
    /\ Len(StorageAccess) = 2 /\ StorageAccess[1] = Verifying("credentials")
    /\ StorageAccess[2] = Verifying("probe")
    /\ Len(DatabaseDeploy) = 3 /\ DatabaseDeploy[1] = Verifying("postgres")
    /\ DatabaseDeploy[2] = Verifying("sql") /\ DatabaseDeploy[3] = Creating("identities")
    /\ Len(RegistryDeploy) = 1 /\ RegistryDeploy[1] = Creating("registry")
    /\ Len(ExecutionRegistryDeploy) = 1
    /\ ExecutionRegistryDeploy[1] = Creating("executionRegistry")
    /\ Len(RuntimeDeploy) = 1 /\ RuntimeDeploy[1] = Creating("runtime")
    /\ Len(GitopsBootstrap) = 5 /\ GitopsBootstrap[1] = Creating("repository")
    /\ GitopsBootstrap[2] = Creating("root") /\ GitopsBootstrap[3] = Verifying("applications")
    /\ GitopsBootstrap[4] = Verifying("postgres") /\ GitopsBootstrap[5] = Verifying("sql")
BY DEF PostgresDeploy, ObjectStoreDeploy, StorageAccess, DatabaseDeploy, RegistryDeploy,
       ExecutionRegistryDeploy, RuntimeDeploy, GitopsBootstrap

LEMMA HealthScript ==
    /\ Len(ControlPlaneHealth) = 7
    /\ ControlPlaneHealth[1] = Verifying("identities")
    /\ ControlPlaneHealth[2] = Verifying("registry")
    /\ ControlPlaneHealth[3] = Verifying("migration")
    /\ ControlPlaneHealth[4] = Verifying("runtime")
    /\ ControlPlaneHealth[5] = Verifying("executionRegistry")
    /\ ControlPlaneHealth[6] = Verifying("authority")
    /\ ControlPlaneHealth[7] = Verifying("resources")
BY DEF ControlPlaneHealth

LEMMA LongScripts ==
    /\ Len(GitopsHealth) = 14
    /\ GitopsHealth[1] = Verifying("repository") /\ GitopsHealth[2] = Verifying("root")
    /\ GitopsHealth[3] = Verifying("applications") /\ GitopsHealth[4] = Verifying("postgres")
    /\ GitopsHealth[5] = Verifying("sql") /\ GitopsHealth[6] = Verifying("bootstrap")
    /\ GitopsHealth[7] = Verifying("initialize")
    /\ \A i \in 1..7 : GitopsHealth[i + 7] = ControlPlaneHealth[i]
    /\ Len(Smoke) = 8 /\ Smoke[8] = Verifying("submit")
    /\ \A i \in 1..7 : Smoke[i] = ControlPlaneHealth[i]
    /\ Len(VerifyAfterRestart) = 17
    /\ \A i \in 1..7 : VerifyAfterRestart[i] = ControlPlaneHealth[i]
    /\ VerifyAfterRestart[8] = Verifying("restart") /\ VerifyAfterRestart[9] = Verifying("rollout")
    /\ \A i \in 1..7 : VerifyAfterRestart[i + 9] = ControlPlaneHealth[i]
    /\ VerifyAfterRestart[17] = Verifying("retrieve")
BY DEF GitopsHealth, Smoke, VerifyAfterRestart, ControlPlaneHealth

LEMMA ScriptRows ==
    /\ DOMAIN Script = {"postgres", "objectStore", "storageAccess", "database", "registry",
                        "executionRegistry", "runtime", "health", "gitopsBootstrap",
                        "gitopsHealth", "smoke", "verifyRun"}
    /\ Script["postgres"] = PostgresDeploy /\ Script["objectStore"] = ObjectStoreDeploy
    /\ Script["storageAccess"] = StorageAccess /\ Script["database"] = DatabaseDeploy
    /\ Script["registry"] = RegistryDeploy
    /\ Script["executionRegistry"] = ExecutionRegistryDeploy
    /\ Script["runtime"] = RuntimeDeploy /\ Script["health"] = ControlPlaneHealth
    /\ Script["gitopsBootstrap"] = GitopsBootstrap /\ Script["gitopsHealth"] = GitopsHealth
    /\ Script["smoke"] = Smoke /\ Script["verifyRun"] = VerifyAfterRestart
BY DEF Script

\* Which calls are made before others: a server is deployed after its credentials
\* have been provisioned, the Pod restarted after its own have been verified, and
\* the root Application only created by the bootstrap of Argo CD.
Ordered(calls, i, key) ==
    /\ calls[i] \in Calls
    /\ calls[i].stage \in {"deployPostgres", "deployObjects"} => calls[i].create
    /\ calls[i].stage = "deployPostgres" => 1 < i /\ calls[1].stage = "postgres"
    /\ calls[i].stage = "deployObjects" =>
           /\ 1 < i /\ calls[1].stage = "bootstrap"
           /\ 2 < i /\ calls[2].stage = "credentials"
    /\ calls[i].stage = "restart" => 4 < i /\ calls[4].stage = "runtime"
    /\ calls[i].stage = "root" /\ calls[i].create => key = "gitopsBootstrap"

LEMMA HealthOrdered == ASSUME NEW key PROVE \A i \in 1..7 : Ordered(ControlPlaneHealth, i, key)
<1>1. \A i \in 1..7 : i = 1 \/ i = 2 \/ i = 3 \/ i = 4 \/ i = 5 \/ i = 6 \/ i = 7
  OBVIOUS
<1> QED BY <1>1, HealthScript, CallFacts, DomainsOfStages DEF Ordered, ReadStages, OtherStages

LEMMA ScriptTable ==
    ASSUME NEW key \in DOMAIN Script
    PROVE  /\ Len(Script[key]) \in Nat \ {0}
           /\ \A i \in 1..Len(Script[key]) : Ordered(Script[key], i, key)
<1> USE DomainsOfStages, CallFacts DEF Ordered, ReadStages, OtherStages
<1> DEFINE P(calls, k) == Len(calls) \in Nat \ {0} /\ \A i \in 1..Len(calls) : Ordered(calls, i, k)
<1>1. P(PostgresDeploy, "postgres")
  BY ShortScripts
<1>2. P(ObjectStoreDeploy, "objectStore")
  BY ShortScripts
<1>3. P(StorageAccess, "storageAccess") /\ P(DatabaseDeploy, "database")
  BY ShortScripts
<1>4. P(RegistryDeploy, "registry") /\ P(ExecutionRegistryDeploy, "executionRegistry")
          /\ P(RuntimeDeploy, "runtime")
  BY ShortScripts
<1>5. P(GitopsBootstrap, "gitopsBootstrap")
  BY ShortScripts
<1>6. P(ControlPlaneHealth, "health")
  BY HealthOrdered, HealthScript
<1>7. P(GitopsHealth, "gitopsHealth")
  <2>1. ASSUME NEW i \in 1..14
        PROVE  \/ i = 1 \/ i = 2 \/ i = 3 \/ i = 4 \/ i = 5 \/ i = 6 \/ i = 7
               \/ i - 7 \in 1..7 /\ GitopsHealth[i] = ControlPlaneHealth[i - 7]
    BY LongScripts
  <2>2. \A i \in 1..7 : Ordered(GitopsHealth, i, "gitopsHealth")
    BY LongScripts
  <2>3. ASSUME NEW i \in 1..7 PROVE Ordered(GitopsHealth, i + 7, "gitopsHealth")
    BY LongScripts, HealthOrdered, HealthScript
  <2> QED BY <2>1, <2>2, <2>3, LongScripts
<1>8. P(Smoke, "smoke")
  <2>1. ASSUME NEW i \in 1..7 PROVE Ordered(Smoke, i, "smoke")
    BY LongScripts, HealthOrdered, HealthScript
  <2>2. Ordered(Smoke, 8, "smoke")
    BY LongScripts
  <2> QED BY <2>1, <2>2, LongScripts
<1>9. P(VerifyAfterRestart, "verifyRun")
  <2>1. ASSUME NEW i \in 1..7 PROVE Ordered(VerifyAfterRestart, i, "verifyRun")
    BY LongScripts, HealthOrdered, HealthScript
  <2>2. ASSUME NEW i \in 1..7 PROVE Ordered(VerifyAfterRestart, i + 9, "verifyRun")
    BY LongScripts, HealthOrdered, HealthScript
  <2>3. ASSUME NEW i \in {8, 9, 17} PROVE Ordered(VerifyAfterRestart, i, "verifyRun")
    BY LongScripts, HealthScript
  <2>4. ASSUME NEW i \in 1..17 PROVE i \in 1..7 \/ i \in {8, 9, 17} \/ i - 9 \in 1..7
    OBVIOUS
  <2> QED BY <2>1, <2>2, <2>3, <2>4, LongScripts
<1> HIDE DEF P
<1>10. P(Script[key], key)
  BY <1>1, <1>2, <1>3, <1>4, <1>5, <1>6, <1>7, <1>8, <1>9, ScriptRows
<1> QED BY <1>10 DEF P

-----------------------------------------------------------------------------
(* The inductive invariant. *)

Held(s, n) == s[n] # Absent
Join(a, b) == a \o b
SameUploader(s, config) == s["uploader"] \in {Absent, <<config[2]>>}
SamePod(s) == Held(s, "runtime") /\ \A i \in 1..2 : s["controlPlane"][i] = s["runtime"][i]

Typed(s, v) ==
    /\ DOMAIN s = Names /\ \A n \in Names : s[n] \in {Absent} \cup Stores(n)
    /\ v \in {Absent} \cup Stores("server")
    /\ \A n \in Others \cup {"postgresServer", "objects", "run"} : s[n] \in {Absent, Present}
    /\ s["objectServer"] \in {Absent, Legacy, Present}

\* Whatever was lost: no credential has been replaced under those who use it.
Fit(s, v) ==
    /\ Held(s, "postgres") /\ Held(s, "volume") => s["postgres"] = s["volume"]
    /\ Held(s, "database") /\ Held(s, "roles") => s["database"] = s["roles"]
    /\ Held(s, "server") => SameUploader(s, s["server"])
    /\ v # Absent => SameUploader(s, v) /\ s["objectServer"] = Present
    /\ Held(s, "objectServer") => Held(s, "objects")

\* When nothing was lost: what is derived from a credential, or was deployed
\* with it, is never without it.
Whole(s) ==
    /\ Held(s, "executor") => Held(s, "uploader") /\ s["executor"] = s["uploader"]
    /\ Held(s, "server") => /\ Held(s, "bootstrap") /\ Held(s, "uploader")
                            /\ s["server"] = Join(s["bootstrap"], s["uploader"])
    /\ Held(s, "runtime") => /\ Held(s, "database") /\ Held(s, "uploader")
                             /\ s["runtime"] = Join(s["database"], s["uploader"])
    /\ Held(s, "controlPlane") => SamePod(s)
    /\ s["objectServer"] = Present => Held(s, "bootstrap") /\ Held(s, "uploader")
    /\ Held(s, "objects") => Held(s, "bootstrap")
    /\ Held(s, "volume") \/ Held(s, "postgresServer") => Held(s, "postgres")
    /\ Held(s, "roles") => Held(s, "database")
    /\ Held(s, "root") \/ Held(s, "applications") => Held(s, "postgres") /\ Held(s, "server")

\* A new value of a credential is no danger: nobody has put an earlier one to use.
FreeVolume(s) == Held(s, "postgres") \/ ~Held(s, "volume")
FreeServer(s) == Held(s, "uploader") \/ ~Held(s, "server")
FreeStore(s, v) == Held(s, "uploader") \/ (~Held(s, "server") /\ v = Absent)
FreeRoles(s) == Held(s, "database") \/ ~Held(s, "roles")

\* The creation of n with the value w does no harm, at whatever time it comes.
Sound(n, w, s, v) ==
    /\ n \in Names \ (Pods \cup Volumes \cup Applications \cup Results) /\ w \in Stores(n)
    /\ n \in Others \cup Servers => w = Present
    /\ n = "postgres" => FreeVolume(s)
    /\ n = "uploader" => FreeStore(s, v)
    /\ n = "database" => FreeRoles(s)
    /\ n = "server" => /\ Held(s, "bootstrap") /\ Held(s, "uploader")
                       /\ w = Join(s["bootstrap"], s["uploader"])
    /\ n = "executor" => w = s["uploader"]
    /\ n = "roles" => w = s["database"]
    /\ n = "runtime" => /\ Held(s, "database") /\ Held(s, "uploader")
                        /\ w = Join(s["database"], s["uploader"])
    /\ n = "postgresServer" => Held(s, "postgres")
    /\ n = "objectServer" => Held(s, "bootstrap") /\ Held(s, "uploader")
    /\ n = "root" => Held(s, "postgres") /\ Held(s, "server")

\* What a stage that has been gone through leaves behind.
Passed(st, s) ==
    /\ \A n \in Owned[st] : Held(s, n)
    /\ st = "credentials" => s["executor"] = s["uploader"]
    /\ st = "identities" => s["roles"] = s["database"]
    /\ st = "runtime" => /\ Held(s, "database") /\ Held(s, "uploader")
                         /\ s["runtime"] = Join(s["database"], s["uploader"])
    /\ st = "restart" => Held(s, "runtime") /\ (Held(s, "controlPlane") => SamePod(s))

\* A script is at its call i, and the calls before it have been gone through.
At(key, i, s) ==
    /\ key \in DOMAIN Script /\ i \in 1..Len(Script[key])
    /\ \A j \in 1..(i - 1) : Passed(Script[key][j].stage, s)
    /\ key = "gitopsBootstrap" => Held(s, "postgres") /\ Held(s, "server")

\* What a stage has read of the objects that it found, and of those it did not.
Seen(st, number, f, s) ==
    /\ f = [n \in Read[st] |-> f[n]] /\ \A n \in Read[st] : f[n] \in {Absent} \cup Stores(n)
    /\ \A n \in Read[st] \ (Pods \cup {"objectServer"}) : f[n] # Absent => s[n] = f[n]
    /\ st = "postgres" /\ 2 <= number /\ f["volume"] = Absent => FreeVolume(s)
    /\ st = "credentials" /\ 3 <= number /\ f["server"] = Absent => FreeServer(s)

\* What a stage has decided.
Decided(st, e, s) ==
    /\ e = [n \in Owned[st] |-> e[n]] /\ \A n \in Owned[st] : e[n] \in Stores(n)
    /\ \A n \in Owned[st] \cap (Others \cup Servers) : e[n] = Present
    /\ st = "credentials" => /\ Held(s, "bootstrap") /\ e["executor"] = e["uploader"]
                             /\ e["server"] = Join(s["bootstrap"], e["uploader"])
    /\ st = "identities" => e["roles"] = e["database"]
    /\ st = "runtime" => /\ Held(s, "database") /\ Held(s, "uploader")
                         /\ e["runtime"] = Join(s["database"], s["uploader"])

\* What it still has to create, and what is there by now.
Pending(st, e, ws, s, v) ==
    /\ ws \subseteq Owned[st] /\ \A n \in Owned[st] \ ws : s[n] = e[n]
    /\ "postgres" \in ws => FreeVolume(s)
    /\ "uploader" \in ws => FreeStore(s, v)
    /\ "database" \in ws => FreeRoles(s)

IsReading(r, s) ==
    LET call == Script[r.script][r.call] IN
    /\ r = [script |-> r.script, phase |-> "reading", call |-> r.call, read |-> r.read,
            seen |-> r.seen, expected |-> <<>>, writes |-> {}]
    /\ At(r.script, r.call, s)
    /\ r.read \in Nat /\ r.read < Len(Stage[call.stage].reads)
    /\ Seen(call.stage, r.read, r.seen, s)

IsWriting(r, s, v) ==
    LET call == Script[r.script][r.call] IN
    /\ r = [script |-> r.script, phase |-> "writing", call |-> r.call, read |-> 0,
            seen |-> <<>>, expected |-> r.expected, writes |-> r.writes]
    /\ At(r.script, r.call, s)
    /\ Decided(call.stage, r.expected, s)
    /\ Pending(call.stage, r.expected, r.writes, s, v)
    /\ ~call.create => r.writes = {}

Running(r, s, v) == r = Idle \/ IsReading(r, s) \/ IsWriting(r, s, v)

Counted ==
    /\ minted \in [Fresh -> Nat] /\ runs \in 0..MaxRuns /\ losses \in 0..MaxLosses

CredentialsInv ==
    /\ Counted
    /\ Typed(store, serving) /\ Fit(store, serving)
    /\ losses = 0 => Whole(store)
    /\ \A w \in late : Sound(w[1], w[2], store, serving)
    /\ op = [o \in Operators |-> op[o]]
    /\ \A o \in Operators : Running(op[o], store, serving)

-----------------------------------------------------------------------------
(* Generations. *)

Single == [1..1 -> Nat]

LEMMA StoresAre ==
    /\ \A n \in Names \ {"server", "runtime", "controlPlane"} : Stores(n) = Single
    /\ Stores("server") = [1..2 -> Nat] /\ Stores("runtime") = [1..2 -> Nat]
    /\ Stores("controlPlane") = [1..3 -> Nat]
BY DEF Stores, Size, Single

LEMMA NothingIsAbsent ==
    ASSUME NEW n \in Names
    PROVE  Absent \notin Stores(n)
<1>1. /\ <<>> \notin [1..1 -> Nat] /\ <<>> \notin [1..2 -> Nat] /\ <<>> \notin [1..3 -> Nat]
  OBVIOUS
<1> QED BY <1>1, StoresAre DEF Absent, Single

LEMMA Singles ==
    /\ Present \in Single /\ Legacy \in Single /\ Present # Absent /\ Legacy # Absent
    /\ Present # Legacy
    /\ \A m \in Nat : <<m>> \in Single
    /\ \A a \in Single : a[1] \in Nat /\ a = <<a[1]>>
BY DEF Present, Legacy, Absent, Single

LEMMA TuplesAreSequences ==
    ASSUME NEW k \in Nat, NEW f \in [1..k -> Nat]
    PROVE  f \in Seq(Nat) /\ Len(f) = k
<1>1. f \in Seq(Nat)
  BY SeqDef, Zenon
<1>2. Len(f) = k
  BY <1>1
<1> QED BY <1>1, <1>2

\* A credential is put after k others, and each can be told again.
LEMMA Joining ==
    ASSUME NEW k \in Nat, NEW a \in [1..k -> Nat], NEW b \in Single
    PROVE  /\ Join(a, b) \in [1..(k + 1) -> Nat]
           /\ \A i \in 1..k : Join(a, b)[i] = a[i]
           /\ Join(a, b)[k + 1] = b[1]
<1>1. 1 \in Nat
  OBVIOUS
<1>2. a \in Seq(Nat) /\ b \in Seq(Nat) /\ Len(a) = k /\ Len(b) = 1
  BY TuplesAreSequences, <1>1, Zenon DEF Single
<1>3. /\ a \o b \in Seq(Nat)
      /\ Len(a \o b) = Len(a) + Len(b)
      /\ \A i \in 1..(Len(a) + Len(b)) :
             (a \o b)[i] = IF i <= Len(a) THEN a[i] ELSE b[i - Len(a)]
  BY <1>2, ConcatProperties, Zenon
<1>4. /\ Join(a, b) \in Seq(Nat)
      /\ Len(Join(a, b)) = k + 1
      /\ \A i \in 1..(k + 1) : Join(a, b)[i] = IF i <= k THEN a[i] ELSE b[i - k]
  BY <1>2, <1>3, Zenon DEF Join
<1> QED BY <1>2, <1>4

\* Of two credentials put together each can be told again.
LEMMA Joined ==
    ASSUME NEW a \in Single, NEW b \in Single
    PROVE  /\ Join(a, b) \in [1..2 -> Nat]
           /\ Join(a, b)[1] = a[1] /\ Join(a, b)[2] = b[1]
           /\ a = <<Join(a, b)[1]>> /\ b = <<Join(a, b)[2]>>
<1>1. /\ Join(a, b) \in [1..(1 + 1) -> Nat] /\ \A i \in 1..1 : Join(a, b)[i] = a[i]
      /\ Join(a, b)[1 + 1] = b[1]
  BY Joining DEF Single
<1>2. Join(a, b) \in [1..2 -> Nat] /\ Join(a, b)[1] = a[1] /\ Join(a, b)[2] = b[1]
  BY <1>1
<1> QED BY <1>2, Singles

\* A Pod is started with the two credentials of the runtime Secret and a third.
LEMMA Started ==
    ASSUME NEW p \in [1..2 -> Nat], NEW a \in Single
    PROVE  Join(p, a) \in [1..3 -> Nat] /\ \A i \in 1..2 : Join(p, a)[i] = p[i]
<1>1. Join(p, a) \in [1..(2 + 1) -> Nat] /\ \A i \in 1..2 : Join(p, a)[i] = p[i]
  BY Joining
<1> QED BY <1>1

-----------------------------------------------------------------------------
(* What no step takes back while a script runs or a creation is pending. *)

Orderly(s, v, t, u) ==
    /\ \A n \in Names \ Pods :
           Held(s, n) => t[n] = s[n] \/ (n = "objectServer" /\ t[n] = Present)
    /\ t["volume"] = s["volume"] \/ Held(t, "postgres")
    /\ t["server"] = s["server"] \/ Held(t, "uploader")
    /\ u = v \/ Held(s, "server")
    /\ t["roles"] = s["roles"] \/ Held(t, "database")
    /\ \/ t["controlPlane"] = s["controlPlane"] \/ ~Held(t, "controlPlane")
       \/ Held(s, "runtime") /\ \A i \in 1..2 : t["controlPlane"][i] = s["runtime"][i]

LEMMA NamesAre ==
    Names = {"postgres", "bootstrap", "uploader", "database", "registry", "executionRegistry",
             "authentication", "repository", "server", "executor", "runtime", "roles",
             "postgresServer", "objectServer", "volume", "objects", "runtimeConfig",
             "registryConfig", "migrated", "authority", "root", "applications",
             "controlPlane", "run"}
BY DEF Names, Fresh, Derived, Servers, Volumes, Others, Applications, Pods, Results

LEMMA HeldStays ==
    ASSUME NEW s, NEW v, NEW t, NEW u, Orderly(s, v, t, u)
    PROVE  /\ \A n \in Names \ Pods : Held(s, n) => Held(t, n)
           /\ \A n \in Names \ (Pods \cup {"objectServer"}) : Held(s, n) => t[n] = s[n]
BY Singles DEF Orderly, Held

LEMMA FreeStays ==
    ASSUME NEW s, NEW v, NEW t, NEW u, Orderly(s, v, t, u)
    PROVE  /\ FreeVolume(s) => FreeVolume(t)
           /\ FreeServer(s) => FreeServer(t)
           /\ FreeStore(s, v) => FreeStore(t, u)
           /\ FreeRoles(s) => FreeRoles(t)
BY HeldStays, NamesAre DEF Orderly, Held, FreeVolume, FreeServer, FreeStore, FreeRoles, Pods

\* A creation that is pending does no harm later on.
LEMMA SoundStays ==
    ASSUME NEW s, NEW v, NEW t, NEW u, Typed(s, v), Orderly(s, v, t, u),
           NEW n, NEW w, Sound(n, w, s, v)
    PROVE  Sound(n, w, t, u)
<1>1. n \in Names /\ w \in Stores(n) /\ w # Absent
  BY NothingIsAbsent DEF Sound
<1>2. n = "executor" => Held(s, "uploader")
  BY <1>1 DEF Sound, Held
<1>3. n = "roles" => Held(s, "database")
  BY <1>1 DEF Sound, Held
<1> QED BY <1>1, <1>2, <1>3, HeldStays, FreeStays, NamesAre DEF Sound, Pods

\* A stage that has been gone through stays so.
LEMMA PassedStays ==
    ASSUME NEW s, NEW v, NEW t, NEW u, Orderly(s, v, t, u), NEW st \in DOMAIN Stage, Passed(st, s)
    PROVE  Passed(st, t)
<1>1. \A n \in Owned[st] : Held(t, n)
  BY HeldStays, OwnedAreNames DEF Passed
<1>2. st = "credentials" => t["executor"] = t["uploader"]
  BY HeldStays, NamesAre, RowsOfOwnsHold DEF Passed, RowsOfOwns, Pods
<1>3. st = "identities" => t["roles"] = t["database"]
  BY HeldStays, NamesAre, RowsOfOwnsHold DEF Passed, RowsOfOwns, Pods
<1>4. st = "runtime" => /\ Held(t, "database") /\ Held(t, "uploader")
                        /\ t["runtime"] = Join(t["database"], t["uploader"])
  BY HeldStays, NamesAre, RowsOfOwnsHold DEF Passed, RowsOfOwns, Pods
<1>5. st = "restart" => Held(t, "runtime") /\ (Held(t, "controlPlane") => SamePod(t))
  <2> SUFFICES ASSUME st = "restart"
               PROVE  Held(t, "runtime") /\ (Held(t, "controlPlane") => SamePod(t))
    OBVIOUS
  <2>1. Held(s, "runtime") /\ (Held(s, "controlPlane") => SamePod(s))
    BY DEF Passed
  <2>2. Held(t, "runtime") /\ t["runtime"] = s["runtime"]
    BY <2>1, HeldStays, NamesAre DEF Pods
  <2> QED BY <2>1, <2>2 DEF Orderly, SamePod, Held
<1> QED BY <1>1, <1>2, <1>3, <1>4, <1>5 DEF Passed

LEMMA AtStays ==
    ASSUME NEW s, NEW v, NEW t, NEW u, Orderly(s, v, t, u), NEW key, NEW i, At(key, i, s)
    PROVE  At(key, i, t)
<1>1. key \in DOMAIN Script /\ i \in 1..Len(Script[key]) /\ Len(Script[key]) \in Nat
  BY ScriptTable DEF At
<1>2. ASSUME NEW j \in 1..(i - 1) PROVE Passed(Script[key][j].stage, t)
  <2>1. j \in 1..Len(Script[key])
    BY <1>1
  <2>2. Script[key][j].stage \in DOMAIN Stage
    BY <1>1, <2>1, ScriptTable DEF Ordered, Calls
  <2> QED BY <2>2, PassedStays DEF At
<1> QED BY <1>1, <1>2, HeldStays, NamesAre DEF At, Pods

-----------------------------------------------------------------------------
(* The script of an operator, while others act. *)

\* A script is at a call of a stage; one that reads is at a stage with reads.
LEMMA CallIsTyped ==
    ASSUME NEW s, NEW key, NEW i, At(key, i, s)
    PROVE  /\ key \in DOMAIN Script /\ i \in 1..Len(Script[key]) /\ Len(Script[key]) \in Nat
           /\ Ordered(Script[key], i, key)
           /\ Script[key][i] \in Calls /\ Script[key][i].stage \in DOMAIN Stage
           /\ Script[key][i].create \in BOOLEAN
<1>1. key \in DOMAIN Script /\ i \in 1..Len(Script[key])
  BY DEF At
<1>2. Len(Script[key]) \in Nat /\ Ordered(Script[key], i, key)
  BY <1>1, ScriptTable
<1>3. Script[key][i] \in Calls
  BY <1>2 DEF Ordered
<1> QED BY <1>1, <1>2, <1>3 DEF Calls

LEMMA StagesThatRead ==
    ASSUME NEW st \in DOMAIN Stage, NEW m \in Nat, m < Len(Stage[st].reads)
    PROVE  st \in ReadStages
<1>1. SUFFICES ASSUME st \in OtherStages PROVE FALSE
  BY DomainsOfStages
<1>2. Len(Stage[st].reads) = 0
  BY <1>1, StagesWithoutReads
<1> QED BY <1>2

LEMMA SeenStays ==
    ASSUME NEW s, NEW v, NEW t, NEW u, Orderly(s, v, t, u),
           NEW st \in ReadStages, NEW m, NEW f, Seen(st, m, f, s)
    PROVE  Seen(st, m, f, t)
<1>1. Read[st] \subseteq Names
  BY StagesWithReads
<1>2. ASSUME NEW n \in Read[st] \ (Pods \cup {"objectServer"}), f[n] # Absent
      PROVE  t[n] = f[n]
  <2>1. s[n] = f[n]
    BY <1>2 DEF Seen
  <2> QED BY <2>1, <1>1, <1>2, HeldStays DEF Held
<1> QED BY <1>2, FreeStays DEF Seen

LEMMA DecidedStays ==
    ASSUME NEW s, NEW v, NEW t, NEW u, Orderly(s, v, t, u),
           NEW st \in DOMAIN Stage, NEW e, NEW ws, Typed(s, v), Typed(t, u),
           Decided(st, e, s), Pending(st, e, ws, s, v)
    PROVE  Decided(st, e, t) /\ Pending(st, e, ws, t, u)
<1>1. Decided(st, e, t)
  BY HeldStays, NamesAre DEF Decided, Pods
<1>2. ASSUME NEW n \in Owned[st] \ ws
      PROVE  t[n] = e[n]
  <2>1. s[n] = e[n] /\ n \in Names \ Pods /\ e[n] \in Stores(n)
    BY OwnedAreNames DEF Pending, Decided
  <2>2. Held(s, n)
    BY <2>1, NothingIsAbsent DEF Held
  <2>3. CASE n # "objectServer"
    BY <2>1, <2>2, <2>3, HeldStays
  <2>4. CASE n = "objectServer"
    <3>1. e[n] = Present
      BY <2>4 DEF Decided, Servers
    <3> QED BY <3>1, <2>1, <2>2 DEF Orderly
  <2> QED BY <2>3, <2>4
<1>3. Pending(st, e, ws, t, u)
  BY <1>2, FreeStays DEF Pending
<1> QED BY <1>1, <1>3

\* What is true of a script stays true while others act.
LEMMA RunningStays ==
    ASSUME NEW s, NEW v, NEW t, NEW u, Typed(s, v), Typed(t, u), Orderly(s, v, t, u),
           NEW r, Running(r, s, v)
    PROVE  Running(r, t, u)
<1> DEFINE st == Script[r.script][r.call].stage
<1>1. CASE r = Idle
  BY <1>1 DEF Running
<1>2. CASE IsReading(r, s)
  <2>1. At(r.script, r.call, t)
    BY <1>2, AtStays DEF IsReading
  <2>2. st \in DOMAIN Stage
    BY <1>2, CallIsTyped DEF IsReading
  <2>3. st \in ReadStages
    BY <1>2, <2>2, StagesThatRead DEF IsReading
  <2>4. Seen(st, r.read, r.seen, t)
    BY <1>2, <2>3, SeenStays DEF IsReading
  <2> QED BY <1>2, <2>1, <2>4 DEF IsReading, Running
<1>3. CASE IsWriting(r, s, v)
  <2>1. At(r.script, r.call, t)
    BY <1>3, AtStays DEF IsWriting
  <2>2. st \in DOMAIN Stage
    BY <1>3, CallIsTyped DEF IsWriting
  <2>3. Decided(st, r.expected, t) /\ Pending(st, r.expected, r.writes, t, u)
    BY <1>3, <2>2, DecidedStays DEF IsWriting
  <2> QED BY <1>3, <2>1, <2>3 DEF IsWriting, Running
<1> QED BY <1>1, <1>2, <1>3 DEF Running

-----------------------------------------------------------------------------
(* The steps of a script. *)

\* Who is to be created next does no harm: a stage creates a credential before
\* what is derived from it, and a script what a server needs before the server.
LEMMA DueIsOwned ==
    ASSUME NEW o, NEW n \in Due(o), Call(o).stage \in DOMAIN Stage
    PROVE  /\ n \in op[o].writes /\ n \in Owned[Call(o).stage]
           /\ Call(o).stage = "credentials" /\ n # "uploader" => "uploader" \notin op[o].writes
           /\ Call(o).stage = "identities" /\ n # "database" => "database" \notin op[o].writes
<1> DEFINE owns == Stage[Call(o).stage].owns
<1>1. PICK i \in 1..Len(owns) : /\ n = owns[i] /\ owns[i] \in op[o].writes
                                /\ \A j \in 1..(i - 1) : owns[j] \notin op[o].writes
  BY DEF Due
<1>2. n \in Owned[Call(o).stage]
  BY <1>1, DomainsOfStages DEF Owned
<1>3. ASSUME Call(o).stage = "credentials", n # "uploader"
      PROVE  "uploader" \notin op[o].writes
  <2>1. owns = <<"uploader", "server", "executor">>
    BY <1>3 DEF Stage, CredentialsStage, CredentialsOrder
  <2> QED BY <1>1, <1>3, <2>1
<1>4. ASSUME Call(o).stage = "identities", n # "database"
      PROVE  "database" \notin op[o].writes
  <2>1. owns = <<"database", "roles">>
    BY <1>4 DEF Stage, IdentitiesStage
  <2> QED BY <1>1, <1>4, <2>1
<1> QED BY <1>1, <1>2, <1>3, <1>4

\* Which stage creates what.
LEMMA Owner ==
    ASSUME NEW st \in DOMAIN Stage, NEW n \in Owned[st]
    PROVE  /\ n \in {"uploader", "server", "executor"} => st = "credentials"
           /\ n \in {"database", "roles"} => st = "identities"
           /\ n = "postgres" => st = "postgres"
           /\ n = "runtime" => st = "runtime"
           /\ n = "postgresServer" => st = "deployPostgres"
           /\ n = "objectServer" => st = "deployObjects"
           /\ n = "root" => st = "root"
BY DomainsOfStages, OwnedWithoutReads, RowsOfOwnsHold DEF RowsOfOwns, ReadStages, OtherStages

LEMMA DueIsSound ==
    ASSUME NEW o, IsWriting(op[o], store, serving), NEW n \in Due(o)
    PROVE  /\ n \in op[o].writes /\ n \in Owned[Call(o).stage]
           /\ Sound(n, op[o].expected[n], store, serving)
<1> DEFINE key == op[o].script
           i == op[o].call
           st == Call(o).stage
           e == op[o].expected
<1>1. /\ At(key, i, store) /\ Decided(st, e, store) /\ Pending(st, e, op[o].writes, store, serving)
      /\ ~Call(o).create => op[o].writes = {}
  BY DEF IsWriting, Call
<1>2. /\ key \in DOMAIN Script /\ i \in 1..Len(Script[key]) /\ Ordered(Script[key], i, key)
      /\ Call(o) = Script[key][i] /\ st \in DOMAIN Stage
  BY <1>1, CallIsTyped DEF Call
<1>3. n \in op[o].writes /\ n \in Owned[st]
  BY <1>2, DueIsOwned
<1>4. /\ n \in Names \ (Pods \cup Volumes \cup Applications \cup Results) /\ e[n] \in Stores(n)
      /\ n \in Others \cup Servers => e[n] = Present
  BY <1>1, <1>2, <1>3, OwnedAreNames DEF Decided
<1>5. /\ n = "postgres" => FreeVolume(store)
      /\ n = "uploader" => FreeStore(store, serving)
      /\ n = "database" => FreeRoles(store)
  BY <1>1, <1>3 DEF Pending
<1>6. ASSUME n \in {"server", "executor"}
      PROVE  /\ Held(store, "bootstrap") /\ Held(store, "uploader")
             /\ n = "server" => e[n] = Join(store["bootstrap"], store["uploader"])
             /\ n = "executor" => e[n] = store["uploader"]
  <2>1. st = "credentials"
    BY <1>2, <1>3, <1>6, Owner
  <2>2. "uploader" \notin op[o].writes /\ "uploader" \in Owned[st]
    BY <2>1, <1>2, <1>6, DueIsOwned, RowsOfOwnsHold DEF RowsOfOwns
  <2>3. store["uploader"] = e["uploader"] /\ e["uploader"] \in Stores("uploader")
    BY <2>2, <1>1 DEF Pending, Decided
  <2>4. Held(store, "uploader")
    BY <2>3, NothingIsAbsent, NamesAre DEF Held
  <2> QED BY <2>1, <2>3, <2>4, <1>1, <1>6 DEF Decided
<1>7. n = "roles" => e[n] = store["database"]
  <2> SUFFICES ASSUME n = "roles" PROVE e[n] = store["database"]
    OBVIOUS
  <2>1. st = "identities"
    BY <1>2, <1>3, Owner
  <2>2. "database" \notin op[o].writes /\ "database" \in Owned[st]
    BY <2>1, <1>2, DueIsOwned, RowsOfOwnsHold DEF RowsOfOwns
  <2> QED BY <2>1, <2>2, <1>1 DEF Pending, Decided
<1>8. n = "runtime" => /\ Held(store, "database") /\ Held(store, "uploader")
                       /\ e[n] = Join(store["database"], store["uploader"])
  BY <1>1, <1>2, <1>3, Owner DEF Decided
<1>9. n = "postgresServer" => Held(store, "postgres")
  <2> SUFFICES ASSUME n = "postgresServer" PROVE Held(store, "postgres")
    OBVIOUS
  <2>1. 1 < i /\ Script[key][1].stage = "postgres"
    BY <1>2, <1>3, Owner DEF Ordered
  <2>2. Passed("postgres", store)
    BY <2>1, <1>1, <1>2 DEF At
  <2> QED BY <2>2, RowsOfOwnsHold DEF Passed, RowsOfOwns
<1>10. n = "objectServer" => Held(store, "bootstrap") /\ Held(store, "uploader")
  <2> SUFFICES ASSUME n = "objectServer" PROVE Held(store, "bootstrap") /\ Held(store, "uploader")
    OBVIOUS
  <2>1. /\ 1 < i /\ Script[key][1].stage = "bootstrap"
        /\ 2 < i /\ Script[key][2].stage = "credentials"
    BY <1>2, <1>3, Owner DEF Ordered
  <2>2. Passed("bootstrap", store) /\ Passed("credentials", store)
    BY <2>1, <1>1, <1>2 DEF At
  <2> QED BY <2>2, RowsOfOwnsHold DEF Passed, RowsOfOwns
<1>11. n = "root" => Held(store, "postgres") /\ Held(store, "server")
  <2> SUFFICES ASSUME n = "root" PROVE Held(store, "postgres") /\ Held(store, "server")
    OBVIOUS
  <2>1. st = "root" /\ Call(o).create
    BY <1>1, <1>2, <1>3, Owner
  <2>2. key = "gitopsBootstrap"
    BY <2>1, <1>2 DEF Ordered
  <2> QED BY <2>2, <1>1 DEF At
<1>12. Sound(n, e[n], store, serving)
  BY <1>4, <1>5, <1>6, <1>7, <1>8, <1>9, <1>10, <1>11 DEF Sound
<1> QED BY <1>3, <1>12

\* A stage that is entered has read nothing yet, or has nothing to read and a
\* server to deploy.
LEMMA EnterRuns ==
    ASSUME NEW s, NEW v, NEW key, NEW i, At(key, i, s)
    PROVE  Running(Enter(key, i), s, v)
<1> DEFINE call == Script[key][i]
           st == call.stage
<1>1. /\ key \in DOMAIN Script /\ i \in Nat /\ st \in DOMAIN Stage
      /\ st \in {"deployPostgres", "deployObjects"} => call.create
  BY CallIsTyped DEF Ordered
<1>2. CASE st \in ReadStages
  <2> DEFINE f == [n \in Read[st] |-> Absent]
             r == [script |-> key, phase |-> "reading", call |-> i, read |-> 0,
                   seen |-> f, expected |-> <<>>, writes |-> {}]
  <2>1. Stage[st].reads # <<>> /\ Len(Stage[st].reads) \in Nat \ {0}
    BY <1>2, StagesWithReads
  <2>2. Enter(key, i) = r
    BY <2>1 DEF Enter, Idle
  <2>3. Seen(st, 0, f, s)
    BY DEF Seen
  <2>4. IsReading(r, s)
    BY <2>1, <2>3 DEF IsReading
  <2> QED BY <2>2, <2>4 DEF Running
<1>3. CASE st \in OtherStages
  <2>1. Stage[st].reads = <<>> /\ Stage[st].needs = {} /\ Stage[st].traces = {}
    BY <1>3, StagesWithoutReads
  <2>2. Enter(key, i) = Decide(key, i, <<>>)
    BY <2>1 DEF Enter
  <2>3. SUFFICES ASSUME ~Refused(call, <<>>) PROVE Running(Enter(key, i), s, v)
    BY <2>2 DEF Decide, Running
  <2> DEFINE e == [n \in Owned[st] |-> Expected(n, <<>>)]
             r == [script |-> key, phase |-> "writing", call |-> i, read |-> 0,
                   seen |-> <<>>, expected |-> e, writes |-> Missing(call, <<>>)]
  <2>4. Enter(key, i) = r
    BY <2>2, <2>3 DEF Decide, Idle
  <2>5. Owned[st] \subseteq Servers
    BY <1>3, OwnedWithoutReads DEF Servers
  <2>6. \A n \in Owned[st] : e[n] = Present
    BY <2>5 DEF Expected, Servers, Fresh
  <2>7. \A n \in Servers : Present \in Stores(n)
    BY Singles, StoresAre, NamesAre DEF Servers
  <2>8. st \notin {"credentials", "identities", "runtime"}
    BY <1>3 DEF OtherStages
  <2>9. Decided(st, e, s)
    BY <2>5, <2>6, <2>7, <2>8 DEF Decided
  <2>10. Missing(call, <<>>) = Owned[st] /\ (~call.create => Missing(call, <<>>) = {})
    <3>1. CASE call.create
      BY <3>1 DEF Missing
    <3>2. CASE ~call.create
      BY <3>2, <1>1, <1>3, OwnedWithoutReads DEF Missing
    <3> QED BY <3>1, <3>2
  <2>11. Pending(st, e, Owned[st], s, v)
    BY <2>5 DEF Pending, Servers
  <2>12. IsWriting(r, s, v)
    BY <2>9, <2>10, <2>11 DEF IsWriting
  <2> QED BY <2>4, <2>12 DEF Running
<1> QED BY <1>1, <1>2, <1>3, DomainsOfStages

\* What stages cannot do without, and what tells them of a lost credential.
LEMMA NeedsAndTraces ==
    /\ Stage["credentials"].needs = {"bootstrap"}
    /\ Stage["runtime"].needs = {"database", "uploader"}
    /\ "volume" \in Stage["postgres"].traces /\ Stage["postgres"].owns[1] = "postgres"
    /\ {"server", "objectServer"} \subseteq Stage["credentials"].traces
    /\ Stage["credentials"].owns[1] = "uploader"
    /\ "roles" \in Stage["identities"].traces /\ Stage["identities"].owns[1] = "database"
BY DEF Stage, PostgresStage, PostgresTraces, CredentialsStage, CredentialsTraces,
       CredentialsOrder, IdentitiesStage, RuntimeStage

\* What has been seen once the last object has been read.
Known(st, f, s, v) ==
    /\ f = [n \in Read[st] |-> f[n]] /\ \A n \in Read[st] : f[n] \in {Absent} \cup Stores(n)
    /\ \A n \in Read[st] \ (Pods \cup {"objectServer"}) : f[n] # Absent => s[n] = f[n]
    /\ st = "postgres" /\ f["volume"] = Absent => FreeVolume(s)
    /\ st = "credentials" /\ f["server"] = Absent => FreeServer(s)
    /\ st = "credentials" /\ f["objectServer"] \in {Absent, Legacy} => v = Absent
    /\ st = "identities" /\ f["roles"] = Absent => FreeRoles(s)

\* What a stage wants its objects to hold is something they can hold.
LEMMA ExpectedIsTyped ==
    ASSUME minted \in [Fresh -> Nat], NEW st \in ReadStages, NEW f,
           \A n \in Read[st] : f[n] \in {Absent} \cup Stores(n),
           \A n \in Stage[st].needs : f[n] # Absent,
           NEW n \in Owned[st]
    PROVE  /\ Expected(n, f) \in Stores(n)
           /\ n \in Others => Expected(n, f) = Present
           /\ n = "server" => Expected(n, f) = Join(f["bootstrap"], Expected("uploader", f))
           /\ n = "executor" => Expected(n, f) = Expected("uploader", f)
           /\ n = "roles" => Expected(n, f) = Expected("database", f)
           /\ n = "runtime" => Expected(n, f) = Join(f["database"], f["uploader"])
<1>1. st \in DOMAIN Stage
  BY DomainsOfStages
<1>2. ASSUME NEW m \in Fresh, m \in Read[st]
      PROVE  Credential(m, f) \in Single
  <2>1. Stores(m) = Single
    BY StoresAre, NamesAre DEF Fresh
  <2>2. minted[m] + 1 \in Nat
    OBVIOUS
  <2> QED BY <1>2, <2>1, <2>2, Singles DEF Credential
<1>3. \A m \in Fresh : Expected(m, f) = Credential(m, f)
  BY DEF Expected, Fresh
<1>4. n \in Read[st]
  BY StagesWithReads
<1>5. CASE n \in Fresh
  <2>1. n \notin Others /\ n \notin Derived
    BY <1>5 DEF Fresh, Others, Derived
  <2>2. Stores(n) = Single
    BY <1>5, StoresAre, NamesAre DEF Fresh
  <2> QED BY <1>2, <1>3, <1>4, <1>5, <2>1, <2>2 DEF Derived
<1>6. CASE n = "executor"
  <2>1. "uploader" \in Read[st] /\ "uploader" \in Fresh
    BY <1>1, <1>6, Owner, RowsOfReadsHold DEF RowsOfReads, Fresh
  <2>2. Expected(n, f) = Credential("uploader", f) /\ Stores(n) = Single /\ n \notin Others
    BY <1>6, StoresAre, NamesAre DEF Expected, Fresh, Others
  <2> QED BY <1>2, <1>3, <1>6, <2>1, <2>2
<1>7. CASE n = "roles"
  <2>1. "database" \in Read[st] /\ "database" \in Fresh
    BY <1>1, <1>7, Owner, RowsOfReadsHold DEF RowsOfReads, Fresh
  <2>2. Expected(n, f) = Credential("database", f) /\ Stores(n) = Single /\ n \notin Others
    BY <1>7, StoresAre, NamesAre DEF Expected, Fresh, Others
  <2> QED BY <1>2, <1>3, <1>7, <2>1, <2>2
<1>8. CASE n = "server"
  <2>1. st = "credentials"
    BY <1>1, <1>8, Owner
  <2>2. {"bootstrap", "uploader"} \subseteq Read[st] /\ "uploader" \in Fresh
    BY <2>1, RowsOfReadsHold DEF RowsOfReads, Fresh
  <2>3. f["bootstrap"] \in Single
    BY <2>1, <2>2, NeedsAndTraces, StoresAre, NamesAre
  <2>4. Expected(n, f) = Join(f["bootstrap"], Credential("uploader", f))
    BY <1>8 DEF Expected, ServerConfig, Join, Fresh
  <2>5. Join(f["bootstrap"], Credential("uploader", f)) \in Stores(n)
    BY <1>2, <1>8, <2>2, <2>3, Joined, StoresAre
  <2> QED BY <1>3, <1>8, <2>2, <2>4, <2>5 DEF Others
<1>9. CASE n = "runtime"
  <2>1. st = "runtime"
    BY <1>1, <1>9, Owner
  <2>2. {"database", "uploader"} \subseteq Read[st]
    BY <2>1, RowsOfReadsHold DEF RowsOfReads
  <2>3. f["database"] \in Single /\ f["uploader"] \in Single
    BY <2>1, <2>2, NeedsAndTraces, StoresAre, NamesAre
  <2>4. Expected(n, f) = Join(f["database"], f["uploader"])
    BY <1>9 DEF Expected, RuntimeCredentials, Join, Fresh
  <2> QED BY <1>9, <2>3, <2>4, Joined, StoresAre DEF Others
<1>10. CASE n \in Others
  <2>1. Expected(n, f) = Present
    BY <1>10 DEF Expected, Others, Fresh
  <2>2. Present \in Stores(n) /\ n \notin Derived
    BY <1>10, StoresAre, NamesAre, Singles DEF Others, Derived
  <2> QED BY <1>10, <2>1, <2>2 DEF Derived
<1>11. n \in Fresh \cup Others \cup {"executor", "roles", "server", "runtime"}
  BY RowsOfOwnsHold DEF RowsOfOwns, ReadStages, Fresh, Others
<1> QED BY <1>5, <1>6, <1>7, <1>8, <1>9, <1>10, <1>11

\* A stage that has read everything refuses, or decides something sound.
LEMMA DecideRuns ==
    ASSUME minted \in [Fresh -> Nat],
           NEW key, NEW i, At(key, i, store), Script[key][i].stage \in ReadStages,
           NEW f, Known(Script[key][i].stage, f, store, serving)
    PROVE  Running(Decide(key, i, f), store, serving)
<1> DEFINE call == Script[key][i]
           st == call.stage
           e == [n \in Owned[st] |-> Expected(n, f)]
           r == [script |-> key, phase |-> "writing", call |-> i, read |-> 0,
                 seen |-> <<>>, expected |-> e, writes |-> Missing(call, f)]
<1>1. SUFFICES ASSUME ~Refused(call, f) PROVE Running(Decide(key, i, f), store, serving)
  BY DEF Decide, Running
<1>2. Decide(key, i, f) = r
  BY <1>1 DEF Decide, Idle
<1>3. /\ \A n \in Stage[st].needs : f[n] # Absent
      /\ ~Orphaned(st, f) /\ ~Mismatched(st, f)
      /\ ~call.create => ~Incomplete(st, f)
  BY <1>1 DEF Refused
<1>4. \A n \in Read[st] : f[n] \in {Absent} \cup Stores(n)
  BY DEF Known
<1>5. Owned[st] \subseteq Read[st] \ (Servers \cup Pods) /\ "objectServer" \in Servers
  BY StagesWithReads DEF Servers
<1>6. ASSUME NEW n \in Owned[st] \ Missing(call, f)
      PROVE  f[n] # Absent /\ f[n] = e[n] /\ store[n] = f[n]
  <2>1. f[n] # Absent
    BY <1>3, <1>6 DEF Missing, Incomplete
  <2>2. f[n] = Expected(n, f)
    BY <1>3, <1>5, <1>6, <2>1 DEF Mismatched
  <2>3. store[n] = f[n]
    BY <1>5, <1>6, <2>1 DEF Known
  <2> QED BY <1>6, <2>1, <2>2, <2>3
<1>7. \A n \in Owned[st] : e[n] \in Stores(n) /\ (n \in Others => e[n] = Present)
  BY <1>3, <1>4, ExpectedIsTyped
<1>8. Decided(st, e, store)
  <2>1. \A n \in Owned[st] \cap (Others \cup Servers) : e[n] = Present
    BY <1>5, <1>7
  <2>2. ASSUME st = "credentials"
        PROVE  /\ Held(store, "bootstrap") /\ e["executor"] = e["uploader"]
               /\ e["server"] = Join(store["bootstrap"], e["uploader"])
    <3>1. {"uploader", "server", "executor"} = Owned[st] /\ "bootstrap" \in Read[st]
      BY <2>2, RowsOfOwnsHold, RowsOfReadsHold DEF RowsOfOwns, RowsOfReads
    <3>2. f["bootstrap"] # Absent /\ store["bootstrap"] = f["bootstrap"]
      BY <2>2, <3>1, <1>3, NeedsAndTraces DEF Known, Pods
    <3>3. /\ Expected("executor", f) = Expected("uploader", f)
          /\ Expected("server", f) = Join(f["bootstrap"], Expected("uploader", f))
      BY <3>1, <1>3, <1>4, ExpectedIsTyped
    <3> QED BY <3>1, <3>2, <3>3 DEF Held
  <2>3. ASSUME st = "identities" PROVE e["roles"] = e["database"]
    <3>1. {"database", "roles"} = Owned[st]
      BY <2>3, RowsOfOwnsHold DEF RowsOfOwns
    <3>2. Expected("roles", f) = Expected("database", f)
      BY <3>1, <1>3, <1>4, ExpectedIsTyped
    <3> QED BY <3>1, <3>2
  <2>4. ASSUME st = "runtime"
        PROVE  /\ Held(store, "database") /\ Held(store, "uploader")
               /\ e["runtime"] = Join(store["database"], store["uploader"])
    <3>1. "runtime" \in Owned[st] /\ {"database", "uploader"} \subseteq Read[st]
      BY <2>4, RowsOfOwnsHold, RowsOfReadsHold DEF RowsOfOwns, RowsOfReads
    <3>2. /\ f["database"] # Absent /\ store["database"] = f["database"]
          /\ f["uploader"] # Absent /\ store["uploader"] = f["uploader"]
      BY <2>4, <3>1, <1>3, NeedsAndTraces DEF Known, Pods
    <3>3. Expected("runtime", f) = Join(f["database"], f["uploader"])
      BY <3>1, <1>3, <1>4, ExpectedIsTyped
    <3> QED BY <3>1, <3>2, <3>3 DEF Held
  <2> QED BY <1>7, <2>1, <2>2, <2>3, <2>4 DEF Decided
<1>9. Pending(st, e, Missing(call, f), store, serving)
  <2>1. Missing(call, f) \subseteq Owned[st] /\ \A n \in Missing(call, f) : f[n] = Absent
    BY <1>5 DEF Missing, Known
  <2>2. st \in DOMAIN Stage
    BY DomainsOfStages
  <2>3. ASSUME "postgres" \in Missing(call, f) PROVE FreeVolume(store)
    <3>1. st = "postgres"
      BY <2>1, <2>2, <2>3, Owner
    <3>2. f["volume"] = Absent
      BY <3>1, <2>1, <2>3, <1>3, NeedsAndTraces DEF Orphaned
    <3> QED BY <3>1, <3>2 DEF Known
  <2>4. ASSUME "uploader" \in Missing(call, f) PROVE FreeStore(store, serving)
    <3>1. st = "credentials"
      BY <2>1, <2>2, <2>4, Owner
    <3>2. f["server"] \in {Absent, Legacy} /\ f["objectServer"] \in {Absent, Legacy}
      BY <3>1, <2>1, <2>4, <1>3, NeedsAndTraces DEF Orphaned
    <3>3. "server" \in Read[st]
      BY <3>1, RowsOfReadsHold DEF RowsOfReads
    <3>4. Legacy \notin Stores("server")
      BY StoresAre DEF Legacy
    <3>5. f["server"] = Absent
      BY <3>2, <3>3, <3>4, <1>4, Singles
    <3> QED BY <3>1, <3>2, <3>5 DEF Known, FreeServer, FreeStore
  <2>5. ASSUME "database" \in Missing(call, f) PROVE FreeRoles(store)
    <3>1. st = "identities"
      BY <2>1, <2>2, <2>5, Owner
    <3>2. f["roles"] = Absent
      BY <3>1, <2>1, <2>5, <1>3, NeedsAndTraces DEF Orphaned
    <3> QED BY <3>1, <3>2 DEF Known
  <2> QED BY <1>6, <2>1, <2>3, <2>4, <2>5 DEF Pending
<1>10. ~call.create => Missing(call, f) = {}
  BY DEF Missing
<1>11. IsWriting(r, store, serving)
  BY <1>8, <1>9, <1>10 DEF IsWriting
<1> QED BY <1>2, <1>11 DEF Running

-----------------------------------------------------------------------------
(* What becomes of the store and of the object server. *)

Evolves(t, u) ==
    /\ Typed(t, u) /\ Fit(t, u) /\ (losses = 0 => Whole(t))
    /\ Orderly(store, serving, t, u)

\* A store that holds the same in other places is just as orderly.
LEMMA Unchanged ==
    ASSUME Typed(store, serving), Fit(store, serving), losses = 0 => Whole(store)
    PROVE  Evolves(store, serving)
BY DEF Evolves, Orderly

\* What is stored is what was, but for the object and the claim it brings along.
LEMMA StoredIs ==
    ASSUME DOMAIN store = Names, NEW n \in Names \ {"objects"}, NEW w
    PROVE  /\ DOMAIN Stored(n, w) = Names /\ Stored(n, w)[n] = w
           /\ n = "objectServer" => Stored(n, w)["objects"] = Present
           /\ \A m \in Names \ {n} :
                  m # "objects" \/ n # "objectServer" => Stored(n, w)[m] = store[m]
BY NamesAre DEF Stored

\* A sound creation leaves a fitting store, at whatever time it is carried out.
LEMMA CreationEvolves ==
    ASSUME Typed(store, serving), Fit(store, serving), losses = 0 => Whole(store),
           NEW n, NEW w, Sound(n, w, store, serving), Creatable(n)
    PROVE  Evolves(Stored(n, w), serving)
<1> DEFINE t == Stored(n, w)
<1>1. /\ n \in Names \ (Pods \cup Volumes \cup Applications \cup Results) /\ w \in Stores(n)
      /\ n \in Others \cup Servers => w = Present
      /\ n \in Names \ {"objects", "volume", "controlPlane", "applications"}
  BY NamesAre DEF Sound, Volumes, Pods, Applications
<1>2. /\ DOMAIN t = Names /\ t[n] = w
      /\ n = "objectServer" => t["objects"] = Present
      /\ \A m \in Names \ {n} : m # "objects" \/ n # "objectServer" => t[m] = store[m]
      /\ \A m \in Names \ {n, "objects"} : t[m] = store[m]
  BY <1>1, StoredIs DEF Typed
<1>3. w # Absent /\ Present # Absent
  BY <1>1, NothingIsAbsent, Singles
<1>4. store[n] = Absent \/ n \in Servers
  BY DEF Creatable
<1> HIDE DEF t
<1>5. Typed(t, serving)
  <2>1. ASSUME NEW m \in Names PROVE t[m] \in {Absent} \cup Stores(m)
    <3>1. Present \in Stores("objects")
      BY StoresAre, Singles, NamesAre
    <3> QED BY <1>1, <1>2, <3>1 DEF Typed
  <2>2. ASSUME NEW m \in Others \cup {"postgresServer", "objects", "run"}
        PROVE  t[m] \in {Absent, Present}
    <3>1. m \in Names
      BY NamesAre DEF Others
    <3> QED BY <1>1, <1>2, <3>1 DEF Typed, Servers, Results
  <2>3. t["objectServer"] \in {Absent, Legacy, Present}
    <3>1. "objectServer" \in Names \ {"objects"} /\ "objectServer" \in Servers
      BY NamesAre DEF Servers
    <3> QED BY <1>1, <1>2, <3>1 DEF Typed
  <2> QED BY <1>2, <2>1, <2>2, <2>3 DEF Typed
<1>6. Orderly(store, serving, t, serving)
  <2>1. \A m \in Names \ Pods :
            Held(store, m) => t[m] = store[m] \/ (m = "objectServer" /\ t[m] = Present)
    <3> SUFFICES ASSUME NEW m \in Names \ Pods, Held(store, m)
                 PROVE  t[m] = store[m] \/ (m = "objectServer" /\ t[m] = Present)
      OBVIOUS
    <3>1. CASE m = n
      <4>1. n \in Servers /\ w = Present
        BY <3>1, <1>1, <1>4 DEF Held
      <4>2. CASE n = "objectServer"
        BY <3>1, <4>1, <4>2, <1>2
      <4>3. CASE n = "postgresServer"
        <5>1. store[n] = Present
          BY <1>1, <4>3, <3>1 DEF Typed, Held
        <5> QED BY <3>1, <4>1, <5>1, <1>2
      <4> QED BY <4>1, <4>2, <4>3 DEF Servers
    <3>2. CASE m # n /\ m = "objects" /\ n = "objectServer"
      <4>1. store["objects"] = Present
        BY <3>2 DEF Typed, Held
      <4> QED BY <1>2, <3>2, <4>1
    <3>3. CASE m # n /\ (m # "objects" \/ n # "objectServer")
      <4>1. m \in Names \ {n}
        BY <3>3
      <4> QED BY <1>2, <3>3, <4>1
    <3> QED BY <3>1, <3>2, <3>3
  <2>2. t["volume"] = store["volume"] /\ t["controlPlane"] = store["controlPlane"]
    BY <1>1, <1>2, NamesAre
  <2>3. t["server"] = store["server"] \/ Held(t, "uploader")
    <3>1. CASE n = "server"
      BY <3>1, <1>2, NamesAre DEF Sound, Held
    <3>2. CASE n # "server"
      BY <3>2, <1>2, NamesAre
    <3> QED BY <3>1, <3>2
  <2>4. t["roles"] = store["roles"] \/ Held(t, "database")
    <3>1. CASE n = "roles"
      BY <3>1, <1>2, <1>3, NamesAre DEF Sound, Held
    <3>2. CASE n # "roles"
      BY <3>2, <1>2, NamesAre
    <3> QED BY <3>1, <3>2
  <2> QED BY <2>1, <2>2, <2>3, <2>4 DEF Orderly
<1>7. Fit(t, serving)
  <2>1. Held(t, "postgres") /\ Held(t, "volume") => t["postgres"] = t["volume"]
    <3>1. t["volume"] = store["volume"]
      BY <1>1, <1>2, NamesAre
    <3>2. CASE n = "postgres"
      BY <3>1, <3>2, <1>4 DEF Sound, FreeVolume, Held, Servers
    <3>3. CASE n # "postgres"
      BY <3>1, <3>3, <1>2, NamesAre DEF Fit, Held
    <3> QED BY <3>2, <3>3
  <2>2. Held(t, "database") /\ Held(t, "roles") => t["database"] = t["roles"]
    <3>1. CASE n = "database"
      <4>1. t["roles"] = store["roles"]
        BY <3>1, <1>2, NamesAre
      <4> QED BY <3>1, <4>1, <1>4 DEF Sound, FreeRoles, Held, Servers
    <3>2. CASE n = "roles"
      BY <3>2, <1>2, NamesAre DEF Sound
    <3>3. CASE n \notin {"database", "roles"}
      BY <3>3, <1>2, NamesAre DEF Fit, Held
    <3> QED BY <3>1, <3>2, <3>3
  <2>3. Held(t, "server") => SameUploader(t, t["server"])
    <3>1. CASE n = "uploader"
      <4>1. t["server"] = store["server"]
        BY <3>1, <1>2, NamesAre
      <4> QED BY <3>1, <4>1, <1>4 DEF Sound, FreeStore, Held, Servers
    <3>2. CASE n = "server"
      <4>1. t["uploader"] = store["uploader"]
        BY <3>2, <1>2, NamesAre
      <4>2. store["bootstrap"] \in Single /\ store["uploader"] \in Single
        BY <3>2, StoresAre, NamesAre DEF Sound, Typed, Held
      <4>3. t["server"] = Join(store["bootstrap"], store["uploader"])
        BY <3>2, <1>2 DEF Sound
      <4> QED BY <4>1, <4>2, <4>3, Joined DEF SameUploader
    <3>3. CASE n \notin {"uploader", "server"}
      BY <3>3, <1>2, NamesAre DEF Fit, Held, SameUploader
    <3> QED BY <3>1, <3>2, <3>3
  <2>4. serving # Absent => SameUploader(t, serving) /\ t["objectServer"] = Present
    <3>1. CASE n = "uploader"
      BY <3>1, <1>4 DEF Sound, FreeStore, Held, Servers
    <3>2. CASE n = "objectServer"
      BY <3>2, <1>1, <1>2, NamesAre DEF Fit, SameUploader, Servers
    <3>3. CASE n \notin {"uploader", "objectServer"}
      BY <3>3, <1>2, NamesAre DEF Fit, SameUploader
    <3> QED BY <3>1, <3>2, <3>3
  <2>5. Held(t, "objectServer") => Held(t, "objects")
    <3>1. CASE n = "objectServer"
      BY <3>1, <1>2, <1>3 DEF Held
    <3>2. CASE n # "objectServer"
      BY <3>2, <1>1, <1>2, NamesAre DEF Fit, Held
    <3> QED BY <3>1, <3>2
  <2> QED BY <2>1, <2>2, <2>3, <2>4, <2>5 DEF Fit
<1>8. ASSUME Whole(store) PROVE Whole(t)
  <2>1. /\ \A m \in Names \ Pods : Held(store, m) => Held(t, m)
        /\ \A m \in Names \ (Pods \cup {"objectServer"}) : Held(store, m) => t[m] = store[m]
    BY <1>6, HeldStays
  <2>2. Held(t, "executor") => Held(t, "uploader") /\ t["executor"] = t["uploader"]
    <3>1. CASE n = "executor"
      <4>1. t["uploader"] = store["uploader"] /\ store["uploader"] = w
        BY <3>1, <1>2, NamesAre DEF Sound
      <4> QED BY <3>1, <4>1, <1>2, <1>3 DEF Held
    <3>2. CASE n # "executor"
      BY <3>2, <1>2, <1>8, <2>1, NamesAre DEF Whole, Pods, Held
    <3> QED BY <3>1, <3>2
  <2>3. Held(t, "server") => /\ Held(t, "bootstrap") /\ Held(t, "uploader")
                             /\ t["server"] = Join(t["bootstrap"], t["uploader"])
    <3>1. CASE n = "server"
      BY <3>1, <1>2, NamesAre DEF Sound, Held
    <3>2. CASE n # "server"
      BY <3>2, <1>2, <1>8, <2>1, NamesAre DEF Whole, Pods, Held
    <3> QED BY <3>1, <3>2
  <2>4. Held(t, "runtime") => /\ Held(t, "database") /\ Held(t, "uploader")
                              /\ t["runtime"] = Join(t["database"], t["uploader"])
    <3>1. CASE n = "runtime"
      BY <3>1, <1>2, NamesAre DEF Sound, Held
    <3>2. CASE n # "runtime"
      BY <3>2, <1>2, <1>8, <2>1, NamesAre DEF Whole, Pods, Held
    <3> QED BY <3>1, <3>2
  <2>5. Held(t, "controlPlane") => SamePod(t)
    <3>1. t["controlPlane"] = store["controlPlane"]
      BY <1>1, <1>2, NamesAre
    <3> QED BY <3>1, <1>8, <2>1, NamesAre DEF Whole, SamePod, Held, Pods
  <2>6. t["objectServer"] = Present => Held(t, "bootstrap") /\ Held(t, "uploader")
    <3>1. CASE n = "objectServer"
      BY <3>1, <2>1, NamesAre DEF Sound, Pods
    <3>2. CASE n # "objectServer"
      BY <3>2, <1>2, <1>8, <2>1, NamesAre DEF Whole, Pods
    <3> QED BY <3>1, <3>2
  <2>7. Held(t, "objects") => Held(t, "bootstrap")
    <3>1. CASE n = "objectServer"
      BY <3>1, <2>1, NamesAre DEF Sound, Pods
    <3>2. CASE n # "objectServer"
      BY <3>2, <1>1, <1>2, <1>8, <2>1, NamesAre DEF Whole, Pods, Held
    <3> QED BY <3>1, <3>2
  <2>8. Held(t, "volume") \/ Held(t, "postgresServer") => Held(t, "postgres")
    <3>1. CASE n = "postgresServer"
      BY <3>1, <2>1, NamesAre DEF Sound, Pods
    <3>2. CASE n # "postgresServer"
      BY <3>2, <1>1, <1>2, <1>8, <2>1, NamesAre DEF Whole, Pods, Held
    <3> QED BY <3>1, <3>2
  <2>9. Held(t, "roles") => Held(t, "database")
    <3>1. CASE n = "roles"
      BY <3>1, <1>2, <1>3, NamesAre DEF Sound, Held
    <3>2. CASE n # "roles"
      BY <3>2, <1>2, <1>8, <2>1, NamesAre DEF Whole, Pods, Held
    <3> QED BY <3>1, <3>2
  <2>10. Held(t, "root") \/ Held(t, "applications") => Held(t, "postgres") /\ Held(t, "server")
    <3>1. CASE n = "root"
      BY <3>1, <2>1, NamesAre DEF Sound, Pods
    <3>2. CASE n # "root"
      BY <3>2, <1>1, <1>2, <1>8, <2>1, NamesAre DEF Whole, Pods, Held
    <3> QED BY <3>1, <3>2
  <2> QED BY <2>2, <2>3, <2>4, <2>5, <2>6, <2>7, <2>8, <2>9, <2>10 DEF Whole
<1> QED BY <1>5, <1>6, <1>7, <1>8 DEF Evolves, t

\* A Pod that has been told to go away, and comes back later.
LEMMA RestartEvolves ==
    ASSUME Typed(store, serving), Fit(store, serving), losses = 0 => Whole(store)
    PROVE  Evolves(Stored("controlPlane", Absent), serving)
<1> DEFINE t == Stored("controlPlane", Absent)
<1>1. /\ DOMAIN t = Names /\ t["controlPlane"] = Absent
      /\ \A m \in Names \ {"controlPlane"} : t[m] = store[m]
  BY StoredIs, NamesAre DEF Typed
<1> HIDE DEF t
<1>2. Typed(t, serving)
  BY <1>1, NamesAre DEF Typed, Others
<1>3. Fit(t, serving)
  BY <1>1, NamesAre DEF Fit, Held, SameUploader
<1>4. Whole(store) => Whole(t)
  BY <1>1, NamesAre DEF Whole, Held, SamePod
<1>5. Orderly(store, serving, t, serving)
  BY <1>1, NamesAre DEF Orderly, Held, Pods
<1> QED BY <1>2, <1>3, <1>4, <1>5 DEF Evolves, t

\* A completed Run, which the control plane stores.
LEMMA RunEvolves ==
    ASSUME Typed(store, serving), Fit(store, serving), losses = 0 => Whole(store)
    PROVE  Evolves(Stored("run", Present), serving)
<1> DEFINE t == Stored("run", Present)
<1>1. /\ DOMAIN t = Names /\ t["run"] = Present
      /\ \A m \in Names \ {"run"} : t[m] = store[m]
  BY StoredIs, NamesAre DEF Typed
<1> HIDE DEF t
<1>2. Typed(t, serving)
  BY <1>1, NamesAre, Singles, StoresAre DEF Typed, Others
<1>3. Fit(t, serving)
  BY <1>1, NamesAre DEF Fit, Held, SameUploader
<1>4. Whole(store) => Whole(t)
  BY <1>1, NamesAre DEF Whole, Held, SamePod
<1>5. Orderly(store, serving, t, serving)
  BY <1>1, NamesAre DEF Orderly, Held, Pods, Typed
<1> QED BY <1>2, <1>3, <1>4, <1>5 DEF Evolves, t

LEMMA SyncRootEvolves ==
    ASSUME Typed(store, serving), Fit(store, serving), losses = 0 => Whole(store), SyncRoot
    PROVE  Evolves(store', serving')
<1>1. /\ DOMAIN store' = Names /\ store'["applications"] = Present
      /\ \A m \in Names \ {"applications"} : store'[m] = store[m]
      /\ Held(store, "root") /\ ~Held(store, "applications") /\ serving' = serving
  BY StoredIs, NamesAre DEF Typed, SyncRoot, Held
<1>2. Typed(store', serving')
  BY <1>1, NamesAre, Singles, StoresAre DEF Typed, Others
<1>3. Fit(store', serving')
  BY <1>1, NamesAre DEF Fit, Held, SameUploader
<1>4. Whole(store) => Whole(store')
  BY <1>1, NamesAre DEF Whole, Held, SamePod
<1>5. Orderly(store, serving, store', serving')
  BY <1>1, NamesAre DEF Orderly, Held, Pods
<1> QED BY <1>2, <1>3, <1>4, <1>5 DEF Evolves

LEMMA MigrateEvolves ==
    ASSUME Typed(store, serving), Fit(store, serving), losses = 0 => Whole(store), Migrate
    PROVE  Evolves(store', serving')
<1>1. /\ DOMAIN store' = Names /\ store'["migrated"] = Present
      /\ \A m \in Names \ {"migrated"} : store'[m] = store[m]
      /\ ~Held(store, "migrated") /\ serving' = serving
  BY NamesAre DEF Typed, Migrate, Held
<1>2. Typed(store', serving')
  BY <1>1, NamesAre, Singles, StoresAre DEF Typed, Others
<1>3. Fit(store', serving')
  BY <1>1, NamesAre DEF Fit, Held, SameUploader
<1>4. Whole(store) => Whole(store')
  BY <1>1, NamesAre DEF Whole, Held, SamePod
<1>5. Orderly(store, serving, store', serving')
  BY <1>1, NamesAre DEF Orderly, Held, Pods
<1> QED BY <1>2, <1>3, <1>4, <1>5 DEF Evolves

\* The volume is initialised with the stored password, which is there by then.
LEMMA StartPostgresEvolves ==
    ASSUME Typed(store, serving), Fit(store, serving), losses = 0 => Whole(store), StartPostgres
    PROVE  Evolves(store', serving')
<1>1. /\ DOMAIN store' = Names /\ store'["volume"] = store["postgres"]
      /\ \A m \in Names \ {"volume"} : store'[m] = store[m]
      /\ Held(store, "postgres") /\ ~Held(store, "volume") /\ serving' = serving
  BY NamesAre DEF Typed, StartPostgres, Held
<1>2. Typed(store', serving')
  BY <1>1, NamesAre, Singles, StoresAre DEF Typed, Others
<1>3. Fit(store', serving')
  BY <1>1, NamesAre DEF Fit, Held, SameUploader
<1>4. Whole(store) => Whole(store')
  BY <1>1, NamesAre DEF Whole, Held, SamePod
<1>5. Orderly(store, serving, store', serving')
  BY <1>1, NamesAre DEF Orderly, Held, Pods
<1> QED BY <1>2, <1>3, <1>4, <1>5 DEF Evolves

\* The server loads the stored configuration.
LEMMA StartObjectServerEvolves ==
    ASSUME Typed(store, serving), Fit(store, serving), losses = 0 => Whole(store),
           StartObjectServer
    PROVE  Evolves(store', serving')
<1>1. /\ store' = store /\ serving' = store["server"] /\ Held(store, "server")
      /\ store["objectServer"] = Present
  BY DEF StartObjectServer, Held
<1>2. Typed(store', serving') /\ Fit(store', serving')
  BY <1>1, NamesAre DEF Typed, Fit
<1>3. Orderly(store, serving, store', serving')
  BY <1>1 DEF Orderly
<1> QED BY <1>1, <1>2, <1>3 DEF Evolves

\* The Pod is started with the stored credentials.
LEMMA StartControlPlaneEvolves ==
    ASSUME Typed(store, serving), Fit(store, serving), losses = 0 => Whole(store),
           StartControlPlane
    PROVE  Evolves(store', serving')
<1> DEFINE p == Join(store["runtime"], store["authentication"])
<1>1. /\ DOMAIN store' = Names /\ store'["controlPlane"] = p
      /\ \A m \in Names \ {"controlPlane"} : store'[m] = store[m]
      /\ Held(store, "runtime") /\ Held(store, "authentication") /\ serving' = serving
  BY NamesAre DEF Typed, StartControlPlane, Held, Join
<1>2. /\ p \in Stores("controlPlane")
      /\ \A i \in 1..2 : p[i] = store["runtime"][i]
  <2>1. store["runtime"] \in [1..2 -> Nat] /\ store["authentication"] \in Single
    BY <1>1, NamesAre, StoresAre DEF Typed, Held
  <2> QED BY <2>1, Started, StoresAre
<1> HIDE DEF p
<1>3. Typed(store', serving')
  BY <1>1, <1>2, NamesAre DEF Typed, Others
<1>4. Fit(store', serving')
  BY <1>1, NamesAre DEF Fit, Held, SameUploader
<1>5. Whole(store) => Whole(store')
  BY <1>1, <1>2, NamesAre DEF Whole, Held, SamePod
<1>6. Orderly(store, serving, store', serving')
  BY <1>1, <1>2, NamesAre DEF Orderly, Held, Pods
<1> QED BY <1>3, <1>4, <1>5, <1>6 DEF Evolves

\* Argo CD deploys a group: the servers with their claims, or the release's objects.
LEMMA ReconcileEvolves ==
    ASSUME Typed(store, serving), Fit(store, serving), losses = 0 => Whole(store), Reconcile
    PROVE  Evolves(store', serving')
<1>1. PICK group \in {Servers, Release} :
          store' = [n \in Names |-> IF n \in group \/ (n = "objects" /\ group = Servers)
                                    THEN Present ELSE store[n]]
  BY DEF Reconcile
<1>2. Held(store, "applications") /\ serving' = serving
  BY DEF Reconcile, Held
<1>3. CASE group = Servers
  <2>1. /\ DOMAIN store' = Names /\ store'["postgresServer"] = Present
        /\ store'["objectServer"] = Present /\ store'["objects"] = Present
        /\ \A m \in Names \ {"postgresServer", "objectServer", "objects"} : store'[m] = store[m]
    BY <1>1, <1>3, NamesAre DEF Servers
  <2>2. Typed(store', serving')
    BY <1>2, <2>1, NamesAre, Singles, StoresAre DEF Typed, Others
  <2>3. Fit(store', serving')
    BY <1>2, <2>1, NamesAre, Singles DEF Fit, Held, SameUploader
  <2>4. Whole(store) => Whole(store')
    BY <1>2, <2>1, NamesAre DEF Whole, Held, SamePod
  <2>5. Orderly(store, serving, store', serving')
    BY <1>2, <2>1, NamesAre DEF Orderly, Held, Pods, Typed
  <2> QED BY <2>2, <2>3, <2>4, <2>5 DEF Evolves
<1>4. CASE group = Release
  <2>1. Release # Servers
    BY DEF Release, Servers
  <2>2. /\ DOMAIN store' = Names /\ store'["runtimeConfig"] = Present
        /\ store'["registryConfig"] = Present /\ store'["authority"] = Present
        /\ \A m \in Names \ {"runtimeConfig", "registryConfig", "authority"} :
               store'[m] = store[m]
    BY <1>1, <1>4, <2>1, NamesAre DEF Release
  <2>3. Typed(store', serving')
    BY <1>2, <2>2, NamesAre, Singles, StoresAre DEF Typed, Others
  <2>4. Fit(store', serving')
    BY <1>2, <2>2, NamesAre DEF Fit, Held, SameUploader
  <2>5. Whole(store) => Whole(store')
    BY <1>2, <2>2, NamesAre DEF Whole, Held, SamePod
  <2>6. Orderly(store, serving, store', serving')
    BY <1>2, <2>2, NamesAre DEF Orderly, Held, Pods, Typed, Others
  <2> QED BY <2>3, <2>4, <2>5, <2>6 DEF Evolves
<1> QED BY <1>1, <1>3, <1>4

\* A late creation is carried out, or fails on what is there.
LEMMA CarryOutEvolves ==
    ASSUME Typed(store, serving), Fit(store, serving), losses = 0 => Whole(store),
           NEW w, Sound(w[1], w[2], store, serving), CarryOut(w)
    PROVE  Evolves(store', serving')
<1>1. serving' = serving
  BY DEF CarryOut
<1>2. CASE Creatable(w[1])
  <2>1. store' = Stored(w[1], w[2])
    BY <1>2 DEF CarryOut
  <2> QED BY <1>1, <1>2, <2>1, CreationEvolves
<1>3. CASE ~Creatable(w[1])
  <2>1. store' = store
    BY <1>3 DEF CarryOut
  <2> QED BY <1>1, <2>1, Unchanged
<1> QED BY <1>2, <1>3

-----------------------------------------------------------------------------
(* The actions of a script keep the invariant. *)

\* In which order a stage reads what shows that its credential was in use.
LEMMA ReadingOrder ==
    /\ Len(Stage["postgres"].reads) = 3 /\ Stage["postgres"].reads[2] = "volume"
    /\ Len(Stage["credentials"].reads) = 5 /\ Stage["credentials"].reads[3] = "server"
    /\ Stage["credentials"].reads[5] = "objectServer"
    /\ Stage["postgres"].reads[3] # "volume" /\ Stage["credentials"].reads[4] # "server"
    /\ Stage["credentials"].reads[5] # "server"
    /\ Len(Stage["identities"].reads) = 2 /\ Stage["identities"].reads[2] = "roles"
    /\ "volume" \in Read["postgres"] /\ "server" \in Read["credentials"]
<1>1. /\ Stage["postgres"].reads = <<"postgres", "volume", "postgresServer">>
      /\ Stage["credentials"].reads = <<"bootstrap", "uploader", "server", "executor",
                                        "objectServer">>
      /\ Stage["identities"].reads = <<"database", "roles">>
  BY DEF Stage, PostgresStage, CredentialsStage, IdentitiesStage
<1>2. "volume" \in Read["postgres"] /\ "server" \in Read["credentials"]
  BY RowsOfReadsHold DEF RowsOfReads
<1> QED BY <1>1, <1>2

\* One more object has been read; after the last one the stage can decide.
LEMMA ReadingSees ==
    ASSUME Typed(store, serving), Fit(store, serving),
           NEW st \in ReadStages, NEW m \in Nat, m < Len(Stage[st].reads),
           NEW f, Seen(st, m, f, store)
    PROVE  LET n == Stage[st].reads[m + 1]
               g == [f EXCEPT ![n] = store[n]] IN
           /\ Seen(st, m + 1, g, store)
           /\ m + 1 = Len(Stage[st].reads) => Known(st, g, store, serving)
<1> DEFINE n == Stage[st].reads[m + 1]
           g == [f EXCEPT ![n] = store[n]]
<1>1. Len(Stage[st].reads) \in Nat /\ n \in Read[st] /\ Read[st] \subseteq Names
  BY StagesWithReads
<1>2. /\ g = [k \in Read[st] |-> g[k]] /\ g[n] = store[n]
      /\ \A k \in Read[st] \ {n} : g[k] = f[k]
  BY <1>1 DEF Seen
<1> HIDE DEF g
<1>3. \A k \in Read[st] : g[k] \in {Absent} \cup Stores(k)
  BY <1>1, <1>2 DEF Seen, Typed
<1>4. \A k \in Read[st] \ (Pods \cup {"objectServer"}) : g[k] # Absent => store[k] = g[k]
  BY <1>1, <1>2 DEF Seen
<1>5. ASSUME st = "postgres", 2 <= m + 1, g["volume"] = Absent PROVE FreeVolume(store)
  <2>1. CASE m = 1
    <3>1. n = "volume"
      BY <1>5, <2>1, ReadingOrder
    <3> QED BY <3>1, <1>2, <1>5 DEF FreeVolume, Held
  <2>2. CASE 2 <= m
    <3>1. m = 2 /\ n # "volume" /\ "volume" \in Read[st]
      BY <1>5, <2>2, ReadingOrder
    <3>2. f["volume"] = Absent
      BY <3>1, <1>2, <1>5
    <3> QED BY <3>2, <2>2, <1>5 DEF Seen
  <2> QED BY <2>1, <2>2, <1>5
<1>6. ASSUME st = "credentials", 3 <= m + 1, g["server"] = Absent PROVE FreeServer(store)
  <2>1. CASE m = 2
    <3>1. n = "server"
      BY <1>6, <2>1, ReadingOrder
    <3> QED BY <3>1, <1>2, <1>6 DEF FreeServer, Held
  <2>2. CASE 3 <= m
    <3>1. (m = 3 \/ m = 4) /\ "server" \in Read[st]
      BY <1>6, <2>2, ReadingOrder
    <3>2. n # "server"
      BY <1>6, <3>1, ReadingOrder
    <3>3. f["server"] = Absent
      BY <3>1, <3>2, <1>2, <1>6
    <3> QED BY <3>3, <2>2, <1>6 DEF Seen
  <2> QED BY <2>1, <2>2, <1>6
<1>7. Seen(st, m + 1, g, store)
  BY <1>2, <1>3, <1>4, <1>5, <1>6 DEF Seen
<1>8. ASSUME m + 1 = Len(Stage[st].reads) PROVE Known(st, g, store, serving)
  <2>1. st = "postgres" /\ g["volume"] = Absent => FreeVolume(store)
    <3> SUFFICES ASSUME st = "postgres" PROVE 2 <= m + 1
      BY <1>5
    <3> QED BY <1>8, ReadingOrder
  <2>2. st = "credentials" /\ g["server"] = Absent => FreeServer(store)
    <3> SUFFICES ASSUME st = "credentials" PROVE 3 <= m + 1
      BY <1>6
    <3> QED BY <1>8, ReadingOrder
  <2>3. st = "credentials" /\ g["objectServer"] \in {Absent, Legacy} => serving = Absent
    <3> SUFFICES ASSUME st = "credentials", g["objectServer"] \in {Absent, Legacy}
                 PROVE  serving = Absent
      OBVIOUS
    <3>1. n = "objectServer"
      BY <1>8, ReadingOrder
    <3>2. store["objectServer"] # Present
      BY <3>1, <1>2, Singles
    <3> QED BY <3>2 DEF Fit
  <2>4. st = "identities" /\ g["roles"] = Absent => FreeRoles(store)
    <3> SUFFICES ASSUME st = "identities", g["roles"] = Absent PROVE FreeRoles(store)
      OBVIOUS
    <3>1. n = "roles"
      BY <1>8, ReadingOrder
    <3> QED BY <3>1, <1>2 DEF FreeRoles, Held
  <2> QED BY <1>2, <1>3, <1>4, <2>1, <2>2, <2>3, <2>4 DEF Known
<1> QED BY <1>7, <1>8 DEF g

\* The next store and configuration, and the script of the acting operator.
Advances(o) ==
    /\ Evolves(store', serving')
    /\ Running(op'[o], store', serving')
    /\ op' = [op EXCEPT ![o] = op'[o]]
    /\ losses' = losses /\ Counted'

\* Which kind of step a script is at.
LEMMA Phases ==
    ASSUME NEW s, NEW v, NEW r, Running(r, s, v)
    PROVE  /\ r.phase = "idle" => r = Idle
           /\ r.phase = "reading" => IsReading(r, s)
           /\ r.phase = "writing" => IsWriting(r, s, v)
<1>1. IsReading(r, s) => r.phase = "reading"
  <2> SUFFICES ASSUME IsReading(r, s) PROVE r.phase = "reading"
    OBVIOUS
  <2>1. r = [script |-> r.script, phase |-> "reading", call |-> r.call, read |-> r.read,
             seen |-> r.seen, expected |-> <<>>, writes |-> {}]
    BY DEF IsReading
  <2> QED BY <2>1
<1>2. IsWriting(r, s, v) => r.phase = "writing"
  <2> SUFFICES ASSUME IsWriting(r, s, v) PROVE r.phase = "writing"
    OBVIOUS
  <2>1. r = [script |-> r.script, phase |-> "writing", call |-> r.call, read |-> 0,
             seen |-> <<>>, expected |-> r.expected, writes |-> r.writes]
    BY DEF IsWriting
  <2> QED BY <2>1
<1>3. Idle.phase = "idle"
  BY DEF Idle
<1> QED BY <1>1, <1>2, <1>3 DEF Running

\* A script that is reading has nothing to create.
LEMMA ReadersCreateNothing ==
    ASSUME NEW s, NEW r, IsReading(r, s)
    PROVE  r.writes = {}
<1>1. r = [script |-> r.script, phase |-> "reading", call |-> r.call, read |-> r.read,
           seen |-> r.seen, expected |-> <<>>, writes |-> {}]
  BY DEF IsReading
<1> QED BY <1>1

\* A script that has read one object more.
LEMMA ReadsOn ==
    ASSUME NEW r, NEW k, NEW g,
           r = [script |-> r.script, phase |-> "reading", call |-> r.call, read |-> r.read,
                seen |-> r.seen, expected |-> <<>>, writes |-> {}]
    PROVE  [r EXCEPT !.read = k, !.seen = g]
         = [script |-> r.script, phase |-> "reading", call |-> r.call, read |-> k, seen |-> g,
            expected |-> <<>>, writes |-> {}]
<1>1. PICK a, p, c, m, f, e, w :
          /\ a = r.script /\ p = "reading" /\ c = r.call /\ m = r.read /\ f = r.seen
          /\ e = <<>> /\ w = {}
  OBVIOUS
<1> DEFINE R(j, h) == [script |-> a, phase |-> p, call |-> c, read |-> j, seen |-> h,
                       expected |-> e, writes |-> w]
<1>2. r = R(m, f)
  BY <1>1, Zenon
<1>3. [R(m, f) EXCEPT !.read = k] = R(k, f)
  BY SMT
<1>4. [R(k, f) EXCEPT !.seen = g] = R(k, g)
  BY SMT
<1>5. [r EXCEPT !.read = k, !.seen = g] = R(k, g)
  <2> HIDE DEF R
  <2> QED BY <1>2, <1>3, <1>4, Zenon
<1> QED BY <1>1, <1>5, Zenon

LEMMA BeginAdvances ==
    ASSUME CredentialsInv, NEW o \in Operators, NEW k \in Scripts, Begin(o, k)
    PROVE  Advances(o)
<1>1. Evolves(store', serving')
  BY Unchanged DEF CredentialsInv, Begin
<1>2. op' = [op EXCEPT ![o] = Enter(k, 1)] /\ op'[o] = Enter(k, 1)
  BY DEF CredentialsInv, Begin
<1>3. k \in DOMAIN Script /\ Len(Script[k]) \in Nat \ {0}
  BY ScriptsAssumption, ScriptTable
<1>4. At(k, 1, store')
  BY <1>3 DEF At, Begin, Staged, Held
<1>5. Running(op'[o], store', serving')
  BY <1>2, <1>4, EnterRuns
<1>6. losses' = losses /\ Counted'
  BY BoundsAssumption DEF CredentialsInv, Counted, Begin
<1> QED BY <1>1, <1>2, <1>5, <1>6 DEF Advances

LEMMA ReadingAdvances ==
    ASSUME CredentialsInv, NEW o \in Operators, Reading(o)
    PROVE  Advances(o)
<1> DEFINE r == op[o]
           st == Call(o).stage
           n == Stage[st].reads[r.read + 1]
           g == [r.seen EXCEPT ![n] = store[n]]
           next == Decide(r.script, r.call, g)
<1>1. Evolves(store', serving') /\ store' = store /\ serving' = serving
  BY Unchanged DEF CredentialsInv, Reading
<1>2. IsReading(r, store)
  <2>1. r.phase = "reading" /\ Running(r, store, serving)
    BY DEF CredentialsInv, Reading
  <2> QED BY <2>1, Phases
<1>3. /\ At(r.script, r.call, store) /\ Call(o) = Script[r.script][r.call]
      /\ r.read \in Nat /\ r.read < Len(Stage[st].reads) /\ Seen(st, r.read, r.seen, store)
      /\ r = [script |-> r.script, phase |-> "reading", call |-> r.call, read |-> r.read,
              seen |-> r.seen, expected |-> <<>>, writes |-> {}]
  BY <1>2 DEF IsReading, Call
<1>4. st \in ReadStages
  <2>1. /\ At(r.script, r.call, store) /\ Call(o) = Script[r.script][r.call]
        /\ r.read \in Nat /\ r.read < Len(Stage[st].reads)
    BY <1>3
  <2>2. st \in DOMAIN Stage
    BY <2>1, CallIsTyped
  <2> HIDE DEF r, st
  <2> QED BY <2>1, <2>2, StagesThatRead
<1>5. /\ Seen(st, r.read + 1, g, store)
      /\ r.read + 1 = Len(Stage[st].reads) => Known(st, g, store, serving)
  BY <1>3, <1>4, ReadingSees DEF CredentialsInv
<1>6. op = [p \in Operators |-> op[p]]
  BY DEF CredentialsInv
<1>7. CASE r.read + 1 = Len(Stage[st].reads)
  <2>1. op' = [op EXCEPT ![o] = next] /\ op'[o] = next
    BY <1>6, <1>7 DEF Reading
  <2>2. Running(next, store, serving)
    BY <1>3, <1>4, <1>5, <1>7, DecideRuns DEF CredentialsInv, Counted
  <2>3. Counted' /\ losses' = losses
    <3>1. minted' = [m \in Fresh |-> IF m \in DOMAIN next.expected /\ g[m] = Absent
                                     THEN minted[m] + 1 ELSE minted[m]]
      BY <1>7 DEF Reading
    <3>2. minted \in [Fresh -> Nat]
      BY DEF CredentialsInv, Counted
    <3> HIDE DEF g, next
    <3>3. minted' \in [Fresh -> Nat]
      BY <3>1, <3>2
    <3> QED BY <3>3 DEF Reading, CredentialsInv, Counted
  <2> QED BY <1>1, <2>1, <2>2, <2>3 DEF Advances
<1>8. CASE r.read + 1 # Len(Stage[st].reads)
  <2> DEFINE q == [script |-> r.script, phase |-> "reading", call |-> r.call,
                   read |-> r.read + 1, seen |-> g, expected |-> <<>>, writes |-> {}]
  <2>1. op' = [op EXCEPT ![o] = q] /\ op'[o] = q
    <3>1. op' = [op EXCEPT ![o].read = @ + 1, ![o].seen = g]
      BY <1>8 DEF Reading
    <3>2. op' = [op EXCEPT ![o] = [r EXCEPT !.read = r.read + 1, !.seen = g]]
      BY <3>1, <1>6
    <3>3. [r EXCEPT !.read = r.read + 1, !.seen = g] = q
      <4>1. r = [script |-> r.script, phase |-> "reading", call |-> r.call, read |-> r.read,
                 seen |-> r.seen, expected |-> <<>>, writes |-> {}]
        BY <1>3
      <4> HIDE DEF g, r
      <4> QED BY <4>1, ReadsOn, Zenon
    <3>6. op' = [op EXCEPT ![o] = q]
      BY <3>2, <3>3, Zenon
    <3> QED BY <3>6, <1>6
  <2>2. r.read + 1 < Len(Stage[st].reads)
    <3>1. Len(Stage[st].reads) \in Nat
      BY <1>4, StagesWithReads
    <3>2. r.read \in Nat /\ r.read < Len(Stage[st].reads)
      BY <1>3
    <3> HIDE DEF r, st
    <3> QED BY <3>1, <3>2, <1>8
  <2>3. IsReading(q, store)
    <3> HIDE DEF g
    <3>0. r.read \in Nat
      BY <1>3
    <3>1. /\ q.script = r.script /\ q.call = r.call /\ q.read = r.read + 1 /\ q.seen = g
          /\ q.read \in Nat
      <4> HIDE DEF r
      <4> QED BY <3>0
    <3>2. st = Script[q.script][q.call].stage
      BY <3>1, <1>3
    <3> HIDE DEF q, st
    <3>3. q = [script |-> q.script, phase |-> "reading", call |-> q.call, read |-> q.read,
               seen |-> q.seen, expected |-> <<>>, writes |-> {}]
      BY <3>1 DEF q
    <3> QED BY <1>3, <1>5, <2>2, <3>1, <3>2, <3>3 DEF IsReading
  <2>4. Counted' /\ losses' = losses
    BY <1>8 DEF Reading, CredentialsInv, Counted
  <2> QED BY <1>1, <2>1, <2>3, <2>4 DEF Advances, Running
<1> QED BY <1>7, <1>8

\* A script that has one object less to create.
LEMMA WritesOn ==
    ASSUME NEW r, NEW k,
           r = [script |-> r.script, phase |-> "writing", call |-> r.call, read |-> 0,
                seen |-> <<>>, expected |-> r.expected, writes |-> r.writes]
    PROVE  [r EXCEPT !.writes = k]
         = [script |-> r.script, phase |-> "writing", call |-> r.call, read |-> 0,
            seen |-> <<>>, expected |-> r.expected, writes |-> k]
<1>1. PICK a, p, c, m, f, e, w :
          /\ a = r.script /\ p = "writing" /\ c = r.call /\ m = 0 /\ f = <<>>
          /\ e = r.expected /\ w = r.writes
  OBVIOUS
<1> DEFINE R(h) == [script |-> a, phase |-> p, call |-> c, read |-> m, seen |-> f,
                    expected |-> e, writes |-> h]
<1>2. r = R(w)
  BY <1>1, Zenon
<1>3. [R(w) EXCEPT !.writes = k] = R(k)
  BY SMT
<1>4. [r EXCEPT !.writes = k] = R(k)
  <2> HIDE DEF R
  <2> QED BY <1>2, <1>3, Zenon
<1> QED BY <1>1, <1>4, Zenon

LEMMA CreateAdvances ==
    ASSUME CredentialsInv, NEW o \in Operators, Create(o)
    PROVE  Advances(o)
<1> DEFINE r == op[o]
           st == Call(o).stage
<1>1. IsWriting(r, store, serving)
  <2>1. r.phase = "writing" /\ Running(r, store, serving)
    BY DEF CredentialsInv, Create
  <2> QED BY <2>1, Phases
<1>2. /\ At(r.script, r.call, store) /\ Call(o) = Script[r.script][r.call]
      /\ Decided(st, r.expected, store) /\ Pending(st, r.expected, r.writes, store, serving)
      /\ ~Call(o).create => r.writes = {}
      /\ r = [script |-> r.script, phase |-> "writing", call |-> r.call, read |-> 0,
              seen |-> <<>>, expected |-> r.expected, writes |-> r.writes]
  BY <1>1 DEF IsWriting, Call
<1>3. st \in DOMAIN Stage
  <2>1. At(r.script, r.call, store) /\ Call(o) = Script[r.script][r.call]
    BY <1>2
  <2> QED BY <2>1, CallIsTyped
<1>4. PICK n \in Due(o) : /\ Creatable(n) /\ store' = Stored(n, r.expected[n])
                          /\ op' = [op EXCEPT ![o].writes = @ \ {n}]
                          /\ serving' = serving /\ losses' = losses
                          /\ runs' = runs /\ minted' = minted
  BY DEF Create
<1>5. n \in r.writes /\ n \in Owned[st] /\ Sound(n, r.expected[n], store, serving)
  BY <1>1, DueIsSound
<1>6. Evolves(store', serving')
  BY <1>4, <1>5, CreationEvolves DEF CredentialsInv
<1>7. Typed(store, serving) /\ Typed(store', serving') /\ Orderly(store, serving, store', serving')
  BY <1>6 DEF Evolves, CredentialsInv
<1>8. Decided(st, r.expected, store') /\ Pending(st, r.expected, r.writes, store', serving')
  BY <1>2, <1>3, <1>7, DecidedStays
<1>9. store'[n] = r.expected[n]
  <2>1. n \in Names \ {"objects"}
    BY <1>3, <1>5, OwnedAreNames DEF Volumes
  <2> QED BY <2>1, <1>4, <1>7, StoredIs DEF Typed
<1> DEFINE ws == r.writes \ {n}
           q == [script |-> r.script, phase |-> "writing", call |-> r.call, read |-> 0,
                 seen |-> <<>>, expected |-> r.expected, writes |-> ws]
<1>10. Pending(st, r.expected, ws, store', serving')
  BY <1>8, <1>9 DEF Pending
<1>11. op' = [op EXCEPT ![o] = q] /\ op'[o] = q
  <2>1. op = [p \in Operators |-> op[p]]
    BY DEF CredentialsInv
  <2>2. op' = [op EXCEPT ![o] = [r EXCEPT !.writes = ws]]
    BY <1>4, <2>1
  <2>3. [r EXCEPT !.writes = ws] = q
    <3> HIDE DEF r, ws
    <3> QED BY <1>2, WritesOn, Zenon
  <2>4. op' = [op EXCEPT ![o] = q]
    BY <2>2, <2>3, Zenon
  <2> QED BY <2>1, <2>4
<1>12. IsWriting(q, store', serving')
  <2>1. /\ q.script = r.script /\ q.call = r.call /\ q.expected = r.expected /\ q.writes = ws
        /\ st = Script[q.script][q.call].stage /\ Call(o) = Script[q.script][q.call]
    BY <1>2
  <2>2. At(r.script, r.call, store')
    BY <1>2, <1>7, AtStays
  <2>3. ~Call(o).create => ws = {}
    BY <1>2
  <2>4. q = [script |-> q.script, phase |-> "writing", call |-> q.call, read |-> 0,
             seen |-> <<>>, expected |-> q.expected, writes |-> q.writes]
    BY <2>1
  <2> HIDE DEF q, ws
  <2> QED BY <1>8, <1>10, <2>1, <2>2, <2>3, <2>4 DEF IsWriting
<1>13. Counted'
  BY <1>4 DEF CredentialsInv, Counted
<1> QED BY <1>4, <1>6, <1>11, <1>12, <1>13 DEF Advances, Running

\* A stage with nothing left to create has been gone through.
LEMMA DonePasses ==
    ASSUME NEW s, NEW v, NEW st \in DOMAIN Stage, NEW e,
           Decided(st, e, s), Pending(st, e, {}, s, v), st # "restart"
    PROVE  Passed(st, s)
<1>1. ASSUME NEW n \in Owned[st] PROVE s[n] = e[n] /\ Held(s, n)
  <2>1. s[n] = e[n] /\ e[n] \in Stores(n) /\ n \in Names
    BY OwnedAreNames DEF Pending, Decided
  <2> QED BY <2>1, NothingIsAbsent DEF Held
<1>2. st = "credentials" => s["executor"] = s["uploader"]
  BY <1>1, RowsOfOwnsHold DEF RowsOfOwns, Decided
<1>3. st = "identities" => s["roles"] = s["database"]
  BY <1>1, RowsOfOwnsHold DEF RowsOfOwns, Decided
<1>4. st = "runtime" => /\ Held(s, "database") /\ Held(s, "uploader")
                        /\ s["runtime"] = Join(s["database"], s["uploader"])
  BY <1>1, RowsOfOwnsHold DEF RowsOfOwns, Decided
<1> QED BY <1>1, <1>2, <1>3, <1>4 DEF Passed

LEMMA ConfirmAdvances ==
    ASSUME CredentialsInv, NEW o \in Operators, Confirm(o)
    PROVE  Advances(o)
<1> DEFINE r == op[o]
           key == r.script
           i == r.call
           st == Call(o).stage
<1>1. IsWriting(r, store, serving) /\ r.writes = {}
  <2>1. r.phase = "writing" /\ Running(r, store, serving) /\ r.writes = {}
    BY DEF CredentialsInv, Confirm
  <2> QED BY <2>1, Phases
<1>2. /\ At(key, i, store) /\ Call(o) = Script[key][i]
      /\ Decided(st, r.expected, store) /\ Pending(st, r.expected, {}, store, serving)
  BY <1>1 DEF IsWriting, Call
<1>3. /\ st \in DOMAIN Stage /\ key \in DOMAIN Script /\ i \in 1..Len(Script[key])
      /\ Len(Script[key]) \in Nat /\ Ordered(Script[key], i, key)
  BY <1>2, CallIsTyped
<1>4. /\ store' = CASE st = "submit" -> Stored("run", Present)
                    [] st = "restart" -> Stored("controlPlane", Absent)
                    [] OTHER -> store
      /\ serving' = serving
  BY DEF Confirm
<1>5. Evolves(store', serving')
  <2> USE DEF CredentialsInv
  <2>1. CASE st = "submit"
    BY <1>4, <2>1, RunEvolves
  <2>2. CASE st = "restart"
    BY <1>4, <2>2, RestartEvolves
  <2>3. CASE st \notin {"submit", "restart"}
    BY <1>4, <2>3, Unchanged
  <2> QED BY <2>1, <2>2, <2>3
<1>6. Typed(store, serving) /\ Orderly(store, serving, store', serving')
  BY <1>5 DEF Evolves, CredentialsInv
<1>7. Passed(st, store')
  <2>1. CASE st # "restart"
    <3>1. Passed(st, store)
      BY <1>2, <1>3, <2>1, DonePasses
    <3> QED BY <3>1, <1>3, <1>6, PassedStays
  <2>2. CASE st = "restart"
    <3>1. 4 < i /\ Script[key][4].stage = "runtime"
      BY <1>2, <1>3, <2>2 DEF Ordered
    <3>2. Passed("runtime", store)
      BY <3>1, <1>2, <1>3 DEF At
    <3>3. Held(store, "runtime") /\ Owned["restart"] = {}
      BY <3>2, RowsOfOwnsHold, OwnedWithoutReads DEF Passed, RowsOfOwns, OtherStages
    <3>4. store'["controlPlane"] = Absent /\ store'["runtime"] = store["runtime"]
      BY <1>4, <1>6, <2>2, StoredIs, NamesAre DEF Typed
    <3> QED BY <2>2, <3>3, <3>4 DEF Passed, Held
  <2> QED BY <2>1, <2>2
<1>8. At(key, i, store')
  BY <1>2, <1>6, AtStays
<1>9. op = [p \in Operators |-> op[p]]
  BY DEF CredentialsInv
<1> DEFINE q == IF i = Len(Script[key]) THEN Idle ELSE Enter(key, i + 1)
<1>10. op' = [op EXCEPT ![o] = q] /\ op'[o] = q
  <2>1. op' = [op EXCEPT ![o] = q]
    BY DEF Confirm
  <2> HIDE DEF q
  <2> QED BY <2>1, <1>9
<1>11. Running(q, store', serving')
  <2>1. CASE i = Len(Script[key])
    BY <2>1 DEF Running
  <2>2. CASE i # Len(Script[key])
    <3>1. i + 1 \in 1..Len(Script[key])
      BY <1>3, <2>2
    <3>2. ASSUME NEW j \in 1..((i + 1) - 1) PROVE Passed(Script[key][j].stage, store')
      <4>1. j \in 1..(i - 1) \/ j = i
        BY <1>3
      <4> QED BY <4>1, <1>2, <1>7, <1>8 DEF At
    <3>3. At(key, i + 1, store')
      BY <3>1, <3>2, <1>8 DEF At
    <3> QED BY <3>3, <2>2, EnterRuns
  <2> QED BY <2>1, <2>2
<1>12. Counted' /\ losses' = losses
  BY DEF Confirm, CredentialsInv, Counted
<1> QED BY <1>5, <1>10, <1>11, <1>12 DEF Advances

\* A request that is under way when its script goes is as sound later on.
LEMMA AbandonAdvances ==
    ASSUME CredentialsInv, NEW o \in Operators, Abandon(o)
    PROVE  /\ Advances(o)
           /\ \A w \in late' : w \in late \/ Sound(w[1], w[2], store', serving')
<1>1. Evolves(store', serving') /\ store' = store /\ serving' = serving
  BY Unchanged DEF CredentialsInv, Abandon
<1>2. op' = [op EXCEPT ![o] = Idle] /\ op'[o] = Idle
  BY DEF CredentialsInv, Abandon
<1>3. Counted' /\ losses' = losses
  BY DEF Abandon, CredentialsInv, Counted
<1>4. Advances(o)
  BY <1>1, <1>2, <1>3 DEF Advances, Running
<1>5. ASSUME NEW n \in Due(o) PROVE Sound(n, op[o].expected[n], store, serving)
  <2>1. n \in op[o].writes
    BY DEF Due
  <2>2. IsWriting(op[o], store, serving)
    <3>1. Running(op[o], store, serving) /\ op[o].phase # "idle"
      BY DEF CredentialsInv, Abandon
    <3>2. CASE IsReading(op[o], store)
      <4>1. op[o].writes = {}
        BY <3>2, ReadersCreateNothing
      <4> QED BY <2>1, <4>1
    <3> QED BY <3>1, <3>2, Phases DEF Running, Idle
  <2> QED BY <2>2, DueIsSound
<1>6. \A w \in late' : w \in late \/ Sound(w[1], w[2], store', serving')
  BY <1>1, <1>5 DEF Abandon
<1> QED BY <1>4, <1>6

-----------------------------------------------------------------------------
(* The invariant. *)

\* A step of a script leaves the other scripts and the pending creations as they were.
LEMMA AdvanceKeeps ==
    ASSUME CredentialsInv, NEW o \in Operators, Advances(o),
           \A w \in late' : w \in late \/ Sound(w[1], w[2], store', serving')
    PROVE  CredentialsInv'
<1>1. /\ Typed(store, serving) /\ Typed(store', serving') /\ Fit(store', serving')
      /\ Orderly(store, serving, store', serving') /\ (losses' = 0 => Whole(store'))
  BY DEF Advances, Evolves, CredentialsInv
<1>2. ASSUME NEW w \in late' PROVE Sound(w[1], w[2], store', serving')
  BY <1>1, SoundStays DEF CredentialsInv
<1>3. op = [p \in Operators |-> op[p]] /\ op' = [op EXCEPT ![o] = op'[o]]
  BY DEF CredentialsInv, Advances
<1>4. op' = [p \in Operators |-> op'[p]]
  BY <1>3
<1>5. ASSUME NEW p \in Operators PROVE Running(op'[p], store', serving')
  <2>1. CASE p = o
    BY <2>1 DEF Advances
  <2>2. CASE p # o
    <3>1. op'[p] = op[p]
      BY <1>3, <2>2
    <3>2. Running(op[p], store', serving')
      BY <1>1, RunningStays DEF CredentialsInv
    <3> QED BY <3>1, <3>2
  <2> QED BY <2>1, <2>2
<1>6. Counted'
  BY DEF Advances
<1> QED BY <1>1, <1>2, <1>4, <1>5, <1>6 DEF CredentialsInv

\* And so does whatever else happens in the cluster.
LEMMA EvolvingKeeps ==
    ASSUME CredentialsInv, Evolves(store', serving'), late' \subseteq late,
           UNCHANGED <<minted, runs, losses, op>>
    PROVE  CredentialsInv'
<1>1. /\ Typed(store, serving) /\ Typed(store', serving') /\ Fit(store', serving')
      /\ Orderly(store, serving, store', serving') /\ (losses' = 0 => Whole(store'))
  BY DEF Evolves, CredentialsInv
<1>2. ASSUME NEW w \in late' PROVE Sound(w[1], w[2], store', serving')
  BY <1>1, SoundStays DEF CredentialsInv
<1>3. ASSUME NEW p \in Operators PROVE Running(op'[p], store', serving')
  BY <1>1, RunningStays DEF CredentialsInv
<1>4. op' = [p \in Operators |-> op'[p]]
  BY DEF CredentialsInv
<1>5. Counted'
  BY DEF CredentialsInv, Counted
<1> QED BY <1>1, <1>2, <1>3, <1>4, <1>5 DEF CredentialsInv

\* Nothing is lost while a script runs or a creation is pending; what remains fits.
LEMMA LoseKeeps ==
    ASSUME CredentialsInv, NEW n \in Losable, Lose(n)
    PROVE  CredentialsInv'
<1>1. n \in Names \ {"volume", "objects"}
  BY NamesAre DEF Losable, Fresh, Servers, Pods
<1>2. /\ DOMAIN store' = Names /\ store'[n] = Absent
      /\ \A m \in Names \ {n} : store'[m] = store[m]
      /\ serving' = IF n = "objectServer" THEN Absent ELSE serving
  BY <1>1 DEF CredentialsInv, Typed, Lose
<1>3. late' = {} /\ op' = op /\ losses' = losses + 1 /\ minted' = minted /\ runs' = runs
  BY DEF Lose, Quiescent
<1>4. ASSUME NEW o \in Operators PROVE op'[o] = Idle
  <2>1. op[o].phase = "idle" /\ Running(op[o], store, serving)
    BY DEF Lose, Quiescent, CredentialsInv
  <2> QED BY <1>3, <2>1, Phases
<1>5. Typed(store', serving')
  <2>1. Typed(store, serving)
    BY DEF CredentialsInv
  <2>2. \A m \in Names : store'[m] \in {Absent} \cup Stores(m)
    BY <1>2, <2>1 DEF Typed
  <2>3. \A m \in Others \cup {"postgresServer", "objects", "run"} : store'[m] \in {Absent, Present}
    BY <1>2, <2>1, NamesAre DEF Typed, Others
  <2>4. store'["objectServer"] \in {Absent, Legacy, Present}
    BY <1>2, <2>1, NamesAre DEF Typed
  <2> QED BY <1>2, <2>1, <2>2, <2>3, <2>4 DEF Typed
<1>6. Fit(store', serving')
  <2> USE <1>1, <1>2, NamesAre DEF Held, SameUploader
  <2>1. Fit(store, serving)
    BY DEF CredentialsInv
  <2>2. Held(store', "postgres") /\ Held(store', "volume") => store'["postgres"] = store'["volume"]
    BY <2>1 DEF Fit
  <2>3. Held(store', "database") /\ Held(store', "roles") => store'["database"] = store'["roles"]
    BY <2>1 DEF Fit
  <2>4. Held(store', "server") => SameUploader(store', store'["server"])
    BY <2>1 DEF Fit
  <2>5. serving' # Absent => SameUploader(store', serving') /\ store'["objectServer"] = Present
    BY <2>1 DEF Fit
  <2>6. Held(store', "objectServer") => Held(store', "objects")
    BY <2>1 DEF Fit
  <2> QED BY <2>2, <2>3, <2>4, <2>5, <2>6 DEF Fit
<1>7. Counted' /\ losses' # 0
  BY <1>3, BoundsAssumption DEF CredentialsInv, Counted, Lose
<1>8. op' = [p \in Operators |-> op'[p]]
  BY <1>3 DEF CredentialsInv
<1> QED BY <1>3, <1>4, <1>5, <1>6, <1>7, <1>8 DEF CredentialsInv, Running

LEMMA WorldKeeps ==
    ASSUME CredentialsInv, World
    PROVE  CredentialsInv'
<1>1. Typed(store, serving) /\ Fit(store, serving) /\ (losses = 0 => Whole(store))
  BY DEF CredentialsInv
<1>2. CASE SyncRoot
  <2>1. Evolves(store', serving')
    BY <1>1, <1>2, SyncRootEvolves
  <2> QED BY <2>1, <1>2, EvolvingKeeps DEF SyncRoot
<1>3. CASE Reconcile
  <2>1. Evolves(store', serving')
    BY <1>1, <1>3, ReconcileEvolves
  <2> QED BY <2>1, <1>3, EvolvingKeeps DEF Reconcile
<1>4. CASE StartPostgres
  <2>1. Evolves(store', serving')
    BY <1>1, <1>4, StartPostgresEvolves
  <2> QED BY <2>1, <1>4, EvolvingKeeps DEF StartPostgres
<1>5. CASE StartObjectServer
  <2>1. Evolves(store', serving')
    BY <1>1, <1>5, StartObjectServerEvolves
  <2> QED BY <2>1, <1>5, EvolvingKeeps DEF StartObjectServer
<1>6. CASE Migrate
  <2>1. Evolves(store', serving')
    BY <1>1, <1>6, MigrateEvolves
  <2> QED BY <2>1, <1>6, EvolvingKeeps DEF Migrate
<1>7. CASE StartControlPlane
  <2>1. Evolves(store', serving')
    BY <1>1, <1>7, StartControlPlaneEvolves
  <2> QED BY <2>1, <1>7, EvolvingKeeps DEF StartControlPlane
<1>8. CASE \E n \in Losable : Lose(n)
  BY <1>8, LoseKeeps
<1>9. CASE \E w \in late : CarryOut(w)
  <2>1. PICK w \in late : CarryOut(w)
    BY <1>9
  <2>2. Sound(w[1], w[2], store, serving)
    BY DEF CredentialsInv
  <2>3. Evolves(store', serving')
    BY <1>1, <2>1, <2>2, CarryOutEvolves
  <2> QED BY <2>1, <2>3, EvolvingKeeps DEF CarryOut
<1> QED BY <1>2, <1>3, <1>4, <1>5, <1>6, <1>7, <1>8, <1>9 DEF World

LEMMA StepKeeps ==
    ASSUME CredentialsInv, NEW o \in Operators, Step(o)
    PROVE  CredentialsInv'
<1>1. CASE \E s \in Scripts : Begin(o, s)
  <2>1. PICK s \in Scripts : Begin(o, s)
    BY <1>1
  <2>2. Advances(o) /\ late' = late
    BY <2>1, BeginAdvances DEF Begin
  <2> QED BY <2>2, AdvanceKeeps
<1>2. CASE Reading(o)
  <2>1. Advances(o) /\ late' = late
    BY <1>2, ReadingAdvances DEF Reading
  <2> QED BY <2>1, AdvanceKeeps
<1>3. CASE Create(o)
  <2>1. Advances(o) /\ late' = late
    BY <1>3, CreateAdvances DEF Create
  <2> QED BY <2>1, AdvanceKeeps
<1>4. CASE Confirm(o)
  <2>1. Advances(o) /\ late' = late
    BY <1>4, ConfirmAdvances DEF Confirm
  <2> QED BY <2>1, AdvanceKeeps
<1>5. CASE Abandon(o)
  BY <1>5, AbandonAdvances, AdvanceKeeps
<1> QED BY <1>1, <1>2, <1>3, <1>4, <1>5 DEF Step

\* The clusters that the scripts may find.
LEMMA InitialStores ==
    /\ \A n \in Names : Empty[n] = Absent
    /\ BeforeRestriction["bootstrap"] = Present /\ BeforeRestriction["objectServer"] = Legacy
    /\ BeforeRestriction["objects"] = Present
    /\ \A n \in Names \ {"bootstrap", "objectServer", "objects"} : BeforeRestriction[n] = Absent
    /\ Provisioned["server"] = <<1, 1>> /\ Provisioned["runtime"] = <<1, 1>>
    /\ Provisioned["controlPlane"] = <<1, 1, 1>>
    /\ \A n \in Names \ {"server", "runtime", "controlPlane"} : Provisioned[n] = Present
    /\ \A n \in {"postgres", "bootstrap", "uploader", "server", "executor", "repository", "root"} :
           Foundation[n] = Provisioned[n]
    /\ \A n \in Names \ {"postgres", "bootstrap", "uploader", "server", "executor", "repository",
                         "root"} : Foundation[n] = Absent
    /\ DOMAIN Empty = Names /\ DOMAIN BeforeRestriction = Names
    /\ DOMAIN Provisioned = Names /\ DOMAIN Foundation = Names
BY NamesAre DEF Empty, BeforeRestriction, Provisioned, Shared, Foundation, Present

LEMMA InitialGenerations ==
    /\ <<1, 1>> \in [1..2 -> Nat] /\ <<1, 1, 1>> \in [1..3 -> Nat]
    /\ <<1, 1>> # Absent /\ <<1, 1, 1>> # Absent
    /\ <<1, 1>> = Join(Present, Present) /\ Present = <<<<1, 1>>[2]>>
    /\ \A i \in 1..2 : <<1, 1, 1>>[i] = <<1, 1>>[i]
BY DEF Absent, Present, Join

LEMMA InitiallyHolds == Init => CredentialsInv
<1> SUFFICES ASSUME Init PROVE CredentialsInv
  OBVIOUS
<1>1. Counted
  BY BoundsAssumption DEF Init, Counted
<1>2. late = {} /\ op = [o \in Operators |-> Idle] /\ losses = 0
  BY DEF Init
<1>3. serving = IF store["objectServer"] = Present THEN store["server"] ELSE Absent
  BY DEF Init
<1>4. Typed(store, serving) /\ Fit(store, serving) /\ Whole(store)
  <2> USE InitialStores, InitialGenerations, Singles, NamesAre, StoresAre
  <2>1. CASE store = Empty
    <3>1. serving = Absent
      BY <1>3, <2>1
    <3>2. Typed(store, serving)
      BY <2>1, <3>1 DEF Typed, Others
    <3>3. Fit(store, serving)
      BY <2>1, <3>1 DEF Fit, Held
    <3>4. Whole(store)
      BY <2>1 DEF Whole, Held
    <3> QED BY <3>2, <3>3, <3>4
  <2>2. CASE store = BeforeRestriction
    <3>1. serving = Absent
      BY <1>3, <2>2
    <3>2. Typed(store, serving)
      BY <2>2, <3>1 DEF Typed, Others
    <3>3. Fit(store, serving)
      BY <2>2, <3>1 DEF Fit, Held
    <3>4. Whole(store)
      BY <2>2 DEF Whole, Held
    <3> QED BY <3>2, <3>3, <3>4
  <2>3. CASE store = Foundation
    <3>1. serving = Absent
      BY <1>3, <2>3
    <3> DEFINE some == {"postgres", "bootstrap", "uploader", "server", "executor", "repository",
                        "root"}
    <3>2. /\ DOMAIN store = Names /\ store["server"] = <<1, 1>>
          /\ \A n \in some \ {"server"} : store[n] = Present
          /\ \A n \in Names \ some : store[n] = Absent
      BY <2>3
    <3>3. Typed(store, serving)
      <4>1. \A n \in Names : store[n] \in {Absent} \cup Stores(n)
        <5>1. \A n \in some \ {"server"} : Present \in Stores(n)
          BY Singles, StoresAre, NamesAre
        <5>2. <<1, 1>> \in Stores("server")
          OBVIOUS
        <5>3. ASSUME NEW n \in Names PROVE store[n] \in {Absent} \cup Stores(n)
          <6>1. CASE n \in some \ {"server"}
            BY <3>2, <5>1, <6>1
          <6>2. CASE n = "server"
            BY <3>2, <5>2, <6>2
          <6>3. CASE n \notin some
            BY <3>2, <6>3
          <6> QED BY <6>1, <6>2, <6>3
        <5> QED BY <5>3
      <4>2. \A n \in Others \cup {"postgresServer", "objects", "run", "objectServer"} :
                store[n] \in {Absent, Present}
        <5>1. Others \cup {"postgresServer", "objects", "run", "objectServer"} \subseteq Names
                  /\ "server" \notin Others
          BY NamesAre DEF Others
        <5> QED BY <3>2, <5>1
      <4> QED BY <3>1, <3>2, <4>1, <4>2 DEF Typed
    <3>4. Fit(store, serving)
      BY <3>1, <3>2 DEF Fit, SameUploader, Held
    <3>5. Whole(store)
      BY <3>2 DEF Whole, Held
    <3> QED BY <3>3, <3>4, <3>5
  <2>4. CASE store = Provisioned
    <3>1. serving = <<1, 1>>
      <4>1. store["objectServer"] = Present /\ store["server"] = <<1, 1>>
        BY <2>4
      <4> QED BY <1>3, <4>1
    <3>2. Typed(store, serving)
      BY <2>4, <3>1 DEF Typed, Others
    <3>3. Fit(store, serving)
      BY <2>4, <3>1 DEF Fit, Held, SameUploader
    <3>4. Whole(store)
      BY <2>4 DEF Whole, Held, SamePod
    <3> QED BY <3>2, <3>3, <3>4
  <2> QED BY <2>1, <2>2, <2>3, <2>4 DEF Init
<1> QED BY <1>1, <1>2, <1>4 DEF CredentialsInv, Running

\* What holds at all times of the credentials, of those who use them, and of the
\* scripts and the creations that are under way.
THEOREM Invariance == Spec => []CredentialsInv
<1>1. Init => CredentialsInv
  BY InitiallyHolds
<1>2. CredentialsInv /\ [Next]_vars => CredentialsInv'
  <2> SUFFICES ASSUME CredentialsInv, [Next]_vars PROVE CredentialsInv'
    OBVIOUS
  <2>1. CASE \E o \in Operators : Step(o)
    BY <2>1, StepKeeps
  <2>2. CASE World
    BY <2>2, WorldKeeps
  <2>3. CASE UNCHANGED vars
    BY <2>3 DEF vars, CredentialsInv, Counted
  <2> QED BY <2>1, <2>2, <2>3 DEF Next
<1> QED BY <1>1, <1>2, PTL DEF Spec

\* TypeOK: every object holds as many generations as it has credentials.
THEOREM CredentialsTypes == Spec => []TypeOK
<1>1. ASSUME CredentialsInv PROVE TypeOK
  <2>1. /\ DOMAIN store = Names /\ \A n \in Names : store[n] \in {Absent} \cup Stores(n)
        /\ serving \in {Absent} \cup Stores("server")
    BY <1>1 DEF CredentialsInv, Typed
  <2>2. minted \in [Fresh -> Nat] /\ runs \in 0..MaxRuns /\ losses \in 0..MaxLosses
    BY <1>1 DEF CredentialsInv, Counted
  <2>3. \A w \in late : w[1] \in Names /\ w[2] \in Stores(w[1])
    BY <1>1 DEF CredentialsInv, Sound
  <2>4. ASSUME NEW o \in Operators
        PROVE  /\ op[o].script \in {"none"} \cup DOMAIN Script
               /\ op[o].phase \in {"idle", "reading", "writing"}
               /\ op[o].call \in Nat /\ op[o].read \in Nat
               /\ op[o].writes \subseteq DOMAIN op[o].expected
               /\ \A n \in DOMAIN op[o].seen : op[o].seen[n] \in {Absent} \cup Stores(n)
               /\ \A n \in DOMAIN op[o].expected : op[o].expected[n] \in Stores(n)
    <3> DEFINE r == op[o]
               st == Script[r.script][r.call].stage
    <3>0. DOMAIN <<>> = {}
      OBVIOUS
    <3>1. CASE r = Idle
      BY <3>0, <3>1 DEF Idle
    <3>2. CASE IsReading(r, store)
      <4>1. /\ r = [script |-> r.script, phase |-> "reading", call |-> r.call, read |-> r.read,
                    seen |-> r.seen, expected |-> <<>>, writes |-> {}]
            /\ At(r.script, r.call, store) /\ r.read \in Nat /\ Seen(st, r.read, r.seen, store)
        BY <3>2 DEF IsReading
      <4>2. r.phase = "reading" /\ r.expected = <<>> /\ r.writes = {}
        BY <4>1
      <4>3. r.script \in DOMAIN Script /\ r.call \in Nat
        BY <4>1, CallIsTyped
      <4>4. DOMAIN r.seen = Read[st] /\ \A n \in Read[st] : r.seen[n] \in {Absent} \cup Stores(n)
        BY <4>1 DEF Seen
      <4> HIDE DEF r, st
      <4>5. /\ r.script \in {"none"} \cup DOMAIN Script
            /\ r.phase \in {"idle", "reading", "writing"}
            /\ r.call \in Nat /\ r.read \in Nat /\ r.writes \subseteq DOMAIN r.expected
            /\ \A n \in DOMAIN r.seen : r.seen[n] \in {Absent} \cup Stores(n)
            /\ \A n \in DOMAIN r.expected : r.expected[n] \in Stores(n)
        BY <3>0, <4>1, <4>2, <4>3, <4>4
      <4> QED BY <4>5 DEF r
    <3>3. CASE IsWriting(r, store, serving)
      <4>1. /\ r = [script |-> r.script, phase |-> "writing", call |-> r.call, read |-> 0,
                    seen |-> <<>>, expected |-> r.expected, writes |-> r.writes]
            /\ At(r.script, r.call, store) /\ Decided(st, r.expected, store)
            /\ Pending(st, r.expected, r.writes, store, serving)
        BY <3>3 DEF IsWriting
      <4>2. r.phase = "writing" /\ r.read = 0 /\ r.seen = <<>>
        BY <4>1
      <4>3. r.script \in DOMAIN Script /\ r.call \in Nat
        BY <4>1, CallIsTyped
      <4>4. DOMAIN r.expected = Owned[st] /\ r.writes \subseteq Owned[st]
        BY <4>1 DEF Decided, Pending
      <4>5. \A n \in Owned[st] : r.expected[n] \in Stores(n)
        BY <4>1 DEF Decided
      <4> HIDE DEF r, st
      <4>6. /\ r.script \in {"none"} \cup DOMAIN Script
            /\ r.phase \in {"idle", "reading", "writing"}
            /\ r.call \in Nat /\ r.read \in Nat /\ r.writes \subseteq DOMAIN r.expected
            /\ \A n \in DOMAIN r.seen : r.seen[n] \in {Absent} \cup Stores(n)
            /\ \A n \in DOMAIN r.expected : r.expected[n] \in Stores(n)
        BY <3>0, <4>2, <4>3, <4>4, <4>5
      <4> QED BY <4>6 DEF r
    <3> QED BY <1>1, <3>1, <3>2, <3>3 DEF CredentialsInv, Running
  <2> QED BY <2>1, <2>2, <2>3, <2>4 DEF TypeOK
<1>2. CredentialsInv => TypeOK
  BY <1>1
<1> QED BY <1>2, Invariance, PTL

\* CredentialsFit: no credential is replaced under a volume, a role or a server that
\* was set up with it.
THEOREM CredentialsStayFit == Spec => []CredentialsFit
<1>1. CredentialsInv => CredentialsFit
  BY DEF CredentialsInv, Fit, Held, SameUploader, CredentialsFit, Agree
<1> QED BY <1>1, Invariance, PTL

\* CopiesAgree: as long as nothing is deleted, all copies of a credential agree.
THEOREM CopiesAlwaysAgree == Spec => []CopiesAgree
<1>1. CredentialsInv => CopiesAgree
  BY DEF CredentialsInv, Whole, Held, Join, CopiesAgree, Agree
<1> QED BY <1>1, Invariance, PTL

\* When nothing was deleted no stage takes what it finds for a lost credential.
LEMMA NothingOrphaned ==
    ASSUME Typed(store, serving), Fit(store, serving), Whole(store), NEW st \in DOMAIN Stage
    PROVE  ~Orphaned(st, store)
<1>1. SUFFICES ASSUME Orphaned(st, store) PROVE FALSE
  OBVIOUS
<1>2. /\ Stage[st].traces # {} /\ ~Held(store, Stage[st].owns[1])
      /\ \E n \in Stage[st].traces : Held(store, n) /\ (st = "credentials" => store[n] # Legacy)
  BY <1>1 DEF Orphaned, Held
<1>3. CASE st = "postgres"
  <2>1. Stage[st].traces = {"volume", "postgresServer"} /\ Stage[st].owns[1] = "postgres"
    BY <1>3 DEF Stage, PostgresStage, PostgresTraces
  <2> QED BY <2>1, <1>2 DEF Whole
<1>4. CASE st = "bootstrap"
  <2>1. Stage[st].traces = {"objects", "objectServer"} /\ Stage[st].owns[1] = "bootstrap"
    BY <1>4 DEF Stage, BootstrapStage
  <2> QED BY <2>1, <1>2 DEF Whole, Fit
<1>5. CASE st = "credentials"
  <2>1. /\ Stage[st].traces = {"executor", "server", "objectServer"}
        /\ Stage[st].owns[1] = "uploader"
    BY <1>5 DEF Stage, CredentialsStage, CredentialsOrder, CredentialsTraces
  <2>2. Held(store, "objectServer") /\ store["objectServer"] # Legacy
            => store["objectServer"] = Present
    BY DEF Typed, Held
  <2> QED BY <2>1, <2>2, <1>2, <1>5 DEF Whole
<1>6. CASE st = "identities"
  <2>1. Stage[st].traces = {"roles"} /\ Stage[st].owns[1] = "database"
    BY <1>6 DEF Stage, IdentitiesStage
  <2> QED BY <2>1, <1>2 DEF Whole
<1>7. CASE st \in ReadStages \ {"postgres", "bootstrap", "credentials", "identities"}
  <2>1. Stage[st].traces = {}
    BY <1>7 DEF ReadStages, Stage, RegistryStage, ExecutionRegistryStage, RuntimeStage,
                MigrationStage, AuthorityStage, ResourcesStage, RepositoryStage, RootStage
  <2> QED BY <2>1, <1>2
<1>8. CASE st \in OtherStages
  BY <1>8, <1>2, StagesWithoutReads
<1> QED BY <1>3, <1>4, <1>5, <1>6, <1>7, <1>8, DomainsOfStages

\* Nor for a foreign one.
LEMMA NothingMismatched ==
    ASSUME Typed(store, serving), Fit(store, serving), Whole(store), NEW st \in DOMAIN Stage
    PROVE  ~Mismatched(st, store)
<1>1. SUFFICES ASSUME NEW n \in Owned[st] \ Servers, Held(store, n)
               PROVE  store[n] = Expected(n, store)
  BY DEF Mismatched, Held
<1>2. CASE n \in Fresh
  <2>1. Expected(n, store) = Credential(n, store)
    BY <1>2 DEF Expected, Fresh
  <2> QED BY <2>1, <1>1 DEF Credential, Held
<1>3. CASE n = "executor"
  <2>1. Expected(n, store) = Credential("uploader", store)
    BY <1>3 DEF Expected, Fresh
  <2> QED BY <2>1, <1>1, <1>3 DEF Credential, Whole, Held
<1>4. CASE n = "roles"
  <2>1. Expected(n, store) = Credential("database", store)
    BY <1>4 DEF Expected, Fresh
  <2> QED BY <2>1, <1>1, <1>4 DEF Credential, Whole, Fit, Held
<1>5. CASE n = "server"
  <2>1. Expected(n, store) = Join(store["bootstrap"], Credential("uploader", store))
    BY <1>5 DEF Expected, Fresh, ServerConfig, Join
  <2> QED BY <2>1, <1>1, <1>5 DEF Credential, Whole, Held
<1>6. CASE n = "runtime"
  <2>1. Expected(n, store) = Join(store["database"], store["uploader"])
    BY <1>6 DEF Expected, Fresh, RuntimeCredentials, Join
  <2> QED BY <2>1, <1>1, <1>6 DEF Whole
<1>7. CASE n \in Others
  <2>1. Expected(n, store) = Present
    BY <1>7 DEF Expected, Fresh, Others
  <2> QED BY <2>1, <1>1, <1>7 DEF Typed, Held
<1>8. n \in Fresh \cup Others \cup {"executor", "roles", "server", "runtime"}
  BY <1>1, DomainsOfStages, OwnedWithoutReads, RowsOfOwnsHold
     DEF RowsOfOwns, ReadStages, OtherStages, Fresh, Others, Servers
<1> QED BY <1>2, <1>3, <1>4, <1>5, <1>6, <1>7, <1>8

\* RetryAccepted: interrupted and overlapping scripts leave nothing behind that a stage
\* refuses, unless an object was deleted.
THEOREM RetryIsAccepted == Spec => []RetryAccepted
<1>1. CredentialsInv => RetryAccepted
  BY NothingOrphaned, NothingMismatched DEF CredentialsInv, RetryAccepted
<1> QED BY <1>1, Invariance, PTL

-----------------------------------------------------------------------------
(* What a script that ends successfully has established. *)

\* A stage that has nothing to read refuses nothing either: the script goes on.
LEMMA EnterGoesOn ==
    ASSUME NEW key \in DOMAIN Script, NEW i \in 1..Len(Script[key])
    PROVE  Enter(key, i) # Idle
<1> DEFINE call == Script[key][i]
           st == call.stage
<1>1. /\ st \in DOMAIN Stage
      /\ st \in {"deployPostgres", "deployObjects"} => call.create
  BY ScriptTable DEF Ordered, Calls
<1>2. Idle.phase = "idle"
  BY DEF Idle
<1>3. CASE st \in ReadStages
  <2>1. Stage[st].reads # <<>>
    BY <1>3, StagesWithReads
  <2>2. Enter(key, i).phase = "reading"
    BY <2>1 DEF Enter, Idle
  <2> QED BY <1>2, <2>2
<1>4. CASE st \in OtherStages
  <2>1. Stage[st].reads = <<>> /\ Stage[st].needs = {} /\ Stage[st].traces = {}
    BY <1>4, StagesWithoutReads
  <2>2. Owned[st] \subseteq Servers /\ (~call.create => Owned[st] = {})
    BY <1>1, <1>4, OwnedWithoutReads DEF Servers
  <2>3. ~Refused(call, <<>>)
    BY <2>1, <2>2 DEF Refused, Orphaned, Mismatched, Incomplete
  <2>4. Enter(key, i) = Decide(key, i, <<>>)
    BY <2>1 DEF Enter
  <2>5. Enter(key, i).phase = "writing"
    BY <2>3, <2>4 DEF Decide, Idle
  <2> QED BY <1>2, <2>5
<1> QED BY <1>1, <1>3, <1>4, DomainsOfStages

\* So only the last call ends a script, when all others have been gone through.
LEMMA FinishingIsLast ==
    ASSUME CredentialsInv, NEW o \in Operators, NEW key, Finishing(o, key)
    PROVE  /\ key \in DOMAIN Script /\ Len(Script[key]) \in Nat \ {0}
           /\ Call(o) = Script[key][Len(Script[key])] /\ Confirmed(o)
           /\ \A j \in 1..(Len(Script[key]) - 1) : Passed(Script[key][j].stage, store)
<1> DEFINE r == op[o]
           i == r.call
           size == Len(Script[key])
<1>1. r.script = key /\ Confirm(o) /\ op'[o] = Idle
  BY DEF Finishing
<1>2. IsWriting(r, store, serving)
  <2>1. r.phase = "writing" /\ Running(r, store, serving)
    BY <1>1 DEF CredentialsInv, Confirm
  <2> QED BY <2>1, Phases
<1>3. At(key, i, store)
  BY <1>1, <1>2 DEF IsWriting
<1>4. key \in DOMAIN Script /\ i \in 1..size /\ size \in Nat
  BY <1>3, CallIsTyped
<1>5. op = [p \in Operators |-> op[p]]
  BY DEF CredentialsInv
<1>6. op'[o] = IF i = size THEN Idle ELSE Enter(key, i + 1)
  <2> DEFINE q == IF i = size THEN Idle ELSE Enter(key, i + 1)
  <2>1. op' = [op EXCEPT ![o] = q]
    BY <1>1 DEF Confirm
  <2> HIDE DEF q
  <2>2. op'[o] = q
    BY <2>1, <1>5
  <2> QED BY <2>2 DEF q
<1>7. i = size
  <2> SUFFICES ASSUME i # size PROVE FALSE
    OBVIOUS
  <2>1. i + 1 \in 1..size
    BY <1>4
  <2>2. Enter(key, i + 1) = Idle
    BY <1>1, <1>6
  <2> QED BY <1>4, <2>1, <2>2, EnterGoesOn
<1>8. Call(o) = Script[key][size] /\ Confirmed(o)
  BY <1>1, <1>7 DEF Call, Confirm
<1>9. \A j \in 1..(size - 1) : Passed(Script[key][j].stage, store)
  BY <1>3, <1>7 DEF At
<1> QED BY <1>4, <1>8, <1>9

\* Where the calls of the health check begin in the scripts that make them, and what
\* is called last.
HealthBegins(key) == CASE key = "gitopsHealth" -> 7 [] key = "verifyRun" -> 9 [] OTHER -> 0

LEMMA HealthCalls ==
    ASSUME NEW key \in Health \cup Tests
    PROVE  /\ \A j \in 1..6 : /\ HealthBegins(key) + j \in 1..(Len(Script[key]) - 1)
                              /\ Script[key][HealthBegins(key) + j] = ControlPlaneHealth[j]
           /\ key \in Health => Script[key][Len(Script[key])].stage = "resources"
           /\ key = "smoke" => Script[key][Len(Script[key])].stage = "submit"
           /\ key = "verifyRun" => /\ Script[key][Len(Script[key])].stage = "retrieve"
                                   /\ 8 \in 1..(Len(Script[key]) - 1)
                                   /\ Script[key][8].stage = "restart"
<1>1. {"resources", "submit", "retrieve", "restart"} \subseteq DOMAIN Stage
  BY DomainsOfStages DEF ReadStages, OtherStages
<1>2. CASE key = "health"
  BY <1>1, <1>2, ScriptRows, HealthScript, CallFacts DEF HealthBegins, Health
<1>3. CASE key = "gitopsHealth"
  <2>1. Script[key] = GitopsHealth /\ Len(GitopsHealth) = 14 /\ HealthBegins(key) = 7
    BY <1>3, ScriptRows, LongScripts DEF HealthBegins
  <2>2. GitopsHealth[14] = ControlPlaneHealth[7]
    BY LongScripts
  <2>3. \A j \in 1..6 : GitopsHealth[7 + j] = ControlPlaneHealth[j] /\ 7 + j \in 1..13
    BY LongScripts
  <2> QED BY <1>1, <1>3, <2>1, <2>2, <2>3, HealthScript, CallFacts
<1>4. CASE key = "smoke"
  <2>1. Script[key] = Smoke /\ Len(Smoke) = 8 /\ HealthBegins(key) = 0
    BY <1>4, ScriptRows, LongScripts DEF HealthBegins
  <2>2. \A j \in 1..6 : Smoke[0 + j] = ControlPlaneHealth[j] /\ 0 + j \in 1..7
    BY LongScripts
  <2> QED BY <1>1, <1>4, <2>1, <2>2, LongScripts, CallFacts DEF Health
<1>5. CASE key = "verifyRun"
  <2>1. Script[key] = VerifyAfterRestart /\ Len(VerifyAfterRestart) = 17 /\ HealthBegins(key) = 9
    BY <1>5, ScriptRows, LongScripts DEF HealthBegins
  <2>2. \A j \in 1..6 : VerifyAfterRestart[9 + j] = ControlPlaneHealth[j] /\ 9 + j \in 1..16
    BY LongScripts
  <2> QED BY <1>1, <1>5, <2>1, <2>2, LongScripts, CallFacts DEF Health
<1> QED BY <1>2, <1>3, <1>4, <1>5 DEF Health, Tests

\* The stages of the health check that have been gone through.
LEMMA HealthPasses ==
    ASSUME CredentialsInv, NEW o \in Operators, NEW key \in Health \cup Tests, Finishing(o, key)
    PROVE  /\ \A n \in {"database", "roles", "registry", "migrated", "runtime", "authentication",
                        "uploader", "executionRegistry", "authority"} : Held(store, n)
           /\ store["roles"] = store["database"]
           /\ store["runtime"] = Join(store["database"], store["uploader"])
<1>1. ASSUME NEW j \in 1..6 PROVE Passed(ControlPlaneHealth[j].stage, store)
  <2> DEFINE i == HealthBegins(key) + j
  <2>1. i \in 1..(Len(Script[key]) - 1) /\ Script[key][i] = ControlPlaneHealth[j]
    BY HealthCalls
  <2>2. Passed(Script[key][i].stage, store)
    <3> HIDE DEF i
    <3> QED BY <2>1, FinishingIsLast
  <2> QED BY <2>1, <2>2
<1>2. /\ Passed("identities", store) /\ Passed("registry", store) /\ Passed("migration", store)
      /\ Passed("runtime", store) /\ Passed("executionRegistry", store)
      /\ Passed("authority", store)
  <2>1. {"identities", "registry", "migration", "runtime", "executionRegistry", "authority"}
            \subseteq DOMAIN Stage
    BY DomainsOfStages DEF ReadStages
  <2>2. /\ ControlPlaneHealth[1].stage = "identities" /\ ControlPlaneHealth[2].stage = "registry"
        /\ ControlPlaneHealth[3].stage = "migration" /\ ControlPlaneHealth[4].stage = "runtime"
        /\ ControlPlaneHealth[5].stage = "executionRegistry"
        /\ ControlPlaneHealth[6].stage = "authority"
    BY <2>1, HealthScript, CallFacts
  <2> QED BY <1>1, <2>2
<1> QED BY <1>2, RowsOfOwnsHold DEF Passed, RowsOfOwns

\* What is put together of two credentials has them as its parts.
LEMMA RuntimeParts ==
    ASSUME Typed(store, serving), Held(store, "database"), Held(store, "uploader"),
           store["runtime"] = Join(store["database"], store["uploader"])
    PROVE  /\ store["runtime"][1] = store["database"][1]
           /\ store["runtime"][2] = store["uploader"][1]
<1>1. store["database"] \in Single /\ store["uploader"] \in Single
  BY NamesAre, StoresAre DEF Typed, Held
<1> QED BY <1>1, Joined

\* Whoever finishes a health check or a smoke test has seen the Pod log in.
LEMMA FinishingIsUsable ==
    ASSUME CredentialsInv, NEW o \in Operators, NEW key \in Health \cup Tests, Finishing(o, key)
    PROVE  Ready /\ Usable /\ (key \in Tests => Served)
<1>1. Confirmed(o) /\ Call(o) = Script[key][Len(Script[key])]
  BY FinishingIsLast
<1>2. Ready /\ (key \in Tests => Served)
  <2>1. CASE key \in Health
    <3>1. Call(o).stage = "resources"
      BY <1>1, <2>1, HealthCalls
    <3> QED BY <3>1, <2>1, <1>1 DEF Confirmed, Health, Tests
  <2>2. CASE key = "smoke"
    <3>1. Call(o).stage = "submit"
      BY <1>1, <2>2, HealthCalls
    <3> QED BY <3>1, <1>1 DEF Confirmed, Completes, Served
  <2>3. CASE key = "verifyRun"
    <3>1. Call(o).stage = "retrieve"
      BY <1>1, <2>3, HealthCalls
    <3> QED BY <3>1, <1>1 DEF Confirmed, Served
  <2> QED BY <2>1, <2>2, <2>3 DEF Tests
<1>3. Usable
  BY <1>2, HealthPasses DEF Usable, Ready, Held, Join
<1> QED BY <1>2, <1>3

\* A smoke test has uploaded with the credentials that the Pod was started with.
LEMMA SmokeIsCurrent ==
    ASSUME CredentialsInv, NEW o \in Operators, Finishing(o, "smoke")
    PROVE  Current /\ Accepts("uploader", 2)
<1>0. "smoke" \in Health \cup Tests
  BY DEF Tests
<1>1. Confirmed(o) /\ Call(o).stage = "submit"
  BY <1>0, FinishingIsLast, HealthCalls
<1>2. Completes
  BY <1>1 DEF Confirmed
<1>3. /\ Typed(store, serving) /\ Fit(store, serving)
      /\ Held(store, "database") /\ Held(store, "uploader")
      /\ store["roles"] = store["database"]
      /\ store["runtime"] = Join(store["database"], store["uploader"])
  BY <1>0, HealthPasses DEF CredentialsInv
<1>4. store["uploader"] = <<serving[2]>> /\ Held(store, "objects")
  BY <1>2, <1>3, Singles DEF Completes, Fit, SameUploader, Held
<1>5. store["database"] = <<store["controlPlane"][1]>> /\ serving[2] = store["controlPlane"][2]
  BY <1>2, <1>3 DEF Completes, Served, Ready
<1>6. store["runtime"][1] = store["controlPlane"][1] /\ store["runtime"][2] = store["controlPlane"][2]
  BY <1>3, <1>4, <1>5, RuntimeParts
<1>7. Accepts("uploader", 2)
  BY <1>2, <1>4 DEF Accepts, Completes, Held
<1> QED BY <1>6, <1>7 DEF Current

\* After the restart the Pod has been started with what the Secrets hold.
LEMMA RestartIsCurrent ==
    ASSUME CredentialsInv, NEW o \in Operators, Finishing(o, "verifyRun")
    PROVE  Current
<1>0. "verifyRun" \in Health \cup Tests
  BY DEF Tests
<1>1. Passed("restart", store)
  <2>1. 8 \in 1..(Len(Script["verifyRun"]) - 1) /\ Script["verifyRun"][8].stage = "restart"
    BY <1>0, HealthCalls
  <2>2. Passed(Script["verifyRun"][8].stage, store)
    BY <2>1, FinishingIsLast
  <2> QED BY <2>1, <2>2
<1>2. Held(store, "controlPlane")
  BY <1>0, FinishingIsUsable DEF Ready, Held
<1> QED BY <1>1, <1>2 DEF Passed, SamePod, Current

\* SuccessMeansUsable: a health check, a storage check or a smoke test that succeeds has
\* established what it is taken for, whatever others have done while it ran.
THEOREM SuccessIsUsable == Spec => SuccessMeansUsable
<1> DEFINE Promise ==
    \A o \in Operators :
        /\ (\E s \in Health \cup Tests : Finishing(o, s)) => Usable
        /\ (\E s \in Tests : Finishing(o, s)) => Served /\ Current
        /\ losses = 0 /\ (\E s \in Health : Finishing(o, s)) => Current
        /\ Finishing(o, "storageAccess") =>
               Accepts("uploader", 2) /\ store["executor"] = store["uploader"]
        /\ Finishing(o, "smoke") => Accepts("uploader", 2)
<1>1. ASSUME CredentialsInv PROVE Promise
  <2> TAKE o \in Operators
  <2> USE <1>1
  <2>1. (\E s \in Health \cup Tests : Finishing(o, s)) => Usable
    BY FinishingIsUsable
  <2>2. (\E s \in Tests : Finishing(o, s)) => Served /\ Current
    <3> SUFFICES ASSUME NEW s \in Tests, Finishing(o, s) PROVE Served /\ Current
      OBVIOUS
    <3>1. Served
      BY FinishingIsUsable
    <3>2. Current
      BY SmokeIsCurrent, RestartIsCurrent DEF Tests
    <3> QED BY <3>1, <3>2
  <2>3. losses = 0 /\ (\E s \in Health : Finishing(o, s)) => Current
    <3> SUFFICES ASSUME losses = 0, NEW s \in Health, Finishing(o, s) PROVE Current
      OBVIOUS
    <3>1. Held(store, "controlPlane")
      BY FinishingIsUsable DEF Ready, Held
    <3> QED BY <3>1 DEF CredentialsInv, Whole, SamePod, Current
  <2>4. Finishing(o, "storageAccess") =>
            Accepts("uploader", 2) /\ store["executor"] = store["uploader"]
    <3> SUFFICES ASSUME Finishing(o, "storageAccess")
                 PROVE  Accepts("uploader", 2) /\ store["executor"] = store["uploader"]
      OBVIOUS
    <3>1. /\ Len(Script["storageAccess"]) = 2
          /\ Script["storageAccess"][1].stage = "credentials"
          /\ Script["storageAccess"][2].stage = "probe"
      BY ScriptRows, ShortScripts, CallFacts, DomainsOfStages DEF ReadStages, OtherStages
    <3>2. Confirmed(o) /\ Call(o).stage = "probe" /\ Passed("credentials", store)
      BY <3>1, FinishingIsLast
    <3> QED BY <3>2 DEF Confirmed, Passed
  <2>5. Finishing(o, "smoke") => Accepts("uploader", 2)
    BY SmokeIsCurrent
  <2> QED BY <2>1, <2>2, <2>3, <2>4, <2>5
<1>2. CredentialsInv => [Promise]_vars
  BY <1>1
<1>3. [][Promise]_vars <=> SuccessMeansUsable
  BY DEF SuccessMeansUsable
<1> QED BY <1>2, <1>3, Invariance, PTL
=============================================================================
