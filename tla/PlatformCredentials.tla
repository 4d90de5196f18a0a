------------------------ MODULE PlatformCredentials ------------------------
(***************************************************************************)
(* The scripts that provision and verify the credentials of the platform:  *)
(* postgres.py, object_store.py, storage_access.py,                        *)
(* control_plane_database.py, control_plane_registry.py,                   *)
(* execution_registry.py, control_plane_runtime.py, benchmark_authority.py *)
(* and control_plane_health.py; and those that put them to use: gitops.py  *)
(* with the waits of gitops_status.py, and control_plane_smoke.py.         *)
(*                                                                         *)
(* A script is a sequence of calls of ensure functions (stages).  A stage  *)
(* reads the objects it is about, one request each, refuses or decides     *)
(* what every object it owns has to hold, creates the missing ones in a    *)
(* fixed order and confirms the result.  Operators run scripts             *)
(* concurrently and may be stopped at any request; the last request of a   *)
(* stopped script may still be carried out later.                          *)
(*                                                                         *)
(* An object holds the generations of the credentials it stores: the       *)
(* server's S3 configuration those of the bootstrap and the uploader       *)
(* identity, the runtime Secret those of the database passwords and the    *)
(* uploader.  Names, labels, policies and encodings are left out.          *)
(***************************************************************************)
EXTENDS Integers, Sequences

CONSTANTS
    Operators,
    Scripts,         \* names of the scripts that are run
    MaxRuns,         \* bound: runs of scripts
    MaxLosses        \* bound: objects deleted by people

ASSUME BoundsAssumption == MaxRuns \in Nat /\ MaxLosses \in Nat

VARIABLES
    store,      \* the objects of the cluster, the roles and the volumes
    serving,    \* the S3 configuration the running server has loaded
    minted,     \* generations drawn so far, per credential
    late,       \* creations requested by scripts that are gone
    runs,
    losses,
    op          \* per operator: the script under way

vars == <<store, serving, minted, late, runs, losses, op>>

Absent == <<>>
Present == <<1>>
Legacy == <<0>>  \* an object server deployed before uploads were restricted

\* Credentials that are drawn at random (a pull token is entered).
Fresh == {"postgres", "bootstrap", "uploader", "database", "registry",
          "executionRegistry", "authentication", "repository"}
Derived == {"server", "executor", "runtime", "roles"}
Servers == {"postgresServer", "objectServer"}
Volumes == {"volume", "objects"}
Others == {"runtimeConfig", "registryConfig", "migrated", "authority", "root"}
Applications == {"applications"}   \* the children of the root Application, once synced
Pods == {"controlPlane"}       \* with the credentials it has been started with
Results == {"run"}             \* a completed Run in the database, its artifacts in the store
Names == Fresh \cup Derived \cup Servers \cup Volumes \cup Others \cup Applications \cup Pods
             \cup Results

-----------------------------------------------------------------------------
(* The stages. "reads" is what a stage reads, in order; "needs" are other  *)
(* people's objects it cannot do without; "owns" is what it creates, in    *)
(* order; "traces" are objects that must not exist when the first object   *)
(* it owns does not: they show that a credential has been in use and lost. *)

\* Mutation: only the StatefulSet is looked at, not the volume it left.
PostgresTracesWithoutClaim == {"postgresServer"}

PostgresTraces == {"volume", "postgresServer"}

PostgresStage ==
    [reads |-> <<"postgres", "volume", "postgresServer">>, needs |-> {},
     owns |-> <<"postgres">>, traces |-> PostgresTraces]

BootstrapStage ==
    [reads |-> <<"bootstrap", "objects", "objectServer">>, needs |-> {},
     owns |-> <<"bootstrap">>, traces |-> {"objects", "objectServer"}]

CredentialsTraces == {"executor", "server", "objectServer"}

\* Mutation: the configuration is created before the identity it contains.
CredentialsServerFirst == <<"server", "uploader", "executor">>

CredentialsOrder == <<"uploader", "server", "executor">>

CredentialsStage ==
    [reads |-> <<"bootstrap", "uploader", "server", "executor", "objectServer">>,
     needs |-> {"bootstrap"}, owns |-> CredentialsOrder, traces |-> CredentialsTraces]

IdentitiesStage ==
    [reads |-> <<"database", "roles">>, needs |-> {},
     owns |-> <<"database", "roles">>, traces |-> {"roles"}]

RegistryStage ==
    [reads |-> <<"registry">>, needs |-> {}, owns |-> <<"registry">>, traces |-> {}]

ExecutionRegistryStage ==
    [reads |-> <<"executionRegistry">>, needs |-> {}, owns |-> <<"executionRegistry">>,
     traces |-> {}]

RuntimeStage ==
    [reads |-> <<"database", "uploader", "runtimeConfig", "runtime", "registryConfig",
                 "authentication">>,
     needs |-> {"database", "uploader"},
     owns |-> <<"runtimeConfig", "runtime", "registryConfig", "authentication">>,
     traces |-> {}]

\* The migration Job of the release and its grants, as health looks at them.
MigrationStage == [reads |-> <<"migrated">>, needs |-> {}, owns |-> <<"migrated">>, traces |-> {}]

\* The access rights of the benchmark controller, which Argo CD installs.
AuthorityStage == [reads |-> <<"authority">>, needs |-> {}, owns |-> <<"authority">>,
                   traces |-> {}]

\* The Deployment, its Pod and its endpoints.
ResourcesStage == [reads |-> <<"controlPlane">>, needs |-> {"controlPlane"}, owns |-> <<>>,
                   traces |-> {}]

RepositoryStage == [reads |-> <<"repository">>, needs |-> {}, owns |-> <<"repository">>,
                    traces |-> {}]
RootStage == [reads |-> <<"root">>, needs |-> {}, owns |-> <<"root">>, traces |-> {}]

\* helm upgrade --install, and the checks that follow it.
Deploying(server) == [reads |-> <<>>, needs |-> {}, owns |-> <<server>>, traces |-> {}]
Checking == [reads |-> <<>>, needs |-> {}, owns |-> <<>>, traces |-> {}]

\* The smoke test's client Pod, created, followed to its end and read back.
ClientStage == Checking

Stage ==
    [postgres |-> PostgresStage, bootstrap |-> BootstrapStage,
     credentials |-> CredentialsStage, identities |-> IdentitiesStage,
     registry |-> RegistryStage, executionRegistry |-> ExecutionRegistryStage,
     runtime |-> RuntimeStage, migration |-> MigrationStage,
     authority |-> AuthorityStage, resources |-> ResourcesStage,
     repository |-> RepositoryStage, root |-> RootStage,
     deployPostgres |-> Deploying("postgresServer"),
     deployObjects |-> Deploying("objectServer"),
     sql |-> Checking, initialize |-> Checking, probe |-> Checking,
     applications |-> Checking,
     submit |-> ClientStage, restart |-> Checking, rollout |-> Checking,
     retrieve |-> ClientStage]

Creating(stage) == [stage |-> stage, create |-> TRUE]
Verifying(stage) == [stage |-> stage, create |-> FALSE]

PostgresDeploy == <<Creating("postgres"), Creating("deployPostgres"), Verifying("sql")>>
ObjectStoreDeploy == <<Creating("bootstrap"), Creating("credentials"),
                       Creating("deployObjects"), Verifying("initialize")>>
StorageAccess == <<Verifying("credentials"), Verifying("probe")>>
DatabaseDeploy == <<Verifying("postgres"), Verifying("sql"), Creating("identities")>>
RegistryDeploy == <<Creating("registry")>>
ExecutionRegistryDeploy == <<Creating("executionRegistry")>>
RuntimeDeploy == <<Creating("runtime")>>
ControlPlaneHealth == <<Verifying("identities"), Verifying("registry"), Verifying("migration"),
                        Verifying("runtime"), Verifying("executionRegistry"),
                        Verifying("authority"), Verifying("resources")>>
GitopsBootstrap == <<Creating("repository"), Creating("root"), Verifying("applications"),
                     Verifying("postgres"), Verifying("sql")>>
GitopsHealth == <<Verifying("repository"), Verifying("root"), Verifying("applications"),
                  Verifying("postgres"), Verifying("sql"),
                  Verifying("bootstrap"), Verifying("initialize")>> \o ControlPlaneHealth
Smoke == ControlPlaneHealth \o <<Verifying("submit")>>
VerifyAfterRestart == ControlPlaneHealth \o <<Verifying("restart"), Verifying("rollout")>>
                          \o ControlPlaneHealth \o <<Verifying("retrieve")>>

Script == [postgres |-> PostgresDeploy, objectStore |-> ObjectStoreDeploy,
           storageAccess |-> StorageAccess, database |-> DatabaseDeploy,
           registry |-> RegistryDeploy, executionRegistry |-> ExecutionRegistryDeploy,
           runtime |-> RuntimeDeploy, health |-> ControlPlaneHealth,
           gitopsBootstrap |-> GitopsBootstrap, gitopsHealth |-> GitopsHealth,
           smoke |-> Smoke, verifyRun |-> VerifyAfterRestart]

ASSUME ScriptsAssumption == Scripts \subseteq DOMAIN Script

-----------------------------------------------------------------------------
(* What a stage decides from what it has seen. *)

\* A credential is reused when stored and drawn anew otherwise.
Credential(n, seen) == IF seen[n] = Absent THEN <<minted[n] + 1>> ELSE seen[n]

\* Mutation: an identity is drawn once more for the configuration.
ServerConfigOfNew(seen) == seen["bootstrap"] \o <<minted["uploader"] + 2>>

ServerConfig(seen) == seen["bootstrap"] \o Credential("uploader", seen)

\* Mutation: the uploader's identity is left out.
RuntimeCredentialsOfDatabase(seen) == seen["database"]

RuntimeCredentials(seen) == seen["database"] \o seen["uploader"]

\* What each object has to hold.
Expected(n, seen) ==
    CASE n \in Fresh -> Credential(n, seen)
      [] n = "executor" -> Credential("uploader", seen)
      [] n = "server" -> ServerConfig(seen)
      [] n = "roles" -> Credential("database", seen)
      [] n = "runtime" -> RuntimeCredentials(seen)
      [] OTHER -> Present

Read == [stage \in DOMAIN Stage |->
           {Stage[stage].reads[i] : i \in 1..Len(Stage[stage].reads)}]
Owned == [stage \in DOMAIN Stage |->
            {Stage[stage].owns[i] : i \in 1..Len(Stage[stage].owns)}]

\* Traces of a lost credential. The restricted storage identity is only in use
\* by a server that mounts its configuration.
Orphaned(stage, seen) ==
    /\ Stage[stage].traces # {} /\ seen[Stage[stage].owns[1]] = Absent
    /\ \E n \in Stage[stage].traces :
           seen[n] # Absent /\ (stage = "credentials" => seen[n] # Legacy)

Mismatched(stage, seen) ==
    \E n \in Owned[stage] \ Servers : seen[n] \notin {Absent, Expected(n, seen)}

\* Mutation: only the first object of a stage is looked for.
IncompleteAtFirst(stage, seen) ==
    Stage[stage].owns # <<>> /\ seen[Stage[stage].owns[1]] = Absent

Incomplete(stage, seen) == \E n \in Owned[stage] : seen[n] = Absent

Refused(call, seen) ==
    \/ \E n \in Stage[call.stage].needs : seen[n] = Absent
    \/ Orphaned(call.stage, seen)
    \/ Mismatched(call.stage, seen)
    \/ ~call.create /\ Incomplete(call.stage, seen)

-----------------------------------------------------------------------------
(* The world the stages act upon. *)

DatabaseUp == store["postgresServer"] # Absent /\ store["volume"] # Absent

\* Logging in over TCP with the password of the Secret that the Pod mounts.
SqlHealthy == DatabaseUp /\ store["postgres"] = store["volume"]

\* The server knows the credential as its identity number i.
Accepts(n, i) == serving # Absent /\ store["objects"] # Absent /\ store[n] = <<serving[i]>>

\* Both roles exist and log in with the passwords the stage has read or drawn.
LoginsVerified(o) == DatabaseUp /\ store["roles"] = op[o].expected["roles"]

\* The Pod has logged in with the credentials it was started with.
Ready == store["controlPlane"] # Absent /\ DatabaseUp
             /\ store["roles"] = <<store["controlPlane"][1]>>

\* A Pod that calls the API with the stored token is served.
Served == Ready /\ store["authentication"] = <<store["controlPlane"][3]>>

\* The control plane accepts the client's Run, starts its Jobs and uploads.
Completes ==
    /\ Served /\ store["executionRegistry"] # Absent
    /\ serving # Absent /\ serving[2] = store["controlPlane"][2]

\* The status Argo CD reports of an Application may be stale, so that a wait
\* for one may end whatever holds of what it deploys.
ApplicationsReached == store["applications"] # Absent

\* The call of the script that an operator is at.
Call(o) == Script[op[o].script][op[o].call]

\* What the last step of a stage waits for or verifies.
Confirmed(o) ==
    CASE Call(o).stage = "sql" -> SqlHealthy
      [] Call(o).stage = "initialize" -> Accepts("bootstrap", 1)
      [] Call(o).stage = "probe" -> Accepts("uploader", 2)
      [] Call(o).stage = "identities" -> LoginsVerified(o)
      [] Call(o).stage = "resources" -> Ready
      [] Call(o).stage = "applications" -> ApplicationsReached
      [] Call(o).stage = "submit" -> Completes
      [] Call(o).stage = "rollout" -> store["controlPlane"] # Absent
      [] Call(o).stage = "retrieve" -> Served /\ store["run"] # Absent
      [] Call(o).stage = "credentials" /\ ~Call(o).create -> store["objectServer"] = Present
      [] OTHER -> TRUE

Empty == [n \in Names |-> Absent]

Idle == [script |-> "none", phase |-> "idle", call |-> 0, read |-> 0,
         seen |-> <<>>, expected |-> <<>>, writes |-> {}]

\* What a stage that has read all it reads is about to write, if anything.
Missing(call, seen) ==
    {n \in Owned[call.stage] : call.create /\ (n \in DOMAIN seen => seen[n] = Absent)}

Decide(script, i, seen) ==
    LET call == Script[script][i] IN
    IF Refused(call, seen) THEN Idle
    ELSE [Idle EXCEPT !.script = script, !.phase = "writing", !.call = i,
             !.expected = [n \in Owned[call.stage] |-> Expected(n, seen)],
             !.writes = Missing(call, seen)]

Enter(script, i) ==
    LET stage == Script[script][i].stage IN
    IF Stage[stage].reads = <<>> THEN Decide(script, i, <<>>)
    ELSE [Idle EXCEPT !.script = script, !.phase = "reading", !.call = i,
             !.seen = [n \in Read[stage] |-> Absent]]

\* A new cluster, one from before uploads were restricted, one whose stateful
\* foundation has been bootstrapped, and one on which every script has been run.
BeforeRestriction == [Empty EXCEPT !["bootstrap"] = <<1>>, !["objectServer"] = Legacy,
                                   !["objects"] = Present]
Shared == [server |-> <<1, 1>>, runtime |-> <<1, 1>>, controlPlane |-> <<1, 1, 1>>]
Provisioned == [n \in Names |-> IF n \in DOMAIN Shared THEN Shared[n] ELSE Present]
Foundation ==
    [n \in Names |-> IF n \in {"postgres", "bootstrap", "uploader", "server", "executor",
                               "repository", "root"} THEN Provisioned[n] ELSE Absent]

Init ==
    /\ store \in {Empty, BeforeRestriction, Foundation, Provisioned}
    /\ minted = [n \in Fresh |-> IF store[n] = Absent THEN 0 ELSE 1]
    /\ serving = IF store["objectServer"] = Present THEN store["server"] ELSE Absent
    /\ late = {} /\ runs = 0 /\ losses = 0
    /\ op = [o \in Operators |-> Idle]

Quiescent == (\A o \in Operators : op[o].phase = "idle") /\ late = {}

\* "task bootstrap" bootstraps Argo CD after the credentials of both servers.
Staged(s) ==
    s = "gitopsBootstrap" => store["postgres"] # Absent /\ store["server"] # Absent

Begin(o, s) ==
    /\ op[o].phase = "idle" /\ runs < MaxRuns /\ Staged(s)
    /\ runs' = runs + 1
    /\ op' = [op EXCEPT ![o] = Enter(s, 1)]
    /\ UNCHANGED <<store, serving, minted, late, losses>>

\* What was read last is followed by the decision, which draws credentials.
Reading(o) ==
    LET reads == Stage[Call(o).stage].reads
        n == reads[op[o].read + 1]
        seen == [op[o].seen EXCEPT ![n] = store[n]]
        next == Decide(op[o].script, op[o].call, seen) IN
    /\ op[o].phase = "reading"
    /\ n = "roles" => DatabaseUp
    /\ IF op[o].read + 1 = Len(reads)
       THEN /\ op' = [op EXCEPT ![o] = next]
            /\ minted' = [m \in Fresh |-> IF m \in DOMAIN next.expected /\ seen[m] = Absent
                                        THEN minted[m] + 1 ELSE minted[m]]
       ELSE /\ op' = [op EXCEPT ![o].read = @ + 1, ![o].seen = seen]
            /\ UNCHANGED minted
    /\ UNCHANGED <<store, serving, late, runs, losses>>

\* kubectl create and CREATE ROLE fail on what exists; helm upgrade does not.
Creatable(n) == (store[n] = Absent \/ n \in Servers) /\ (n = "roles" => DatabaseUp)

\* A StatefulSet brings its volume claim with it; the database's counts once
\* the server has initialised it.
Stored(n, value) ==
    [store EXCEPT ![n] = value, !["objects"] = IF n = "objectServer" THEN Present ELSE @]

\* The first missing object in the order of the stage.
Due(o) ==
    LET owns == Stage[Call(o).stage].owns IN
    {owns[i] : i \in {i \in 1..Len(owns) : /\ owns[i] \in op[o].writes
                                          /\ \A j \in 1..(i - 1) : owns[j] \notin op[o].writes}}

Create(o) ==
    /\ op[o].phase = "writing"
    /\ \E n \in Due(o) :
          /\ Creatable(n)
          /\ store' = Stored(n, op[o].expected[n])
          /\ op' = [op EXCEPT ![o].writes = @ \ {n}]
    /\ UNCHANGED <<serving, minted, late, runs, losses>>

Confirm(o) ==
    /\ op[o].phase = "writing" /\ op[o].writes = {}
    /\ Confirmed(o)
    /\ store' = CASE Call(o).stage = "submit" -> Stored("run", Present)
                  [] Call(o).stage = "restart" -> Stored("controlPlane", Absent)
                  [] OTHER -> store
    /\ op' = [op EXCEPT ![o] = IF @.call = Len(Script[@.script]) THEN Idle
                               ELSE Enter(@.script, @.call + 1)]
    /\ UNCHANGED <<serving, minted, late, runs, losses>>

\* A request is refused or times out, or the script is killed. The creation
\* that was under way may have been lost or may still be carried out.
Abandon(o) ==
    /\ op[o].phase # "idle"
    /\ op' = [op EXCEPT ![o] = Idle]
    /\ \/ UNCHANGED late
       \/ \E n \in Due(o) : late' = late \cup {<<n, op[o].expected[n]>>}
    /\ UNCHANGED <<store, serving, minted, runs, losses>>

CarryOut(w) ==
    /\ late' = late \ {w}
    /\ store' = IF Creatable(w[1]) THEN Stored(w[1], w[2]) ELSE store
    /\ UNCHANGED <<serving, minted, runs, losses, op>>

Step(o) == (\E s \in Scripts : Begin(o, s)) \/ Reading(o) \/ Create(o)
           \/ Confirm(o) \/ Abandon(o)

-----------------------------------------------------------------------------
(* Everybody else. *)

\* Argo CD reads the repository for the root Application.
SyncRoot ==
    /\ store["root"] # Absent /\ store["repository"] # Absent
    /\ store["applications"] = Absent
    /\ store' = Stored("applications", Present)
    /\ UNCHANGED <<serving, minted, late, runs, losses, op>>

\* Then it deploys the servers, and the release's ConfigMaps and access rights.
Release == {"runtimeConfig", "registryConfig", "authority"}

Reconcile ==
    /\ store["applications"] # Absent
    /\ \E group \in {Servers, Release} :
          /\ \E n \in group : store[n] \in {Absent, Legacy}
          /\ store' = [n \in Names |->
                         IF n \in group \/ (n = "objects" /\ group = Servers) THEN Present
                         ELSE store[n]]
    /\ UNCHANGED <<serving, minted, late, runs, losses, op>>

\* An empty volume is initialised with the password of the mounted Secret.
StartPostgres ==
    /\ store["postgresServer"] # Absent /\ store["postgres"] # Absent
    /\ store["volume"] = Absent
    /\ store' = [store EXCEPT !["volume"] = store["postgres"]]
    /\ UNCHANGED <<serving, minted, late, runs, losses, op>>

StartObjectServer ==
    /\ store["objectServer"] = Present /\ store["server"] # Absent
    /\ serving # store["server"]
    /\ serving' = store["server"]
    /\ UNCHANGED <<store, minted, late, runs, losses, op>>

\* The migration of the release, as the role perfeng_migration.
Migrate ==
    /\ store["migrated"] = Absent /\ DatabaseUp
    /\ store["roles"] # Absent /\ store["database"] = store["roles"]
    /\ store["registry"] # Absent
    /\ store' = [store EXCEPT !["migrated"] = Present]
    /\ UNCHANGED <<serving, minted, late, runs, losses, op>>

\* The Pod starts when everything it mounts is there.
StartControlPlane ==
    /\ store["controlPlane"] = Absent
    /\ \A n \in {"runtimeConfig", "runtime", "registryConfig", "registry", "authentication"} :
           store[n] # Absent
    /\ store' = [store EXCEPT !["controlPlane"] = store["runtime"] \o store["authentication"]]
    /\ UNCHANGED <<serving, minted, late, runs, losses, op>>

\* People delete a Secret or the Pod, or uninstall a server, while no script is running.
\* The volumes are retained.
Lose(n) ==
    /\ losses < MaxLosses /\ Quiescent
    /\ store[n] # Absent
    /\ store' = [store EXCEPT ![n] = Absent]
    /\ serving' = IF n = "objectServer" THEN Absent ELSE serving
    /\ losses' = losses + 1
    /\ UNCHANGED <<minted, late, runs, op>>

Losable == (Fresh \ {"repository"}) \cup {"server", "executor", "runtime"} \cup Servers \cup Pods

World ==
    \/ SyncRoot \/ Reconcile
    \/ StartPostgres \/ StartObjectServer \/ Migrate \/ StartControlPlane
    \/ \E n \in Losable : Lose(n)
    \/ \E w \in late : CarryOut(w)

Next == (\E o \in Operators : Step(o)) \/ World

Spec == Init /\ [][Next]_vars

-----------------------------------------------------------------------------
\* How many generations an object holds, and what it can hold.
Size(n) == CASE n \in {"server", "runtime"} -> 2 [] n = "controlPlane" -> 3 [] OTHER -> 1
Stores(n) == [1..Size(n) -> Nat]

TypeOK ==
    /\ DOMAIN store = Names /\ \A n \in Names : store[n] \in {Absent} \cup Stores(n)
    /\ serving \in {Absent} \cup Stores("server")
    /\ minted \in [Fresh -> Nat]
    /\ \A w \in late : w[1] \in Names /\ w[2] \in Stores(w[1])
    /\ runs \in 0..MaxRuns /\ losses \in 0..MaxLosses
    /\ \A o \in Operators :
           /\ op[o].script \in {"none"} \cup DOMAIN Script
           /\ op[o].phase \in {"idle", "reading", "writing"}
           /\ op[o].call \in Nat /\ op[o].read \in Nat /\ op[o].writes \subseteq DOMAIN op[o].expected
           /\ \A n \in DOMAIN op[o].seen : op[o].seen[n] \in {Absent} \cup Stores(n)
           /\ \A n \in DOMAIN op[o].expected : op[o].expected[n] \in Stores(n)

Agree(m, n) == store[m] = Absent \/ store[n] = Absent \/ store[m] = store[n]

\* "A retained volume may contain an initialized database. A new password would
\* not reset it" (postgres.py:110): whatever was lost or interrupted, a stored
\* password is the one its database volume or its roles were created with, and
\* the uploader identity in the configuration that the object server runs with
\* is the stored one, so that logins and uploads keep working.
CredentialsFit ==
    /\ Agree("postgres", "volume") /\ Agree("database", "roles")
    /\ serving # Absent => store["uploader"] \in {Absent, <<serving[2]>>}

\* Unless somebody has deleted an object, all copies of one credential agree:
\* the two uploader Secrets, the server's configuration, the runtime Secret.
CopiesAgree ==
    losses = 0 =>
        /\ Agree("uploader", "executor")
        /\ store["server"] # Absent => store["server"] = store["bootstrap"] \o store["uploader"]
        /\ store["runtime"] # Absent => store["runtime"] = store["database"] \o store["uploader"]

\* "Retry reuses a partial pair" (storage_access.py:191): whatever scripts were
\* interrupted and however they overlapped, unless an object was deleted no
\* stage takes what they have left behind for a lost or foreign credential.
RetryAccepted ==
    losses = 0 /\ Quiescent =>
        \A stage \in DOMAIN Stage :
            (\A n \in Stage[stage].needs : store[n] # Absent) =>
                ~Orphaned(stage, store) /\ ~Mismatched(stage, store)

\* The stored credentials work, and a Pod runs that has logged in with them.
Usable ==
    /\ store["database"] # Absent /\ store["roles"] = store["database"]
    /\ store["runtime"] = store["database"] \o store["uploader"]
    /\ store["controlPlane"] # Absent /\ store["database"] = <<store["controlPlane"][1]>>
    /\ \A n \in {"registry", "executionRegistry", "authentication", "migrated", "authority"} :
           store[n] # Absent

\* The Pod would be started with the same credentials again.
Current == \A i \in 1..2 : store["controlPlane"][i] = store["runtime"][i]

Health == {"health", "gitopsHealth"}
Tests == {"smoke", "verifyRun"}
Finishing(o, script) == op[o].script = script /\ Confirm(o) /\ op'[o] = Idle

\* control_plane_health.py:163 verify, storage_access.py:268 and
\* control_plane_smoke.py:478 execute: a health check that succeeds leaves, whoever ran
\* beside it and whatever Argo CD reported, a control plane that has logged in with the
\* stored credentials and can be started again; a storage check one whose uploads work;
\* and a smoke test, also after a restart, one that operators can use. Whether the Pod
\* runs with the whole of the stored credentials is only sure after a smoke test or a
\* restart, or when nothing was ever deleted: verify_resources does not compare them, so
\* an uploader identity that was lost and drawn anew leaves a healthy, outdated Pod.
SuccessMeansUsable ==
    [][\A o \in Operators :
           /\ (\E s \in Health \cup Tests : Finishing(o, s)) => Usable
           /\ (\E s \in Tests : Finishing(o, s)) => Served /\ Current
           /\ losses = 0 /\ (\E s \in Health : Finishing(o, s)) => Current
           /\ Finishing(o, "storageAccess") =>
                  Accepts("uploader", 2) /\ store["executor"] = store["uploader"]
           /\ Finishing(o, "smoke") => Accepts("uploader", 2)]_vars
=============================================================================
