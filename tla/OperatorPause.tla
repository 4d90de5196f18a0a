---------------------------- MODULE OperatorPause ----------------------------
(***************************************************************************)
(* The operators' own maintenance pause and migration, over the objects of *)
(* ControlPlaneObjects: control_plane_maintenance.py pause, and            *)
(* control_plane_migration.py deploy and health.                           *)
(*                                                                         *)
(* Unlike the release workflows the scripts hold no mutex: several         *)
(* operators run them at once.  A pause reads and patches root, child and  *)
(* Deployment in turn, an object that does not exist being skipped, waits  *)
(* for the Pods it lists and then looks once at each object and at the     *)
(* Pods.  A migration looks the same way, creates a Job whose name the     *)
(* release determines, waits for it and grants the runtime role its        *)
(* privileges.  A script that is refused, times out or is interrupted      *)
(* stops where it is (Fail).                                               *)
(*                                                                         *)
(* Between the Deployment and its Pods stands the ReplicaSet, so that Pods *)
(* may still be started for a Deployment just scaled to zero.              *)
(***************************************************************************)
EXTENDS ControlPlaneObjects, Sequences

CONSTANTS
    Operators,
    Scripts        \* what they run: "pause", "deploy", "health"

ASSUME ScriptsAssumption == Scripts \subseteq {"pause", "deploy", "health"}

VARIABLES
    missing,       \* the objects that do not exist
    replicaset,    \* what the ReplicaSet was last told: "on" or "off"
    job,           \* the migration Job of the release, "none" or its state
    tables,        \* the migrated tables exist
    granted,       \* the runtime role has its privileges
    op,            \* per operator: script, step, the object it is about, what it read
    untouched,     \* history: since whose check began nobody else has acted
    unsettled      \* history: who listed the Pods before the ReplicaSet was told

historyVars == <<untouched, unsettled>>
scriptVars == <<op, untouched, unsettled>>
vars == <<clusterVars, missing, replicaset, job, tables, granted, op, untouched, unsettled>>

Order == <<"root", "child", "deployment">>
JobStates == {"none", "running", "complete", "failed"}
Steps == {"idle", "read", "patch", "check", "pods", "job", "create", "await",
          "again", "grant", "verify", "done", "failed"}

NoObject == [uid |-> 0, rv |-> 0, switch |-> "on", rest |-> CHOOSE rest \in Rests : TRUE,
             phase |-> "deleting", status |-> "progressing"]

Idle == [script |-> "pause", step |-> "idle", at |-> 1, seen |-> NoObject, passed |-> FALSE]

Init ==
    /\ ClusterInit
    \* serving, or paused altogether; interrupted pauses lead to the rest
    /\ \A r, s \in Resources : obj[r].switch = obj[s].switch
    /\ missing \in {{}, {"root"}, Resources}
    /\ "deployment" \in missing => pods = {}
    /\ replicaset = obj["deployment"].switch
    /\ job = "none" /\ tables = FALSE /\ granted = FALSE
    /\ op = [o \in Operators |-> Idle] /\ untouched = {} /\ unsettled = {}

-----------------------------------------------------------------------------
(***************************************************************************)
(* Kubernetes, Argo CD and other people                                    *)
(***************************************************************************)
Wanted == IF "deployment" \in missing THEN "off" ELSE obj["deployment"].switch

TellReplicaSet ==
    /\ replicaset # Wanted /\ replicaset' = Wanted
    /\ UNCHANGED <<clusterVars, missing, job, tables, granted, scriptVars>>

PodStep == UNCHANGED <<obj, rev, meddled, missing, replicaset, job, tables, granted, scriptVars>>

PodStarts ==
    /\ replicaset = "on" /\ "running" \notin pods
    /\ pods' = pods \cup {"running"} /\ PodStep

PodStops ==
    /\ replicaset = "off" /\ "running" \in pods
    /\ pods' = (pods \ {"running"}) \cup {"terminating"} /\ PodStep

PodGone ==
    /\ RemovePod /\ UNCHANGED <<missing, replicaset, job, tables, granted, scriptVars>>

Report ==
    /\ "deployment" \notin missing
    /\ obj["deployment"].status # (IF "running" \in pods THEN "ready" ELSE "stopped")
    /\ Store("deployment", [obj["deployment"] EXCEPT
                               !.status = IF "running" \in pods THEN "ready" ELSE "stopped"])
    /\ UNCHANGED <<pods, meddled, missing, replicaset, job, tables, granted, scriptVars>>

JobEnds ==
    /\ job = "running" /\ job' \in {"complete", "failed"}
    /\ tables' \in {tables, TRUE} /\ (job' = "complete" => tables')
    /\ UNCHANGED <<clusterVars, missing, replicaset, granted, scriptVars>>

Argo ==
    /\ \E a \in Applications \ missing :
          \/ /\ \/ Refresh(a, "ready") \/ SyncFinish(a, "ready")
                \/ obj[a].switch = "on" /\ SyncStart(a)
             /\ UNCHANGED missing
          \/ /\ \E switch \in {"on", "off"}, rest \in Rests : SyncApply(a, switch, rest)
             /\ missing' = missing \ {IF a = "root" THEN "child" ELSE "deployment"}
    /\ UNCHANGED <<replicaset, job, tables, granted, scriptVars>>

\* Whatever somebody else does voids what the scripts have found so far.
Interfere == untouched' = {} /\ unsettled' = {} /\ UNCHANGED <<replicaset, op>>

SomebodyActs ==
    /\ Interfere
    /\ \/ /\ \E r \in Resources \ missing :
                \/ \E switch \in {"on", "off"}, rest \in Rests : Edit(r, switch, rest)
                \/ r \in Applications /\ SyncStart(r)
                \/ Delete(r) \/ Recreate(r)
          /\ UNCHANGED <<missing, job, tables, granted>>
       \/ /\ Meddle /\ \E r \in missing : missing' = missing \ {r}
          /\ UNCHANGED <<obj, rev, pods, job, tables, granted>>
       \/ /\ Meddle /\ job = "failed" /\ job' = "none"
          /\ UNCHANGED <<obj, rev, pods, missing, tables, granted>>
       \/ /\ Meddle /\ granted /\ granted' = FALSE
          /\ UNCHANGED <<obj, rev, pods, missing, job, tables>>

-----------------------------------------------------------------------------
(***************************************************************************)
(* The scripts                                                             *)
(***************************************************************************)
At(o, step) == op[o].step = step
Go(o, step) == op' = [op EXCEPT ![o].step = step, ![o].at = 1]
End(o, step) == op' = [op EXCEPT ![o] = [Idle EXCEPT !.step = step, !.passed = op[o].passed]]
Resource(o) == Order[op[o].at]

Last(o) == op[o].at = Len(Order)

\* On to the next object, or, after the last, to another step.
NextObject(o, step, after) ==
    op' = [op EXCEPT ![o].step = IF Last(o) THEN after ELSE step,
                     ![o].at = IF Last(o) THEN 1 ELSE @ + 1,
                     ![o].seen = NoObject]

Looks == UNCHANGED <<clusterVars, missing, replicaset, job, tables, granted, historyVars>>

\* After verify_release and verify_target, which concern no object here.
Begin(o, script) ==
    /\ At(o, "idle")
    /\ op' = [op EXCEPT ![o].script = script,
                        ![o].step = CASE script = "pause" -> "read"
                                      [] script = "deploy" -> "check"
                                      [] script = "health" -> "job"]
    /\ Looks

\* Mutation: an active sync does not disqualify an Application.
ValidEvenSyncing(r) == Identified(obj[r])

Valid(r) == IF r = "deployment" THEN Identified(obj[r]) ELSE ApplicationIdentified(obj[r])

ReadObject(o) ==
    /\ At(o, "read")
    /\ \/ Resource(o) \in missing /\ NextObject(o, "read", "check")
       \/ /\ Resource(o) \notin missing /\ Valid(Resource(o))
          /\ op' = [op EXCEPT ![o].step = "patch", ![o].seen = obj[Resource(o)]]
    /\ Looks

\* Mutation: the uid alone is tested.
SameIncarnation(r, seen) == r \notin missing /\ obj[r].uid = seen.uid

SameVersion(r, seen) == r \notin missing /\ Identity(obj[r]) = Identity(seen)

\* The policy written to an Application is the one read, with enabled = false.
\* After the last the script waits for the Pods it lists to be gone; others may
\* have come by then, so that what it can tell of Pods is what it checks next.
PatchObject(o) ==
    /\ At(o, "patch") /\ SameVersion(Resource(o), op[o].seen)
    /\ Specify(Resource(o), "off",
               IF Resource(o) = "deployment" THEN obj["deployment"].rest ELSE op[o].seen.rest)
    /\ NextObject(o, "read", "check")
    /\ UNCHANGED <<pods, meddled, missing, replicaset, job, tables, granted, historyVars>>

\* Mutation: a Deployment is looked at by its status alone.
QuietByStatus(r) == IF r = "deployment" THEN obj[r].status # "ready" ELSE obj[r].switch = "off"

\* verify_quiescent on an object.  The status is not compared with the
\* generation: "progressing", of another generation, may show no replica.
QuietObject(r) == obj[r].switch = "off" /\ (r = "deployment" => obj[r].status # "ready")

CheckObject(o) ==
    /\ At(o, "check")
    /\ Resource(o) \in missing \/ (Valid(Resource(o)) /\ QuietObject(Resource(o)))
    /\ NextObject(o, "check", "pods")
    /\ untouched' = IF op[o].at = 1 THEN untouched \cup {o} ELSE untouched
    /\ UNCHANGED <<clusterVars, missing, replicaset, job, tables, granted, unsettled>>

\* A Pod may be started still if the ReplicaSet has yet to be told.
CheckPods(o) ==
    /\ At(o, "pods") /\ pods = {}
    /\ op' = [op EXCEPT ![o].step = IF op[o].script = "pause" THEN "done" ELSE "job",
                        ![o].passed = TRUE]
    /\ unsettled' = IF replicaset = "off" THEN unsettled ELSE unsettled \cup ({o} \cap untouched)
    /\ UNCHANGED <<clusterVars, missing, replicaset, job, tables, granted, untouched>>

\* After ensure_identities and ensure_secret, which create nothing here.
FindJob(o) ==
    /\ At(o, "job")
    /\ \/ job # "none" /\ Go(o, "await")
       \/ job = "none" /\ op[o].script = "deploy" /\ Go(o, "create")
    /\ Looks

CreateJob(o) ==
    /\ At(o, "create") /\ job = "none"
    /\ job' = "running"
    /\ Go(o, "await")
    /\ UNCHANGED <<clusterVars, missing, replicaset, tables, granted, historyVars>>

\* Mutation: that the Job is still there is enough.
JobThere == job # "none"

JobSucceeded == job = "complete"

AwaitJob(o) ==
    /\ At(o, "await") /\ JobSucceeded
    /\ Go(o, "again") /\ Looks

ReadJobAgain(o) ==
    /\ At(o, "again") /\ JobSucceeded
    /\ Go(o, IF op[o].script = "deploy" THEN "grant" ELSE "verify") /\ Looks

\* One transaction, which fails as a whole where a table is missing.
GrantRuntime(o) ==
    /\ At(o, "grant") /\ tables
    /\ granted' = TRUE
    /\ Go(o, "verify")
    /\ UNCHANGED <<clusterVars, missing, replicaset, job, tables, historyVars>>

VerifyRuntime(o) ==
    /\ At(o, "verify") /\ granted
    /\ End(o, "done") /\ Looks

Fail(o) ==
    /\ ~At(o, "idle") /\ ~At(o, "done") /\ ~At(o, "failed")
    /\ End(o, "failed") /\ Looks

Script(o) ==
    \/ \E script \in Scripts : Begin(o, script)
    \/ ReadObject(o) \/ PatchObject(o) \/ CheckObject(o) \/ CheckPods(o)
    \/ FindJob(o) \/ CreateJob(o) \/ AwaitJob(o) \/ ReadJobAgain(o)
    \/ GrantRuntime(o) \/ VerifyRuntime(o) \/ Fail(o)

Next ==
    \/ TellReplicaSet \/ PodStarts \/ PodStops \/ PodGone \/ Report \/ JobEnds \/ Argo
    \/ SomebodyActs
    \/ \E o \in Operators : Script(o)

Spec == Init /\ [][Next]_vars

-----------------------------------------------------------------------------
(***************************************************************************)
(* Properties                                                              *)
(***************************************************************************)
Operation == [script: {"pause", "deploy", "health"}, step: Steps, at: 1..3, seen: Object,
              passed: BOOLEAN]

TypeOK ==
    /\ ClusterTypeOK
    /\ missing \in SUBSET Resources /\ replicaset \in {"on", "off"}
    /\ job \in JobStates /\ tables \in BOOLEAN /\ granted \in BOOLEAN
    /\ op \in [Operators -> Operation] /\ untouched \in SUBSET Operators
    /\ unsettled \in SUBSET Operators

\* verify_quiescent looks at the four in one order, once.  When it has passed,
\* then until somebody other than the scripts acts no reconciler is enabled or
\* syncing and the Deployment is scaled to zero, also while a script that was
\* killed has left a migration Job running; and no Pod runs, provided the
\* ReplicaSet had been told of the scaling when the Pods were listed.  Where it
\* had not, a Pod may be started after the look.
QuietHolds ==
    \A o \in untouched :
        op[o].passed =>
            /\ \A a \in Applications \ missing : Paused(obj[a])
            /\ Wanted = "off"
            /\ o \in unsettled \/ pods = {}

\* "Apply one optimistic-concurrency patch without replacing an object"
\* (control_plane_maintenance.py:122): whatever others write to it between a
\* script's reading and its patch, a script's step changes nothing of it but
\* its switch, and only to off.
ScriptsOnlySwitchOff ==
    [][op' # op =>
          \A r \in Resources :
              obj'[r] # obj[r] =>
                  /\ obj'[r].switch = "off"
                  /\ <<obj'[r].rest, obj'[r].uid, obj'[r].phase>>
                         = <<obj[r].rest, obj[r].uid, obj[r].phase>>]_vars

\* "Create or verify the migration Job and exact runtime privileges": however
\* many deployments run, the runtime role has its privileges only once the one
\* Job of the release is complete, and no second one runs over them.
GrantsFollowMigration == granted => job = "complete" /\ tables

-----------------------------------------------------------------------------
(***************************************************************************)
(* The inductive invariant                                                 *)
(***************************************************************************)
\* What a script is about to patch it has read, then or in a version before.
VersionsSeen ==
    \A o \in Operators : At(o, "patch") => NoNewer(op[o].seen, obj[Resource(o)])

\* A complete Job has migrated, stays complete, and precedes the grants.
JobFirst ==
    /\ job = "complete" => tables
    /\ granted => job = "complete"
    /\ \A o \in Operators : At(o, "again") \/ At(o, "grant") => job = "complete"

\* Nobody but people can undo it, once the objects before it are at rest too.
AtRest(r) ==
    r \in missing \/ (IF r = "deployment" THEN obj[r].switch = "off" ELSE Paused(obj[r]))

\* The objects that a check under way or behind has found at rest still are.
Found(o) ==
    {Order[i] : i \in {j \in 1..3 : op[o].passed \/ At(o, "pods")
                                      \/ (At(o, "check") /\ j < op[o].at)}}

FoundAtRest ==
    \A o \in Operators :
       /\ op[o].passed => op[o].step \notin {"idle", "read", "patch", "check", "pods"}
       /\ o \in untouched =>
             /\ op[o].step \notin {"idle", "read", "patch"}
             /\ \A r \in Found(o) : AtRest(r)
             /\ op[o].passed /\ o \notin unsettled => replicaset = "off" /\ pods = {}

\* The inductive invariant, from which the properties above follow.
OperatorInv == TypeOK /\ VersionsDrawn /\ VersionsSeen /\ JobFirst /\ FoundAtRest
=============================================================================
