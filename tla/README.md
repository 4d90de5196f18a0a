# Verification of perfeng-environment

This directory holds TLA+ models of the concurrent core of perfeng-environment,
TLC configurations that check them on small instances, and proofs, checked by
TLAPS, that the safety properties hold for every value of the constants.

The repository describes a local performance-engineering environment: a kind
cluster with Argo CD and Argo Workflows, PostgreSQL, SeaweedFS and the
control plane, together with Python commands that operate it. Most of the code
validates documents (locks, schemas, digests) and is sequential. What is hard to
get right, and hard to test, are the programs that change shared objects while
others change them too, or that may be stopped half-way and run again: the release workflows in
`gitops/release-workflows/`, and the scripts under `scripts/` that provision credentials, pause and
migrate, publish evidence and accept a control plane.

## The system

| Part | State | Operations | Interacts with |
|---|---|---|---|
| Applications `perfeng-local-root` and `perfeng-local-control-plane`, Deployment `control-plane` and its Pods | specs, versions, sync operations, replicas | sync, refresh, edit, delete and recreate, scale | Argo CD, the Kubernetes controllers, operators, the workflows |
| Maintenance pause and checkpoint (`release-maintenance-pause-v1.yaml`, `release-maintenance-checkpoint-v3.yaml`, `maintenance-resources-v1.yaml`, `verify-release-quiescence-v3.yaml`) | step outputs, the mutex `perfeng-local-external-state` | snapshot, accept the baseline, guarded JSON patches, observe quiescence | the three objects, the ledger |
| Adoption (`release-adopt-existing-v3.yaml`, `plan-release-adoption-v3.yaml`, `adoption-records.yaml`) | the ConfigMaps of namespace `perfeng-release-ledger`, step outputs, the mutex | plan, create receipt, create pointer, read back, publish | the ledger, the two Applications |
| Preflight, readiness, task selection | none | pure verdicts and sampled readings | they guard every workflow |
| Database preparation (`release-schema-migration-v2`, `release-schema-qualification-v1`, `release-runtime-grants-v2`, `release-database-prepare-v1`) | Jobs, the database schema and grants | retained admission, migrate, qualify, grant | a checkpoint, the ledger, the mutex |
| External state (`release-external-state`, `prepare-*`) | bucket, roles, registry | create if absent | the mutex |
| Operator scripts (`control_plane_maintenance.py`, `control_plane_migration.py`) | none of their own | pause, deploy, health, without the mutex | the same three objects, the migration Job, the database |
| Platform credentials (`postgres.py`, `object_store.py`, `storage_access.py`, `control_plane_database.py`, `control_plane_runtime.py`, registries, `control_plane_health.py`) | Secrets and ConfigMaps in several namespaces, PostgreSQL roles, retained volumes | create if absent, validate, refuse | PostgreSQL, the object server, the control-plane Pod |
| GitOps bootstrap and smoke test (`gitops.py`, `gitops_status.py`, `control_plane_smoke.py`) | none of their own | install, wait, submit, restart, verify | Argo CD, the credentials, the control plane |
| Artifact publication (`artifact_upload.py` and its users, `policy_publish.py`, the manifest assemblers, `k6_run.py`) | local files and receipts, uploader Pod or Job, bucket | exclusive receipt, conditional put, read-back | bucket |
| Kubernetes acceptance (`kubernetes_acceptance/`) with the cluster's qualification (`kubernetes_benchmark*.py`) | journal, observed revisions, captured evidence | capture, submit, approve, cancel, restart the controller, attest clean-up | control-plane API, cluster |
| Native gateway and target | processes, installed files | start, stop, verify | host |
| Cluster commands, benchmark campaigns, validators | little | drive external tools, check documents | cluster, files |

What is hard in these parts, and the properties that would be violated if the code
got it wrong, is listed under `hazards` in `PROJECT.json`, each at its line.
In short:

* The workflows' mutex serialises workflows only. Argo CD, the Deployment controller and
  operators write to the same objects between any two steps of a run.
* A run may be stopped at any step (a refused check, a deadline, `argo stop`), which
  gives the mutex back although a request it sent may still be committed.
* A response may be lost, and the transport of the executor may deliver a request again.
* Verdicts are computed from several readings, each of them possibly stale.
* The scripts hold no mutex at all: two operators may run them side by side, and a script that is killed
  leaves whatever it had created, and perhaps a request still to be carried out.
* A server takes a stored credential into use only when it starts, and a retained volume keeps the one it was
  initialised with.
* A file may be rewritten between being read for its digest and being sent.

## Modules

| Module | What it is |
|---|---|
| `ControlPlaneObjects` | the three objects, the Pods, the predicates of `release_policy_v3.py` on them, and every writer except the workflows |
| `MaintenancePause` | the pause and the checkpoint workflow over those objects |
| `ReleaseLedger` | abstract: an append-only register of receipts with one pointer, set once |
| `AdoptExisting` | the adoption workflow over the ledger; it implements `ReleaseLedger` |
| `DatabaseUpgrade` | abstract: the schema goes forward, grants are those of the schema, a preparation succeeds on a prepared database |
| `DatabasePreparation` | the four database workflows over `ControlPlaneObjects`, the ledger's records, Jobs and PostgreSQL; it implements `DatabaseUpgrade` |
| `OperatorPause` | pause, deploy and health of the operators' scripts over `ControlPlaneObjects`, several at once |
| `PlatformCredentials` | every `ensure_*` function, the scripts made of them, GitOps bootstrap, health and smoke test, and the servers that use the credentials |
| `ImmutableEvidence` | abstract: objects are written once, and every published reference resolves |
| `ArtifactPublication` | the publications, the assemblers and the k6 Job; it implements `ImmutableEvidence` |
| `ClusterQualification` | capture, recheck and verdict on the cluster that is to be measured |
| `AcceptanceRun` | one acceptance session on the qualified cluster (it extends `ClusterQualification`), beside the control plane and other operators |
| `MC*` | instances for TLC |
| `ControlPlaneObjects_proofs`, `MaintenancePause_proofs`, `AdoptExisting_proofs`, `DatabasePreparation_proofs`, `OperatorPause_proofs`, `ArtifactPublication_proofs`, `AcceptanceRun_proofs`, `PlatformCredentials_proofs` | theorems and proofs |

`PROJECT.json` maps every definition to the lines it translates.

### ControlPlaneObjects

An object is a record of what the workflows' predicates can tell apart. `uid` is the
incarnation and `rv` its `resourceVersion`; both are drawn from one store revision,
as etcd does. `switch` is `syncPolicy.automated.enabled` of an Application and
`replicas` of the Deployment (on: 1, off: 0). `rest` is the remaining spec and
metadata, with `OwnedRests` the values that carry the reviewed owner and source.
`phase` tells a settled object from one with a sync operation or a deletion timestamp;
`status` tells whether it is Synced and Healthy, fully stopped, or neither.

Writers: an operator's `Edit`, Argo CD's `Refresh` (an Application has no status
subresource, so that even an unchanged verdict advances its version), `SyncStart`,
`SyncApply` (a sync of the root writes the child, one of the child writes the
Deployment), `SyncFinish`, `Delete` and `Recreate`, and the controllers'
`StartPod`, `StopPod`, `RemovePod`, `ReportReplicas`. They are grouped by who may
make them: `Controllers`; `ArgoCD`, which by itself starts a sync only of an Application whose
automation is on; and `People`, who may do anything else. Argo CD, the API server and the
controllers are not in the repository; they are marked external in the map and may do
whatever their interface allows.

### MaintenancePause

One action per workflow step, or per group of steps that are one reading followed by
pure verdicts. `pc` and `target` name the step; `base`, `seen`, `before`, `podList` and
`after` are the step outputs that later steps use. There is one set of outputs, since
the mutex admits one run at a time (`MutexHeld`).

* `Start` is the acceptance of the mutex and preflight. `ReadApplication`,
  `ReadDeployment`, `ReadRoot`, `ReadPointer`, `ReadReceipt` and `AcceptBaseline` are the steps `application`
  to `baseline`, one reading each. The second sample of the root is the one passed to its guard, as in the YAML.
* `LedgerWrite` is everybody else in the ledger: the receipt is removed or created anew, for the live or for another
  root, and the pointer is removed, restored or pointed elsewhere, between any two readings. `baseline` is history: the
  ledger and the Applications at the reading of the pointer.
* `Guard` and `Patch` are `guard-*` and `pause-*`. `Patch` only sends the request; `Commit`
  is the API server applying the JSON patch if its `test` operations pass, possibly
  late, possibly again, with or without the response reaching the run; `Discard` is the
  refusal or loss.
* `Collect`, `ListPods`, `Recollect`, `Publish`, `Retry` are `run_quiescence`: seven
  readings, one at a time, then `verify_quiescence`; a pause run retries the whole
  observation, a checkpoint run does not.
* `Stop` ends a run at any step.

### AdoptExisting and ReleaseLedger

A reading of a ledger record is a set with at most one record, empty for `null`.
`Compatible` is the verdict of `plan_adoption` in all its uses: the root samples agree and are
converged, a receipt has exactly the payload of this request, a pointer names exactly
this incarnation of this receipt. Provenance (who created the receipt first) is kept as
`origin` and, as in the code, not compared. Creates are requests like the patches above;
they never replace a stored record. Outsiders remove, restore, forge and edit records
and change or recreate the Applications.

`ReleaseLedger` says what this is for, without runs, requests or failures: `Record`,
`Point`, `Publish`. The refinement maps the stored records to themselves and the pairs
published by successful runs to `adopted`.

### DatabasePreparation and DatabaseUpgrade

The mutex admits one run at a time, so that there is again one set of step outputs:
`kind` is the holder's workflow, `done` counts its completed tasks, and `pc` is the step within
the task. `ReadPointer`, `ReadReceipt`, `ObserveQuiescence`, `ReceiptStable` and `Admit` are the
retained admission, which every task goes through anew; in a preparation, the admission of
`qualify` reads everything again, and so does that of `grant`.

* `ObserveQuiescence` is one step, although the code takes seven readings: `CheckpointSound`, proved of
  `MaintenancePause`, says that what they give was true of one instant. `checkpoint` keeps what else was
  true then (the ledger's records, how often people had written) as history.
* `CreateJob` only sends the create. `CommitJob` is the API server, possibly late, possibly again, with or
  without the response reaching the run. A Job is named by its task and the workflow's UID, and a create
  never replaces one.
* `Begin`, `CommitWork` and `RollBack` are the transaction of the Job's Pod: `Admits` is the advisory lock
  and the guards of the SQL. `JobSucceeds` and `JobFails` are the Job's verdict. A Pod being killed may
  still begin, and its transaction commit, after the Job was declared failed.
* `Stop` ends a run at any step and gives the mutex back; the next run may work on the database
  while requests, Jobs and transactions of the first are still under way.
* The migration itself is in another repository. It is modelled by how this one relies on it: it takes the advisory lock
  that `runtime-grants.sql` names and leaves exactly the selected migrations.

`DatabaseUpgrade` has three steps: `Migrate`, `Grant` (for the schema of that moment) and `Prepare`
(a preparation succeeds; schema and grants are the selected ones).

### OperatorPause

`op` holds, per operator, the script, its step, the number of the object it is about and what it has read of it.
`ReadObject` and `PatchObject` are one pass of `pause` (`read_optional`, then `patch`, whose JSON patch tests UID and
`resourceVersion`); `CheckObject` and `CheckPods` are `verify_quiescent`; `FindJob` to `VerifyRuntime` are the rest of
`deploy` and `health`. Objects may be missing, and the scripts skip a missing one. `Fail` is any refusal, deadline
or interruption. `Begin` follows `verify_release` and `verify_target`, which concern no object of the model; waiting
for Pods and looking at them is one step, since nothing that a wait has seen is used later.

Unlike `MaintenancePause`, which may use `StopPod` as soon as the Deployment is scaled to zero, this module
keeps `replicaset`: the ReplicaSet may be told late, so that a Pod is started after `verify_quiescent` has listed none.
The initial objects are all serving or all paused, with the root or everything possibly missing; the mixed states
arise from interrupted pauses. `untouched` is history: the operators since whose first check nobody else has acted.

### PlatformCredentials

A stage is a record of what an `ensure_*` function reads (in order), what must exist (`needs`), what it creates (`owns`, in
order) and which objects forbid that the first of them be drawn anew (`traces`). `Script` lists the calls of every
command, each of a stage that may create or only verify. `op` says where an operator is: the script, its call,
how many objects have been read and what was `seen`, or else what is `expected` of the stage's objects and which of
them are still to be written (`writes`). `Step` is one request: begin, read the next object and after the last one decide
(`Decide`), create the next missing object (`Due`), confirm, or stop. A stopped script's last create may
still be carried out (`late`). Objects hold generations in place of random
credentials, so that two copies agree exactly if they hold the same generation. `StartPostgres`, `StartObjectServer`
and `StartControlPlane` take what is stored into use; volumes are retained when a server is deleted.

Assumptions: people delete objects only while no script is running and none of their requests is under way, as a
concurrent deletion would invalidate any confirmation; the bootstrap of GitOps runs after the stages that
`Taskfile.yml` puts before it; Argo CD creates the objects of one group of Applications together (`Reconcile`); and the status
it reports may be stale, so that a wait may end at any time once the Applications exist. The online verification of
a GHCR token is a refusal. The rotation of the repository credential is not modelled.

The documentation (`docs/local-gitops.md:267`) has the bootstrap wait until the root is Synced and Healthy; the code
waits for Synced only. No property depends on it.

### ArtifactPublication and ImmutableEvidence

A content is `Produced(version)`, `Manifest(references)` or `Damaged`, and stands for its own digest. A publisher
goes through `Begin` (the files supplied must be those of the measurements' mode, `SuitsMode`), `CheckClaim` (kube-burner only), `Reference`, `Reserve` (exclusive creation of the receipt), `Verify`,
then per source `Send`, `Put` (condition: the key is unused) and `ReadBack`, and `WriteReceipt`. `Fail` unlinks the
receipt, `Kill` does not. `Leave` keeps a put whose Pod outlives its publisher; `CarryOut` performs it. Policies are frozen when
they are read, all other files are read again. `AssembleDiagnostics` and `AssembleRawResult` write
manifests from receipts; the raw result of a baseline run names no diagnostics, that of any other mode must. `StartJob` to
`ObserveJob` are the Job of `k6_run.py`, its uploads and its marker. An upload may leave its object intact or damaged and the Job
fail in either case (the answer lost, the read-back failing, the deadline passing), or be carried out after the
Job (`LateUpload`). `Produce` and `ClaimExecution` are the tools that rewrite files; `Baselines` are the versions of the measurements
whose mode is baseline. All keys belong to one performance run; two runs share none.

`ImmutableEvidence` has two steps: `Store` an object under an unused key, and `Claim` references that all
resolve. The refinement maps the bucket to the objects and the references in receipts to the claims.

### ClusterQualification and AcceptanceRun

`ClusterQualification` reads namespace, nodes, images, Pods and metrics one after the other while nodes are disturbed or
replaced, possibly under their old names, and rechecks nodes and cluster at the end. What could not be read is `UNKNOWN`.

`AcceptanceRun` has one action per request of the session; `session.step` names it. The Runs it submits are
`reference`, `cancellation` and `decision`; there may be an `earlier` Run with a baseline, and a stranger's `other` Run.
`run` and `hold` are the control plane's database, `journal` what the session has recorded on disk before each
write: the session before its client Pod (`PlanSession`, `CreateClient`), a Run before its submission, the approval, and the
hold before the restart (`CheckpointHold`), each a step before the write it announces. What the control plane does in order (dispatch, fence, drain, release, complete or abort) is always
possible. What must not happen (a crash, a Run that fails, a hold released with something left behind or taken
anew, a report of a wrong reference, a stranger who submits or moves the baseline) may happen `MaxFaults` times, the
cluster's changes during the qualification included. Reports, once made, do not change. `Fail` may follow
any step: a lost answer, a deadline or an interruption.

## What is checked

| Run | Question | Instance |
|---|---|---|
| `pause_interleaved` | do a pause run's promises survive late, lost and repeated patches, a stop at any step, and one disruptive write by anybody, to the objects or the ledger, at any step? | one run, two observations, one write, reviewed and unreviewed metadata; 1.54 million states |
| `checkpoint_meddled` | do seven readings at different times prove one quiet instant? | one checkpoint run, two writes; 2.66 million states |
| `pause_runs_end` | does the inductive invariant hold, and does every submission end, when requests of one run overlap another? | two runs of either kind, no write by others; 0.23 million states, with fairness |
| `adopt_disturbed` | was a published baseline stored, and of the live root? | two runs of one request, three writes by others; 1.93 million states up to symmetry |
| `prepare_overlapping` | do database workflows whose Jobs outlive their runs implement `DatabaseUpgrade`? | two runs of any of the four workflows, no write by others; 815 602 states |
| `migrate_meddled` | was a Job's baseline the one under observation, and who can end the maintenance under it? | one migration, two writes by others; 711 570 states |
| `adopt_undisturbed` | do interrupted, overlapping adoptions implement an append-only ledger, and can they be completed? | three runs, two competing requests; 73 120 states |
| `operators_maintain` | without a mutex, is an update lost, and does a check that passed mean a lasting pause? | two operators, any of three scripts each, two writes by others; 2.36 million states up to symmetry |
| `credentials_provisioned` | do scripts that overlap, are stopped anywhere and run again keep stored credentials and those in use the same? | two runs of eleven scripts, two losses; 1.73 million states up to symmetry |
| `evidence_published` | do publications that are killed, repeated and beside one another implement `ImmutableEvidence`, and what does the marker of a k6 capture say? | two publishers, three receipts, up to four publications or Jobs, two rewrites of files, baseline and diagnostic modes; 664 224 states up to symmetry |
| `acceptance_passed` | what has an acceptance that passes shown? | one session, two nodes, two faults; 2.15 million states up to symmetry |
| `restart_during_hold` | is the control plane always restarted during the cleanup, as the code says? It is not (below). | no fault at all |

### Properties

`CheckpointSound`: what a checkpoint records was true of one instant, the one at which the Pods
were listed. The code never sees that instant: it has the versions before and after, and
the argument is that an equal version means an unchanged object. Comparing content
instead of versions, or not comparing at all, breaks it. `PatchLandsOnGuarded`: no lost
update; a patch meets exactly the version its guard approved, even when it arrives after
its run was stopped. `OnlyAdoptedPatched`: pointer, receipt and the second sample of the root are read one after the
other, and nothing is read again; yet when the pointer was read, the ledger held this request's receipt, referenced by the
pointer, and the Applications patched were live and those it records. The argument is that a receipt's UID is drawn
once: to trust any receipt of the request's name breaks it. `PausedInOrder`: the child is patched after the root and the
Deployment after the child, so that no active reconciler can undo a later write.
`PauseComplete`: a pause that publishes has patched all three.
`ResentPatchIsNoOp`: delivering a patch again cannot undo a resumption.
`EverySubmissionEnds` (liveness): every submission ends and gives the mutex back.

`BaselineStored`: pointer and receipt of a published baseline were stored together at one
instant, although they are read one after the other. `BaselineOfLiveRoot`: the receipt names the
root that was converged when the run finished. Undisturbed by outsiders,
`PointerNeverDangles`, `OneBaseline` (all runs publish one pair), and
`RetryNeverRefused`: after an interrupted adoption, no planning step of a fresh run of the same request refuses to go on for what
the first one left behind. It is about these decisions; the create of the retry itself may still meet `AlreadyExists`
when an earlier create lands after its reading, and the next run goes on from there. `LedgerSpec` is the refinement.

`UpgradeSpec` is the refinement of `DatabaseUpgrade`: the schema never goes back, grants are for the schema they
were made on, and no preparation succeeds unless the schema and its grants are the selected ones, whatever an earlier
run has left under way. It depends on the advisory lock: without it, a late migration of a
stopped run may commit between the beginning and the end of the grants.
`AdmittedUnderBaseline`: when quiescence was observed, the ledger held the very receipt on which
a Job was admitted and an incarnation of the pointer that still named it later, and the Applications observed were those
the receipt recorded. The four records are read one after the other and none is locked; the argument is that
a record read before and after the observation with one UID was stored in between.
`OnlyPeopleInterrupt`: nothing locks the control plane either, from the observation to the end of the transaction; but
unless people write to it, it stays quiet, because no sync is under way and none is automated. The pause
alone would not be enough: were a running sync overlooked, it could start the Deployment again.
`DatabaseInv` is the inductive invariant.

`ScriptsOnlySwitchOff`: no lost update by the operators' scripts, although they write the whole policy they have read.
`QuietHolds`: `verify_quiescent` looks at each object once and compares no versions afterwards, unlike the
workflow's observation. For the switches this is enough: once root, child and Deployment have been seen at rest in this order, nothing
but people can wake the one seen before, hence not the next one either. For the Pods it is not. They stay away if the
ReplicaSet had been told before they were listed, which the code cannot see; otherwise a Pod may start after a look that
passed. `unsettled` is history: the operators who have listed the Pods too early in this sense. `GrantsFollowMigration`: however many
deployments overlap, grants are made after the one Job of the release is complete.

`CredentialsFit`: a stored password is the one its volume or its roles were created with, whatever is lost or interrupted;
the scripts refuse to draw a credential anew where they find a trace of the lost one. `CopiesAgree` and
`RetryAccepted`: unless somebody deletes an object, all copies of a credential agree, and what any scripts left behind is accepted by
all stages. `SuccessMeansUsable`: a health check reads its objects one by one, but when it reports success they
fit together, and the Pod has logged in with the stored passwords. It does not claim that the Pod holds the stored
storage identity: `verify_resources` accepts a Pod by its image and readiness (`control_plane_health.py:103`) and
compares nothing of what it was started with, so that a Pod older than an identity which was lost and
drawn anew is healthy. That the Pod is `Current` is claimed of a smoke test, of a check after a restart, and of a
health check as long as nothing was deleted. The attempt to prove more is what showed this: with more runs and losses than
TLC's instance allows, the stronger claim is false.

`EvidenceSpec` is the refinement of `ImmutableEvidence`. `ManifestsResolve`: no stored manifest, local manifest or receipt
names an object that is not stored as named. `DiagnosticsAgree`: the raw result and the diagnostics it names are about
the same evidence, although both are assembled from local files; the raw result of a baseline run names the measurements alone.
`CaptureMarked`: whoever finds the marker of a k6 run finds all outputs as it lists them, also when the Job failed after
storing it, and a run reported as captured is complete. `PolicyAsReviewed`: the bytes stored as a policy are those
of a preview (or were damaged on the way, which the read-back reports).

`QualificationSound`: state and metrics of a node in accepted evidence are of the one node it names, although metrics are
looked up by name. Of the images, which are recorded without the identity of a node, it says only that those inspected were the
locked ones. `PassedMeansRecovered`: the Pod was replaced, the cancelled Run was aborted, and the very reservation that was seen
fenced before the deletion was released clean, and not taken anew in between. It does not say that the Run was aborted after the
deletion, which need not be so (below). `PassedMeansDecided`: the last Run was decided
against the source of the approved baseline, itself completed and clean. `ApprovedOnEvidence`: the session never approves
a baseline on other evidence than a completed Run's, whoever created or moved it. `JournalCoversWrites`: the
client Pod, the Runs and the approval that a session may have left are in its journal, wherever it is interrupted, and so is the
hold under which it may have deleted the Pod of the controller.

`restart_during_hold` is a finding. `kubernetes_acceptance/workflow.py:110` describes its step as "Restart during durable cancellation
cleanup and prove that exact hold recovers". The session reads the hold, compares it (`lifecycle.py:240`) and then
sends the deletion of the Pod. If the cleanup ends in between, the Pod is restarted after the release, and nothing
read afterwards tells the difference, so that the acceptance passes without having shown what it is for. The window is
narrow: a cleanup drains for at least 120 seconds (`lifecycle.py:53`), so that the drain must be all but over when the hold is last read.
`PassedMeansRecovered` still holds.

For each of these, `PROJECT.json` names a plausible mistake in the code (a dropped test, a
reused reading, an apply in place of a create, an off-by-one in the retries) under which
TLC finds the property violated.

### Bounds

* `MaxMeddling` bounds the writes by outsiders. One write is enough to invalidate any single
  reading; two are needed to change something and undo it before it is read again; three
  to remove a receipt, restore it and edit the pointer between the two readings of
  an adoption. Steps that complete what was begun (a sync finishing, an object being recreated, the
  controllers) do not count.
* `Attempts` is 2 where the workflow allows five observations (`limit: 4`): what matters is that
  there is a first, a later and a last one.
* `Runs` are two or three: an interrupted run, its successor, and for the ledger a
  competing request.
* Two writes break any admission that rests on a single reading: one removes a record, the next restores it.
  For the database, two runs are a run that was stopped and the one that comes after it; the four workflows
  are combined freely, and each initial database (no schema, an older one, the selected one, with and
  without grants) is tried.
* Two operators, two scripts: every hazard of the scripts is between one that was stopped, or is under way, and one other.
  In `operators_maintain` each operator runs one script, and two writes of others suffice to resume and pause, or to
  delete and recreate, between two steps. `MCOperatorPause` identifies states that differ only in version numbers (`View`):
  versions are compared with those read only, for equality, and each new one is fresh.
* Two losses: one removes a credential, another the server or the trace that would show its loss. The database volume is kept.
* In `evidence_published` evidence is published at most twice, which is an interrupted attempt and its repetition, or two kinds
  beside one another; diagnostics may follow as the third run and the raw result as the fourth, so that a raw result may be assembled
  after two attempts at its evidence. Two rewrites replace a file and replace it again.
* `MaxFaults` is 2: one fault may be hidden by another (a hold released badly and then taken anew).
* Revisions and UIDs are bounded by the above, and not by a constant.

The proofs need none of these bounds.

### Fairness

`FairSpec` assumes weak fairness of two things. The Argo Workflows controller either advances the
running workflow or ends it: each template has an `activeDeadlineSeconds`, and so has the
workflow; hence `WF_vars(RunStep \/ Stop)`, which does not promise that any particular
step succeeds. The controller starts a submission while the mutex is free:
weak fairness of `Start`. Nothing is assumed of Argo CD, of operators or of the arrival of a response.

The other specifications state safety only. The scripts have deadlines, but every one of them may end in a refusal, and
none is started again by anything but an operator.

Deadlock is not checked, because every run may have ended and the controllers settled.

## What is proved

All theorems are for arbitrary sets of runs, operators, publishers and receipts, any number of attempts, edits
and publications, any amount of meddling and any metadata values. They rest on the named assumptions of the modules: `NoRun` is no
run, workflow kinds are those of the code, `Attempts` is positive, `OwnedRests` is a nonempty
subset of `Rests`, `Digests` is not empty, scripts and kinds of publication are those of the code, rewritten files are files of
the model, names of scripts are names of the code's, bounds are natural numbers.

`MaintenancePause_proofs`: `Invariance` (`Spec => []IInv`), and from it `TypeCorrect`,
`CheckpointsAreSound`, `PatchesLandOnGuarded`, `OnlyAdoptedArePatched`,
`PatchesAreOrdered`, `PausesAreComplete`, `ResentPatchesAreNoOps`.

The safety properties are not inductive. The argument of `IInv` is this:

1. *Versions.* `ControlPlaneObjects_proofs` shows that every write by
   anybody leaves an object alone or advances its version to a fresh one
   (`VersionsDrawn`, and `NoNewer` as the order of two readings of one object). Hence a reading
   stays a reading of the stored version or of an older one.
2. *Readings in order* (`ReadingsOrdered`). The first readings are no newer than the objects
   when the Pods were listed, and these no newer than the second readings. If the first and second
   agree on the version, all three are the same; with `Publish` this is `CheckpointSound`.
3. *Patches* (`PatchesGuarded`). A request carries a guarded reading; if its tests
   pass, the stored object has the version of the reading and is the reading. This is `PatchLandsOnGuarded`.
   With `IncarnationsOrdered` and `ReceiptsOlder` it gives `OnlyAdoptedPatched`: UIDs only grow, so an Application with one
   UID in two readings was live in between, and a receipt with the UID that the pointer named was there when the pointer was read.
4. *Order* (`PatchesFollow`, `MutexHeld`). What the holder has patched can be told from its step, and
   a request follows the commits of the objects before it, also when its run has ended.
5. *Deliveries* (`PatchedOnce`). A run sends one patch per object. Its first commit has used up the
   version it tests, or was a no-op; so a second delivery changes nothing.

`AdoptExisting_proofs`: `Invariance` (`Spec => []AdoptionInv`), `BaselinesWereStored`,
`BaselinesAreOfLiveRoots`; and with `MaxMeddling = 0`, `PointersNeverDangle`, `BaselinesAgree`,
`RetriesAreNeverRefused` and the refinement `ImplementsLedger` (`Spec => LedgerSpec`).
Here the strengthening is about UIDs: `UIDsDrawn` (a UID is drawn once, and everything
read or requested carries one drawn before) and `NamedBefore`: a receipt that
a reading of the pointer names and that is stored now was stored when the pointer was read, because a receipt
created later has a UID that no earlier pointer can name. `LedgerGrows` and
`RunUndisturbed` describe the ledger and the readings while no outsider writes.

`DatabasePreparation_proofs`: `Invariance` (`Spec => []DatabaseInv`), `JobsAreAdmitted`
(`[]AdmittedUnderBaseline`), `MaintenanceOutlastsJobs` (`[]OnlyPeopleInterrupt`) and the refinement
`ImplementsUpgrade` (`Spec => UpgradeSpec`), with any writes by others. `DatabaseInv` adds:

1. *Admission.* While a run is between the observation and the admission, a receipt or pointer
   that is still stored was stored at the observation, because a new one would have a UID above any that was
   read (`UIDsDrawn`). So the second reading carries the observation over to the Job.
2. *Maintained.* It speaks of every observation on which something may still be done, of requests and
   Jobs of runs long stopped too. `QuietUntilPeople` of `ControlPlaneObjects_proofs` shows that
   neither Argo CD nor the controllers leave a quiet control plane.
3. *Transactions.* At most one migration or grant is open (the lock), so that an open grant's schema is still
   the one it began on; and what is committed can be told from the database.
4. *PreparedInOrder.* A preparation asks for grants only as its third task, after a migration of its own has
   committed, so that its grants begin on the selected schema.

`OperatorPause_proofs`: `Invariance` (`Spec => []OperatorInv`), `QuietOutlasts` (`[]QuietHolds`), `GrantsAreOrdered`
(`[]GrantsFollowMigration`) and `PatchesOnlySwitchOff` (`Spec => ScriptsOnlySwitchOff`), on the lemmas of
`ControlPlaneObjects_proofs`. `OperatorInv` adds:

1. *VersionsSeen.* What a script is about to patch it has read in the stored version or an older one; if the test of the patch
   passes, what it read is what is stored, and the patch changes the switch only.
2. *FoundAtRest.* What an untouched check has found at rest still is (`RestKept`): an Application that is paused and not
   syncing is woken only by its parent's sync or by people, and the parent was found at rest first. The
   Deployment is written by the child's sync alone. This is why the order of the check matters. For Pods it needs the
   ReplicaSet to have been told, so it leaves the `unsettled` operators out.
3. *JobFirst.* A complete Job has migrated and stays complete, and precedes the grants.

`ArtifactPublication_proofs`: `Invariance` (`Spec => []PublicationInv`), `NothingDangles` (`[]ManifestsResolve`),
`PoliciesAreReviewed` (`[]PolicyAsReviewed`), `RawResultsAgree` (`[]DiagnosticsAgree`), `MarkersAreKept` (`[]CaptureMarked`) and the
refinement `ImplementsEvidence` (`Spec => EvidenceSpec`). `PublicationInv` adds:

1. *OwnReceipt.* The receipt of a publication under way is reserved by it alone, and says nothing yet. So writing it only
   adds references, and removing an incomplete one takes none away.
2. *DoneIsStored.* The sources counted as done resolve. As objects are written once (`StoreKept`), they go on to.
3. *AllGrounded.* Whatever bytes refer to is stored, wherever they are: in local files, in references being published, in puts
   left behind. So a manifest may be stored at any time, late too, and never dangles.
4. *ManifestsAsLocal* and *RawResultAssembled*. Raw result and diagnostics are stored as some local file of theirs was, and a
   raw result was assembled from the receipt of a baseline run, or from diagnostics and receipts that named the same references. These resolve, and resolving
   references about one key are the same; so the stored raw result agrees with the stored diagnostics.
5. *JobInOrder*. The Job has uploaded its outputs in order; a marker that is stored intact, be the Job complete or failed, lists
   them all.

`AcceptanceRun_proofs`: `Invariance` (`Spec => []AcceptanceInv`), and from it `AcceptanceTypes`, `QualificationIsSound`
(`[]QualificationSound`), `PassedImpliesRecovered` (`[]PassedMeansRecovered`), `PassedImpliesDecided`
(`[]PassedMeansDecided`), `ApprovalsRestOnEvidence` (`[]ApprovedOnEvidence`) and `JournalPrecedesWrites`
(`[]JournalCoversWrites`). `AcceptanceInv` adds:

1. *CaptureBehind* and *CaptureUndisturbed*. Identities of nodes and cluster only grow, so what a capture has read is no newer
   than what is there, and metrics are no older than the inventory. Where the recheck finds the identity of the inventory,
   nothing in between was of another node.
2. *HoldsFollowRuns*. A Run that has not been dispatched holds nothing, and only a completed one has a report. With the lemma
   `MovesKeep` Runs that have completed or been aborted are final, and so are the holds they released.
3. *RevisionsIdentify*. The record that the session keeps is the baseline as long as their revisions agree, so a transition at the
   expected revision changes the baseline that was examined, not one that a stranger has moved.
4. *IntentsInOrder* and *CheckpointsInOrder*. A Run is submitted in its phase, after its intent and once; the client is created
   after the session's plan, and the Pod deleted after the checkpoint of the hold seen fenced.
5. *Established*. Step by step, what the session relies on has been seen before: the source completed, cleaned up and without a
   reference, the baseline approved on it; the cancelled Run's hold seen fenced, the Pod replaced, the Run aborted and the same
   reservation released; the decision completed. `EstablishedIsKept` shows that nobody undoes any of it, and
   `SessionEstablishes` that each step finds what it adds.

`AcceptanceInv` is checked by TLC on the states of `acceptance_passed` too; its states are those of the run (2 148 349).

`PlatformCredentials_proofs`: `Invariance` (`Spec => []CredentialsInv`), and from it `CredentialsTypes` (`[]TypeOK`),
`CredentialsStayFit` (`[]CredentialsFit`), `CopiesAlwaysAgree` (`[]CopiesAgree`), `RetryIsAccepted` (`[]RetryAccepted`)
and `SuccessIsUsable` (`Spec => SuccessMeansUsable`). The invariant is stated of a store `s` and the configuration `v`
that the object server has loaded, so that one lemma serves a state and the next one. Its argument:

1. *Orderly.* While any script runs or a late creation is pending nobody deletes, so whatever is held stays as it is (Pods and
   the mode of the object server apart); the volume, the roles and the loaded configuration change only where what they are made
   of is held. The lemmas `...Evolves` show it of every action but `Lose`, and the lemmas `...Stays` that the claims below
   survive every orderly step.
2. *Fit* and *Whole*. `Fit` is what is true of the store after any losses: passwords agree with volume and roles, and the loaded
   and the stored configuration with the stored identity. `Whole` is what is true besides as long as nothing was deleted: nothing
   derived from a credential is there without it.
3. *Seen* and *Decided*. What a script has read and found is still stored. What it has found missing need not be missing
   any more, but then creating it fails; and the traces are read after the credential, so that if they too were missing
   when read, drawing the credential anew was right whenever it is carried out.
4. *Sound*. Every creation, under way or late, fits what is stored by the time it is carried out. A copy is created only of a
   credential that is held; and a new credential only while nobody uses an earlier one, or it exists already and the creation
   fails (`FreeVolume`, `FreeStore`, `FreeRoles`, `FreeServer`).
5. *Passed*. Each call that a script has gone through has established something that stays. At the end of a
   health check or a smoke test all of it holds at once, which is `SuccessMeansUsable`.

Tables (`Stage`, `Script`) are expanded once, in lemmas on their rows. TLC checks `CredentialsInv` on the 1 727 646 states of
`credentials_provisioned`, and on 2 778 968 states of one operator with three runs of six scripts and four losses.

All invariants and action properties of the runs are proved. Only model-checked: `EverySubmissionEnds`, since the proof
system does not handle `ENABLED` and fairness; and `RestartDuringHold`, which does not hold.

## What is not modelled

* The bytes: schemas, digests, Git revisions and labels are reduced to whether they are the
  reviewed ones. Preflight is part of `Start`.
* Readiness of PostgreSQL, SeaweedFS and the Service: a step may refuse because of them (`Stop`), and no property
  relies on their staying ready.
* An outsider who tampers with the annotations of a receipt only; the code compares them with the payload and
  refuses, which is a `Stop`.
* Preflight, task selection and migration intent of the database workflows are part of `Start`: they read
  reviewed files only. The templates `release-schema-migration-v1` and `release-runtime-grants-v1` are superseded.
* Liveness of the database workflows: their deadlines are those of the pause, and `EverySubmissionEnds` is checked there.
* The child Application is sampled once by the adoption workflow. No property claims more of it than that; see the
  hazards.
* A Run that a smoke test has submitted is followed no further once its client is gone.
* The publication of the qualification receipt: it follows `artifact_upload.py` and would add nothing.
* The health script is contained in others of `credentials_provisioned` and is not listed there a second time.
* The components marked `not_modelled` in `PROJECT.json`, each with its reason.

## Plan

1. `ExternalState`: the create-if-absent tasks of `release-external-state` beside one another and beside a late run. Their
   Python and SQL repeat what `PlatformCredentials` models of the scripts; new are the mutex and the Jobs.
2. The processes of `native_gateway_processes.py`: a child that ends stops the others.
