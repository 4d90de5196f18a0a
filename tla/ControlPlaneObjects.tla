------------------------ MODULE ControlPlaneObjects ------------------------
(***************************************************************************)
(* The three Kubernetes objects that the release workflows read and patch, *)
(* the control-plane Pods, and everybody else who writes to them.          *)
(*                                                                         *)
(* "root" and "child" are the Argo CD Applications perfeng-local-root and  *)
(* perfeng-local-control-plane, "deployment" is the control-plane          *)
(* Deployment of perf-platform.  An object keeps what the workflows'       *)
(* predicates can tell apart:                                              *)
(*   uid     the incarnation (the revision at which it was created),       *)
(*   rv      metadata.resourceVersion, the store's revision at its last    *)
(*           write: every write to any object draws the next revision,     *)
(*   switch  "on" for automated.enabled / replicas = 1, "off" for          *)
(*           automated.enabled = false / replicas = 0,                     *)
(*   rest    the remaining spec, labels, annotations and finalizers,       *)
(*   phase   "settled", "syncing" (an operation is pending or running) or  *)
(*           "deleting",                                                   *)
(*   status  "ready" (Synced, Healthy, no conditions; for the Deployment   *)
(*           one fully ready replica of the current generation), "stopped" *)
(*           (the Deployment's current generation reports no replica) or   *)
(*           "progressing" (anything else).                                *)
(*                                                                         *)
(* Argo CD, the Deployment controller and the operators are not serialised *)
(* by the workflows' mutex: their writes interleave with every step.       *)
(***************************************************************************)
EXTENDS Integers, FiniteSets

CONSTANTS
    Rests,        \* values of the remaining spec and metadata
    OwnedRests,   \* those with the reviewed owner labels, sources and selector
    MaxMeddling   \* bound: writes by operators and Argo CD

ASSUME RestsAssumption == OwnedRests \subseteq Rests /\ OwnedRests # {}
ASSUME MeddlingAssumption == MaxMeddling \in Nat

VARIABLES
    obj,      \* the stored objects
    rev,      \* the store's current revision
    pods,     \* states of the Pods that match the control-plane selector
    meddled   \* writes made by operators and Argo CD so far

clusterVars == <<obj, rev, pods, meddled>>

Applications == {"root", "child"}
Resources == Applications \cup {"deployment"}

PodStates == {"running", "terminating"}

Object == [uid: Nat, rv: Nat, switch: {"on", "off"}, rest: Rests,
           phase: {"settled", "syncing", "deleting"},
           status: {"ready", "stopped", "progressing"}]

ClusterTypeOK ==
    /\ obj \in [Resources -> Object]
    /\ rev \in Nat
    /\ pods \in SUBSET PodStates
    /\ meddled \in 0..MaxMeddling

-----------------------------------------------------------------------------
(* The predicates of release_policy_v3.py on one observed object. *)

\* What a checkpoint records of an object: its incarnation and its version.
Identity(o) == <<o.uid, o.rv>>

\* Owned by this environment and not being deleted.
Identified(o) == o.rest \in OwnedRests /\ o.phase # "deleting"

\* Mutation: a sync operation under way is overlooked.
IdentifiedEvenSyncing(o) == Identified(o)

\* An owned Application without a pending or running sync operation.
ApplicationIdentified(o) == Identified(o) /\ o.phase # "syncing"

Paused(o) == ApplicationIdentified(o) /\ o.switch = "off"

\* replicas = 0 in the spec and, at the current generation, in the status.
Stopped(o) == Identified(o) /\ o.switch = "off" /\ o.status = "stopped"

\* Both reconcilers paused, the Deployment stopped and no Pod left, in one
\* state o of the objects and p of the Pods.
Quiet(o, p) ==
    /\ \A a \in Applications : Paused(o[a])
    /\ Stopped(o["deployment"])
    /\ p = {}

-----------------------------------------------------------------------------
(* Writes. A write that changes nothing leaves the revision alone, as the  *)
(* API server does for a no-op update.                                     *)

Store(r, o) ==
    /\ obj' = [obj EXCEPT ![r] = [o EXCEPT !.rv = rev + 1]]
    /\ rev' = rev + 1

\* The object with another desired state. A new generation of the Deployment
\* has not been observed by its controller yet.
Respecified(r, switch, rest) ==
    [obj[r] EXCEPT !.switch = switch, !.rest = rest,
                   !.status = IF r = "deployment" THEN "progressing" ELSE @]

Specify(r, switch, rest) ==
    IF obj[r].switch = switch /\ obj[r].rest = rest
    THEN UNCHANGED <<obj, rev>>
    ELSE Store(r, Respecified(r, switch, rest))

Meddle == meddled < MaxMeddling /\ meddled' = meddled + 1

\* Another authorised principal edits the object: resumes it, pauses it, scales
\* the Deployment, changes an annotation or a source.
Edit(r, switch, rest) ==
    /\ Meddle
    /\ obj[r].switch # switch \/ obj[r].rest # rest
    /\ Specify(r, switch, rest)
    /\ UNCHANGED pods

\* Argo CD compares the Application again. It has no status subresource, so
\* even an unchanged verdict advances its resourceVersion.
Refresh(a, status) ==
    /\ Meddle
    /\ Store(a, [obj[a] EXCEPT !.status = status])
    /\ UNCHANGED pods

\* A sync begins: automatic when enabled, but a manual one is possible always.
SyncStart(a) ==
    /\ Meddle
    /\ obj[a].phase = "settled"
    /\ Store(a, [obj[a] EXCEPT !.phase = "syncing"])
    /\ UNCHANGED pods

\* A running sync of the root writes the child Application, one of the child
\* writes the Deployment with the chart's single replica.
SyncApply(a, switch, rest) ==
    /\ Meddle
    /\ obj[a].phase = "syncing"
    /\ IF a = "root" THEN Specify("child", switch, rest)
                     ELSE Specify("deployment", "on", rest)
    /\ UNCHANGED pods

SyncFinish(a, status) ==
    /\ obj[a].phase = "syncing"
    /\ Store(a, [obj[a] EXCEPT !.phase = "settled", !.status = status])
    /\ UNCHANGED <<pods, meddled>>

Delete(r) ==
    /\ Meddle
    /\ obj[r].phase # "deleting"
    /\ Store(r, [obj[r] EXCEPT !.phase = "deleting"])
    /\ UNCHANGED pods

\* The deleted object is created anew, with the same name and a fresh UID.
Recreate(r) ==
    /\ obj[r].phase = "deleting"
    /\ Store(r, [obj[r] EXCEPT !.uid = rev + 1, !.switch = "on", !.phase = "settled",
                               !.status = "progressing"])
    /\ UNCHANGED <<pods, meddled>>

-----------------------------------------------------------------------------
(* The Deployment and ReplicaSet controllers. *)

StartPod ==
    /\ obj["deployment"].switch = "on" /\ "running" \notin pods
    /\ pods' = pods \cup {"running"}
    /\ UNCHANGED <<obj, rev, meddled>>

\* A Pod being terminated is still listed, though no replica count includes it.
StopPod ==
    /\ obj["deployment"].switch = "off" /\ "running" \in pods
    /\ pods' = (pods \ {"running"}) \cup {"terminating"}
    /\ UNCHANGED <<obj, rev, meddled>>

RemovePod ==
    /\ "terminating" \in pods
    /\ pods' = pods \ {"terminating"}
    /\ UNCHANGED <<obj, rev, meddled>>

\* The status that the controllers report for the current generation.
ReplicaStatus ==
    IF obj["deployment"].switch = "on"
    THEN IF "running" \in pods THEN "ready" ELSE "progressing"
    ELSE IF "running" \in pods THEN "progressing" ELSE "stopped"

ReportReplicas ==
    /\ obj["deployment"].status # ReplicaStatus
    /\ Store("deployment", [obj["deployment"] EXCEPT !.status = ReplicaStatus])
    /\ UNCHANGED <<pods, meddled>>

Controllers == StartPod \/ StopPod \/ RemovePod \/ ReportReplicas

\* Argo CD by itself: it compares, starts a sync where this is automated, and
\* carries on the syncs that are under way.
ArgoCD ==
    \/ \E a \in Applications, status \in {"ready", "progressing"} : Refresh(a, status)
    \/ \E a \in Applications : obj[a].switch = "on" /\ SyncStart(a)
    \/ \E a \in Applications, switch \in {"on", "off"}, rest \in Rests :
           SyncApply(a, switch, rest)
    \/ \E a \in Applications, status \in {"ready", "progressing"} : SyncFinish(a, status)

\* Operators and other principals.
People ==
    \/ \E r \in Resources, switch \in {"on", "off"}, rest \in Rests : Edit(r, switch, rest)
    \/ \E a \in Applications : SyncStart(a)
    \/ \E r \in Resources : Delete(r) \/ Recreate(r)

ClusterNext == Controllers \/ ArgoCD \/ People

\* A settled cluster: serving, or with any of the three already paused.
ClusterInit ==
    /\ \E switch \in [Resources -> {"on", "off"}], rest \in OwnedRests :
           /\ obj = [r \in Resources |->
                        [uid |-> 1, rv |-> 1, switch |-> switch[r], rest |-> rest,
                         phase |-> "settled",
                         status |-> IF r = "deployment" /\ switch[r] = "off"
                                    THEN "stopped" ELSE "ready"]]
           /\ pods = IF switch["deployment"] = "on" THEN {"running"} ELSE {}
    /\ rev = 1
    /\ meddled = 0

-----------------------------------------------------------------------------
(* Versions. *)

\* Of two readings of one object, o was taken no later than p: it is the same
\* version, and then the same object, or an older version.
NoNewer(o, p) == o = p \/ o.rv < p.rv

\* No object carries a revision the store has not drawn, nor one below the first.
VersionsDrawn == \A r \in Resources : 0 < obj[r].rv /\ obj[r].rv <= rev

\* A UID is the revision at which its object was created.
IncarnationsDrawn == \A r \in Resources : obj[r].uid <= rev
=============================================================================
