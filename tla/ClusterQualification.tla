------------------------ MODULE ClusterQualification ------------------------
(***************************************************************************)
(* The qualification of the dedicated cluster for a benchmark:             *)
(* kubernetes_benchmark_capture.py collects observations one request after *)
(* the other while the cluster goes on changing, and                       *)
(* kubernetes_benchmark.py evaluates them, an observation that could not   *)
(* be made being unknown and never good.                                   *)
(*                                                                         *)
(* A node's identity is <<incarnation of the cluster, serial number>>; its *)
(* health stands for its conditions and pressures, its fitness for         *)
(* placement, image, version and capacity.                                 *)
(***************************************************************************)
EXTENDS Integers, Sequences, FiniteSets

CONSTANTS
    Nodes,         \* names of the nodes
    MaxChanges     \* bound: changes of the cluster during a capture

ASSUME ChangesAssumption == MaxChanges \in Nat

VARIABLES
    cluster,       \* incarnation: the UID of kube-system
    node,          \* per name: uid, health, fit, load
    foreign,       \* a namespace outside the reviewed cohort is active
    changes,
    capture        \* the capture under way or its evidence

qualificationVars == <<cluster, node, foreign, changes, capture>>

Results == {"PASS", "FAIL", "UNKNOWN"}
Unavailable == [uid |-> <<0, 0>>, health |-> "UNKNOWN", fit |-> "UNKNOWN", load |-> "UNKNOWN"]

NoCapture == [step |-> "identify", uid |-> 0, inventory |-> [n \in Nodes |-> Unavailable],
              image |-> "UNKNOWN", active |-> "UNKNOWN",
              measured |-> [n \in Nodes |-> Unavailable], status |-> "none"]

QualificationInit ==
    /\ cluster = 1 /\ changes = 0 /\ capture = NoCapture
    /\ foreign \in BOOLEAN
    /\ node = [n \in Nodes |-> [uid |-> <<1, 1>>, health |-> "PASS", fit |-> "PASS",
                                load |-> "PASS"]]

World == <<cluster, node, foreign, changes>>

\* A step of collect: one request, after which "next" is due.
Observe(step, next, field, values) ==
    /\ capture.step = step
    /\ \E value \in values : capture' = [capture EXCEPT !.step = next, ![field] = value]
    /\ UNCHANGED World

Identify == Observe("identify", "nodes", "uid", {cluster})

ReadNodes == Observe("nodes", "images", "inventory", {node, NoCapture.inventory})

\* The images are inspected by the name of the node.
Images == IF \A n \in Nodes : node[n].fit = "PASS" THEN "PASS" ELSE "FAIL"
InspectImages == Observe("images", "pods", "image", {Images, "UNKNOWN"})

Namespaces == IF foreign THEN "FAIL" ELSE "PASS"
ReadPods == Observe("pods", "metrics", "active", {Namespaces, "UNKNOWN"})

\* So are the metrics, of which some may be missing or stale.
ReadMetrics ==
    Observe("metrics", "nodes again", "measured",
            {[n \in Nodes |-> IF n \in fresh THEN node[n] ELSE Unavailable] :
                fresh \in SUBSET Nodes})

NotInventoried == capture.inventory = NoCapture.inventory

\* Mutation: only the names of the nodes are compared.
SameNodeNames == \A n \in Nodes : node[n].uid # <<0, 0>>

SameNodes == \A n \in Nodes : node[n].uid = capture.inventory[n].uid

RecheckNodes ==
    /\ capture.step = "nodes again" /\ (NotInventoried \/ SameNodes)
    /\ capture' = [capture EXCEPT !.step = "cluster again"]
    /\ UNCHANGED World

SameCluster == cluster = capture.uid

RecheckCluster ==
    /\ capture.step = "cluster again" /\ SameCluster
    /\ capture' = [capture EXCEPT !.step = "evaluate"]
    /\ UNCHANGED World

\* A failure is worse than an observation that is missing.
Worst(results) == IF "FAIL" \in results THEN "FAIL"
                  ELSE IF "UNKNOWN" \in results THEN "UNKNOWN" ELSE "PASS"

Readiness == Worst({capture.inventory[n].health : n \in Nodes})
Fitness == Worst({capture.inventory[n].fit : n \in Nodes} \cup {capture.image})
Interference == Worst({capture.measured[n].load : n \in Nodes} \cup {capture.active})

Status(result) == CASE result = "FAIL" -> "REJECTED"
                    [] result = "UNKNOWN" -> "UNKNOWN"
                    [] result = "PASS" -> "ACCEPTED"

Evaluate ==
    /\ capture.step = "evaluate"
    /\ capture' = [capture EXCEPT !.step = "done",
                       !.status = Status(Worst({Readiness, Fitness, Interference}))]
    /\ UNCHANGED World

\* A request fails, an identity has changed, or the time is up.
GiveUp ==
    /\ capture.step \notin {"done", "failed"}
    /\ capture' = [NoCapture EXCEPT !.step = "failed"]
    /\ UNCHANGED World

Change ==
    /\ changes < MaxChanges /\ capture.step \notin {"done", "failed"}
    /\ changes' = changes + 1
    /\ UNCHANGED capture

ReplaceNode(n) ==
    /\ Change
    /\ node' = [node EXCEPT ![n].uid[2] = @ + 1]
    /\ UNCHANGED <<cluster, foreign>>

DisturbNode(n) ==
    /\ Change
    /\ \E aspect \in {"health", "fit", "load"}, result \in Results :
           node' = [node EXCEPT ![n][aspect] = result]
    /\ UNCHANGED <<cluster, foreign>>

RecreateCluster ==
    /\ Change
    /\ cluster' = cluster + 1
    /\ node' = [n \in Nodes |-> [node[n] EXCEPT !.uid = <<cluster + 1, 1>>]]
    /\ UNCHANGED foreign

Occupy ==
    /\ Change
    /\ foreign' = ~foreign
    /\ UNCHANGED <<cluster, node>>

QualificationNext ==
    \/ Identify \/ ReadNodes \/ InspectImages \/ ReadPods \/ ReadMetrics
    \/ RecheckNodes \/ RecheckCluster \/ Evaluate \/ GiveUp
    \/ \E n \in Nodes : ReplaceNode(n) \/ DisturbNode(n)
    \/ RecreateCluster \/ Occupy

Qualified == capture.status = "ACCEPTED"

-----------------------------------------------------------------------------
QualificationTypeOK ==
    /\ cluster \in Nat /\ changes \in 0..MaxChanges /\ foreign \in BOOLEAN
    /\ \A n \in Nodes : {node[n].health, node[n].fit, node[n].load} \subseteq Results
    /\ capture.status \in {"none", "ACCEPTED", "REJECTED", "UNKNOWN"}

\* "Cluster incarnation changed", "Node identity changed during qualification"
\* (kubernetes_benchmark_capture.py:327): in accepted evidence nothing failed and
\* nothing was missing, and the state and the metrics of a node, although the
\* latter are looked up by name, are those of the one node, of the one cluster,
\* that it names.  Of the images, which are looked up by name and recorded
\* without an identity, it says only that those inspected were the locked one.
QualificationSound ==
    Qualified =>
        /\ {capture.image, capture.active} = {"PASS"}
        /\ \A n \in Nodes :
               /\ capture.measured[n].uid = capture.inventory[n].uid
               /\ capture.inventory[n].uid[1] = capture.uid
               /\ {capture.inventory[n].health, capture.inventory[n].fit,
                   capture.measured[n].load} = {"PASS"}

-----------------------------------------------------------------------------
(* The inductive invariant. *)

NodeRecords == [uid : Nat \X Nat, health : Results, fit : Results, load : Results]
CaptureSteps == {"identify", "nodes", "images", "pods", "metrics", "nodes again",
                 "cluster again", "evaluate", "done", "failed"}

QualificationTyped ==
    /\ cluster \in Nat /\ changes \in 0..MaxChanges /\ foreign \in BOOLEAN
    /\ node \in [Nodes -> NodeRecords]
    /\ capture \in [step : CaptureSteps, uid : Nat, inventory : [Nodes -> NodeRecords],
                    image : Results, active : Results, measured : [Nodes -> NodeRecords],
                    status : {"none", "ACCEPTED", "REJECTED", "UNKNOWN"}]

Precedes(uid, next) == uid[1] < next[1] \/ (uid[1] = next[1] /\ uid[2] <= next[2])

\* Identities only grow, so what was read is behind what is there.
CaptureBehind ==
    /\ \A n \in Nodes : node[n].uid[1] = cluster
    /\ capture.step # "identify" => capture.uid <= cluster
    /\ capture.step \notin {"identify", "nodes", "done", "failed"} =>
           NotInventoried \/ \A n \in Nodes :
               /\ capture.uid <= capture.inventory[n].uid[1]
               /\ Precedes(capture.inventory[n].uid, node[n].uid)
    /\ capture.step = "nodes again" =>
           NotInventoried \/ \A n \in Nodes : capture.measured[n] # Unavailable =>
               /\ Precedes(capture.inventory[n].uid, capture.measured[n].uid)
               /\ Precedes(capture.measured[n].uid, node[n].uid)

\* When the identities have been read again they have been the same throughout.
CaptureUndisturbed ==
    /\ capture.step \in {"cluster again", "evaluate"} =>
           NotInventoried \/ \A n \in Nodes : capture.measured[n] # Unavailable =>
               capture.measured[n].uid = capture.inventory[n].uid
    /\ capture.step = "evaluate" =>
           NotInventoried \/ \A n \in Nodes : capture.inventory[n].uid[1] = capture.uid
    /\ capture.step # "done" => ~Qualified

QualificationInv ==
    QualificationTyped /\ CaptureBehind /\ CaptureUndisturbed /\ QualificationSound
=============================================================================
