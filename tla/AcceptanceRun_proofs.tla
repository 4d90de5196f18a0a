------------------------- MODULE AcceptanceRun_proofs -------------------------
(***************************************************************************)
(* Proofs about AcceptanceRun and the qualification it begins with, for    *)
(* any nodes and any number of changes and misdeeds of the world.          *)
(*                                                                         *)
(* The invariant follows the session: what a step has established still    *)
(* holds at the later ones, because Runs that have ended and the holds     *)
(* they have released are final, revisions of the baseline and identities  *)
(* of Pods and nodes only grow, and the journal is only added to.          *)
(***************************************************************************)
EXTENDS AcceptanceRun, TLAPS

-----------------------------------------------------------------------------
(* The qualification. *)

LEMMA CaptureFields ==
    /\ Unavailable \in NodeRecords /\ Unavailable.uid = <<0, 0>>
    /\ Unavailable.health = "UNKNOWN" /\ Unavailable.load = "UNKNOWN"
    /\ NoCapture.inventory = [n \in Nodes |-> Unavailable]
    /\ NoCapture \in [step : CaptureSteps, uid : Nat, inventory : [Nodes -> NodeRecords],
                      image : Results, active : Results, measured : [Nodes -> NodeRecords],
                      status : {"none", "ACCEPTED", "REJECTED", "UNKNOWN"}]
    /\ NoCapture.step = "identify" /\ NoCapture.status = "none"
  <1>1. Unavailable \in NodeRecords
    BY DEF Unavailable, NodeRecords, Results
  <1> QED
    BY <1>1 DEF Unavailable, NoCapture, CaptureSteps, Results

\* The qualification begins in its invariant.
LEMMA InitQualification ==
    ASSUME QualificationInit PROVE QualificationInv
  <1>1. QualificationTyped
    <2>1. node \in [Nodes -> NodeRecords]
      BY DEF QualificationInit, NodeRecords, Results
    <2> QED
      BY <2>1, CaptureFields, ChangesAssumption DEF QualificationInit, QualificationTyped
  <1>2. capture.step = "identify" /\ capture.status = "none"
    BY CaptureFields DEF QualificationInit
  <1>3. \A n \in Nodes : node[n].uid[1] = cluster
    BY DEF QualificationInit
  <1> QED
    BY <1>1, <1>2, <1>3
       DEF QualificationInv, CaptureBehind, CaptureUndisturbed, QualificationSound, Qualified

\* A step of the capture leaves the cluster alone.
LEMMA ObserveChanges ==
    ASSUME QualificationTyped, NEW step, NEW next \in CaptureSteps,
           NEW field \in {"uid", "inventory", "image", "active", "measured"},
           NEW values, Observe(step, next, field, values)
    PROVE  /\ capture.step = step /\ capture'.step = next /\ capture'[field] \in values
           /\ capture'.status = capture.status
           /\ \A other \in {"uid", "inventory", "image", "active", "measured"} \ {field} :
                  capture'[other] = capture[other]
           /\ UNCHANGED World
  BY DEF Observe, QualificationTyped

\* The cluster goes on; the capture is not touched and identities only grow.
LEMMA ClusterChanges ==
    ASSUME QualificationTyped, CaptureBehind,
           \/ \E n \in Nodes : ReplaceNode(n) \/ DisturbNode(n)
           \/ RecreateCluster \/ Occupy
    PROVE  /\ capture' = capture /\ capture.step \notin {"done", "failed"}
           /\ cluster' \in Nat /\ cluster <= cluster'
           /\ changes' \in 0..MaxChanges /\ foreign' \in BOOLEAN
           /\ node' \in [Nodes -> NodeRecords]
           /\ \A n \in Nodes : node'[n].uid[1] = cluster' /\ Precedes(node[n].uid, node'[n].uid)
  <1>0. /\ capture' = capture /\ capture.step \notin {"done", "failed"}
        /\ changes' \in 0..MaxChanges
    BY ChangesAssumption
       DEF ReplaceNode, DisturbNode, RecreateCluster, Occupy, Change, QualificationTyped
  <1>1. /\ cluster \in Nat /\ foreign \in BOOLEAN /\ node \in [Nodes -> NodeRecords]
        /\ \A n \in Nodes : /\ node[n] \in NodeRecords /\ node[n].uid \in Nat \X Nat
                            /\ node[n].uid[1] = cluster /\ node[n].uid[2] \in Nat
    BY DEF QualificationTyped, CaptureBehind, NodeRecords
  <1>2. \A n \in Nodes : Precedes(node[n].uid, node[n].uid)
    BY <1>1 DEF Precedes
  <1>3. ASSUME NEW n \in Nodes, ReplaceNode(n)
        PROVE  /\ cluster' = cluster /\ foreign' = foreign /\ node' \in [Nodes -> NodeRecords]
               /\ \A m \in Nodes : node'[m].uid[1] = cluster' /\ Precedes(node[m].uid, node'[m].uid)
    <2>1. node' = [node EXCEPT ![n].uid = <<@[1], @[2] + 1>>]
      <3>1. node' = [node EXCEPT ![n].uid[2] = @ + 1]
        BY <1>3, Zenon DEF ReplaceNode
      <3>2. [node[n].uid EXCEPT ![2] = node[n].uid[2] + 1] = <<node[n].uid[1], node[n].uid[2] + 1>>
        BY <1>1
      <3> QED
        BY <3>1, <3>2, Zenon
    <2>2. /\ node'[n] = [node[n] EXCEPT !.uid = <<node[n].uid[1], node[n].uid[2] + 1>>]
          /\ \A m \in Nodes \ {n} : node'[m] = node[m]
      BY <1>1, <2>1
    <2>3. /\ node'[n] \in NodeRecords
          /\ node'[n].uid[1] = node[n].uid[1] /\ node'[n].uid[2] = node[n].uid[2] + 1
      BY <1>1, <2>2 DEF NodeRecords
    <2>4. node' \in [Nodes -> NodeRecords]
      BY <1>1, <2>1, <2>2, <2>3
    <2>5. cluster' = cluster /\ foreign' = foreign
      BY <1>3 DEF ReplaceNode
    <2>6. Precedes(node[n].uid, node'[n].uid)
      BY <1>1, <2>3 DEF Precedes
    <2>7. ASSUME NEW m \in Nodes
          PROVE  node'[m].uid[1] = cluster' /\ Precedes(node[m].uid, node'[m].uid)
      BY <1>1, <1>2, <2>2, <2>3, <2>5, <2>6
    <2> QED
      BY <2>4, <2>5, <2>7
  <1>4. ASSUME NEW n \in Nodes, DisturbNode(n)
        PROVE  /\ cluster' = cluster /\ foreign' = foreign /\ node' \in [Nodes -> NodeRecords]
               /\ \A m \in Nodes : node'[m].uid = node[m].uid
    <2>1. PICK aspect \in {"health", "fit", "load"}, result \in Results :
             node' = [node EXCEPT ![n][aspect] = result]
      BY <1>4, Zenon DEF DisturbNode
    <2>2. /\ node'[n] = [node[n] EXCEPT ![aspect] = result]
          /\ \A m \in Nodes \ {n} : node'[m] = node[m]
      BY <1>1, <2>1
    <2>3. node'[n] \in NodeRecords /\ node'[n].uid = node[n].uid
      BY <1>1, <2>2 DEF NodeRecords
    <2>4. node' \in [Nodes -> NodeRecords]
      <3>1. \A m \in Nodes : node'[m] \in NodeRecords
        BY <1>1, <2>2, <2>3
      <3>2. node' = [m \in Nodes |-> node'[m]]
        BY <1>1, <2>1
      <3> QED
        BY <3>1, <3>2, Zenon
    <2>5. cluster' = cluster /\ foreign' = foreign
      BY <1>4 DEF DisturbNode
    <2> QED
      BY <2>2, <2>3, <2>4, <2>5
  <1>5. CASE RecreateCluster
    <2>1. /\ node' = [n \in Nodes |-> [node[n] EXCEPT !.uid = <<cluster + 1, 1>>]]
          /\ cluster' = cluster + 1 /\ foreign' = foreign
      BY <1>5, Zenon DEF RecreateCluster
    <2>2. \A n \in Nodes : /\ node'[n] \in NodeRecords /\ node'[n].uid = <<cluster + 1, 1>>
      <3>1. <<cluster + 1, 1>> \in Nat \X Nat
        BY <1>1
      <3>2. \A n \in Nodes : node[n] \in NodeRecords
        BY <1>1
      <3> QED
        BY <2>1, <3>1, <3>2 DEF NodeRecords
    <2>3. node' \in [Nodes -> NodeRecords]
      BY <2>1, <2>2
    <2>4. ASSUME NEW n \in Nodes
          PROVE  node'[n].uid[1] = cluster' /\ Precedes(node[n].uid, node'[n].uid)
      <3>1. node'[n].uid[1] = cluster + 1 /\ node[n].uid[1] < node'[n].uid[1]
        BY <1>1, <2>2
      <3> QED
        BY <2>1, <3>1 DEF Precedes
    <2>5. cluster' \in Nat /\ cluster <= cluster' /\ foreign' \in BOOLEAN
      BY <1>1, <2>1
    <2> QED
      BY <1>0, <2>3, <2>4, <2>5
  <1>6. CASE Occupy
    <2>1. foreign' \in BOOLEAN /\ cluster' = cluster /\ node' = node
      BY <1>1, <1>6 DEF Occupy
    <2> QED
      BY <1>0, <1>1, <1>2, <2>1
  <1> QED
    BY <1>0, <1>1, <1>2, <1>3, <1>4, <1>5, <1>6

\* Identities are ordered.
LEMMA PrecedesTransitive ==
    ASSUME NEW a \in Nat \X Nat, NEW b \in Nat \X Nat, NEW c \in Nat \X Nat,
           Precedes(a, b), Precedes(b, c)
    PROVE  Precedes(a, c)
  BY DEF Precedes

\* What is known of the values behind a capture.
LEMMA CaptureTyped ==
    ASSUME QualificationTyped, CaptureBehind
    PROVE  /\ capture.uid \in Nat /\ cluster \in Nat
           /\ \A n \in Nodes : /\ capture.inventory[n] \in NodeRecords
                               /\ capture.measured[n] \in NodeRecords
                               /\ node[n] \in NodeRecords
                               /\ capture.inventory[n].uid \in Nat \X Nat
                               /\ capture.measured[n].uid \in Nat \X Nat
                               /\ node[n].uid \in Nat \X Nat /\ node[n].uid[1] = cluster
                               /\ Precedes(node[n].uid, node[n].uid)
  <1>1. \A n \in Nodes : /\ capture.inventory[n] \in NodeRecords
                        /\ capture.measured[n] \in NodeRecords /\ node[n] \in NodeRecords
    BY DEF QualificationTyped
  <1>2. \A r \in NodeRecords : r.uid \in Nat \X Nat /\ Precedes(r.uid, r.uid)
    BY DEF NodeRecords, Precedes
  <1>3. capture.uid \in Nat /\ cluster \in Nat
    BY DEF QualificationTyped
  <1>4. \A n \in Nodes : node[n].uid[1] = cluster
    BY DEF CaptureBehind
  <1> QED
    BY <1>1, <1>2, <1>3, <1>4

\* Identities that precede each other are the same.
LEMMA SameWhenBothPrecede ==
    ASSUME NEW a \in Nat \X Nat, NEW b \in Nat \X Nat, Precedes(a, b), Precedes(b, a)
    PROVE  b = a
  BY DEF Precedes

\* Evidence is accepted only if nothing in it is worse than good.
LEMMA AllPass ==
    ASSUME Status(Worst({Readiness, Fitness, Interference})) = "ACCEPTED"
    PROVE  Readiness = "PASS" /\ Fitness = "PASS" /\ Interference = "PASS"
  <1>1. \A results : Worst(results) \in Results
    BY DEF Worst, Results
  <1>2. Worst({Readiness, Fitness, Interference}) = "PASS"
    BY <1>1 DEF Status, Results
  <1>3. "FAIL" \notin {Readiness, Fitness, Interference}
        /\ "UNKNOWN" \notin {Readiness, Fitness, Interference}
    BY <1>2 DEF Worst
  <1> QED
    BY <1>1, <1>3 DEF Readiness, Fitness, Interference, Results

\* Every step of the capture and of the cluster keeps it.
LEMMA NextQualification ==
    ASSUME QualificationInv, QualificationNext PROVE QualificationInv'
  <1> USE DEF QualificationInv
  <1>a. QualificationTyped /\ CaptureBehind /\ CaptureUndisturbed /\ QualificationSound
    OBVIOUS
  <1>1. CASE \/ \E n \in Nodes : ReplaceNode(n) \/ DisturbNode(n)
             \/ RecreateCluster \/ Occupy
    <2>1. QualificationTyped'
      BY <1>1, <1>a, ClusterChanges DEF QualificationTyped
    <2>2. /\ \A n \in Nodes : node'[n].uid[1] = cluster' /\ node'[n].uid \in Nat \X Nat
          /\ \A n \in Nodes, uid \in Nat \X Nat :
                 Precedes(uid, node[n].uid) => Precedes(uid, node'[n].uid)
      <3>1. \A n \in Nodes : node'[n] \in NodeRecords
        BY <1>1, <1>a, ClusterChanges
      <3>2. \A n \in Nodes : node'[n].uid \in Nat \X Nat
        BY <3>1 DEF NodeRecords
      <3>3. \A n \in Nodes : node'[n].uid[1] = cluster' /\ Precedes(node[n].uid, node'[n].uid)
        BY <1>1, <1>a, ClusterChanges
      <3>4. \A n \in Nodes : node[n].uid \in Nat \X Nat
        BY <1>a, CaptureTyped
      <3> QED
        BY <3>2, <3>3, <3>4, PrecedesTransitive
    <2>3. capture' = capture /\ (capture.step # "identify" => capture.uid <= cluster')
      <3>1. /\ capture' = capture /\ cluster' \in Nat /\ cluster <= cluster'
            /\ cluster \in Nat /\ capture.uid \in Nat
        BY <1>1, <1>a, ClusterChanges, CaptureTyped
      <3>2. capture.step # "identify" => capture.uid <= cluster
        BY <1>a DEF CaptureBehind
      <3> QED
        BY <3>1, <3>2
    <2>4. NotInventoried' <=> NotInventoried
      BY <2>3 DEF NotInventoried
    <2>5. CaptureBehind'
      BY <1>a, <2>2, <2>3, <2>4, CaptureTyped DEF CaptureBehind
    <2>6. CaptureUndisturbed' /\ QualificationSound'
      BY <1>a, <2>3, <2>4 DEF CaptureUndisturbed, QualificationSound, Qualified
    <2> QED
      BY <2>1, <2>5, <2>6
  <1>2. CASE Identify
    <2>1. /\ capture.step = "identify" /\ capture'.step = "nodes" /\ capture'.uid = cluster
          /\ capture' = [capture EXCEPT !.step = "nodes", !.uid = cluster]
          /\ UNCHANGED World
      BY <1>2, <1>a DEF Identify, Observe, QualificationTyped
    <2>2. QualificationTyped'
      BY <1>a, <2>1 DEF QualificationTyped, CaptureSteps, World
    <2>3. CaptureBehind'
      BY <1>a, <2>1, CaptureTyped DEF CaptureBehind, World
    <2>4. capture'.status = capture.status
      BY <1>a, <2>1 DEF QualificationTyped
    <2> QED
      BY <1>a, <2>1, <2>2, <2>3, <2>4 DEF CaptureUndisturbed, QualificationSound, Qualified
  <1>3. CASE ReadNodes
    <2>1. PICK value \in {node, NoCapture.inventory} :
             capture' = [capture EXCEPT !.step = "images", !.inventory = value]
      BY <1>3, Zenon DEF ReadNodes, Observe
    <2>2. capture.step = "nodes" /\ UNCHANGED World
      BY <1>3, Zenon DEF ReadNodes, Observe
    <2>3. /\ capture'.step = "images" /\ capture'.inventory = value
          /\ capture'.uid = capture.uid /\ capture'.status = capture.status
      BY <1>a, <2>1 DEF QualificationTyped
    <2>4. QualificationTyped'
      <3>1. value \in [Nodes -> NodeRecords]
        BY <1>a, CaptureFields DEF QualificationTyped
      <3> QED
        BY <1>a, <2>1, <2>2, <3>1 DEF QualificationTyped, CaptureSteps, World
    <2>5. CaptureBehind'
      <3>1. capture.uid <= cluster /\ \A n \in Nodes : node[n].uid[1] = cluster
        BY <1>a, <2>2 DEF CaptureBehind
      <3>2. NotInventoried' \/ capture'.inventory = node
        BY <2>3 DEF NotInventoried
      <3> QED
        BY <1>a, <2>2, <2>3, <3>1, <3>2, CaptureTyped DEF CaptureBehind, World
    <2> QED
      BY <1>a, <2>2, <2>3, <2>4, <2>5 DEF CaptureUndisturbed, QualificationSound, Qualified
  <1>4. CASE InspectImages \/ ReadPods
    <2>1. PICK field \in {"image", "active"}, value \in Results, step \in {"pods", "metrics"} :
             capture' = [capture EXCEPT !.step = step, ![field] = value]
      BY <1>4 DEF InspectImages, ReadPods, Observe, Images, Namespaces, Results
    <2>2. capture.step \in {"images", "pods"} /\ UNCHANGED World
      BY <1>4, Zenon DEF InspectImages, ReadPods, Observe
    <2>3. /\ capture'.step = step /\ capture'.inventory = capture.inventory
          /\ capture'.uid = capture.uid /\ capture'.status = capture.status
      BY <1>a, <2>1 DEF QualificationTyped
    <2>4. QualificationTyped'
      BY <1>a, <2>1, <2>2 DEF QualificationTyped, CaptureSteps, World
    <2>5. NotInventoried' <=> NotInventoried
      BY <2>3 DEF NotInventoried
    <2>6. CaptureBehind'
      BY <1>a, <2>2, <2>3, <2>5 DEF CaptureBehind, World
    <2> QED
      BY <1>a, <2>2, <2>3, <2>4, <2>6 DEF CaptureUndisturbed, QualificationSound, Qualified
  <1>5. CASE ReadMetrics
    <2>1. PICK fresh \in SUBSET Nodes :
             capture' = [capture EXCEPT !.step = "nodes again",
                            !.measured = [n \in Nodes |-> IF n \in fresh THEN node[n]
                                                          ELSE Unavailable]]
      BY <1>5 DEF ReadMetrics, Observe
    <2>2. capture.step = "metrics" /\ UNCHANGED World
      BY <1>5, Zenon DEF ReadMetrics, Observe
    <2>3. /\ capture'.step = "nodes again" /\ capture'.inventory = capture.inventory
          /\ capture'.measured = [n \in Nodes |-> IF n \in fresh THEN node[n] ELSE Unavailable]
          /\ capture'.uid = capture.uid /\ capture'.status = capture.status
      BY <1>a, <2>1 DEF QualificationTyped
    <2>4. QualificationTyped'
      <3>1. \A n \in Nodes : node[n] \in NodeRecords /\ Unavailable \in NodeRecords
        BY <1>a, CaptureTyped, CaptureFields
      <3>2. capture'.measured \in [Nodes -> NodeRecords]
        BY <2>3, <3>1
      <3> QED
        BY <1>a, <2>1, <2>2, <2>3, <3>2 DEF QualificationTyped, CaptureSteps, World
    <2>5. NotInventoried' <=> NotInventoried
      BY <2>3 DEF NotInventoried
    <2>6. \A n \in Nodes : capture'.measured[n] \in {node[n], Unavailable}
      BY <2>3
    <2>7. CaptureBehind'
      BY <1>a, <2>2, <2>3, <2>5, <2>6, CaptureTyped DEF CaptureBehind, World
    <2> QED
      BY <1>a, <2>2, <2>3, <2>4, <2>7 DEF CaptureUndisturbed, QualificationSound, Qualified
  <1>6. CASE RecheckNodes
    <2>1. /\ capture.step = "nodes again" /\ (NotInventoried \/ SameNodes)
          /\ capture' = [capture EXCEPT !.step = "cluster again"] /\ UNCHANGED World
      BY <1>6, Zenon DEF RecheckNodes
    <2>2. /\ capture'.step = "cluster again" /\ capture'.inventory = capture.inventory
          /\ capture'.measured = capture.measured
          /\ capture'.uid = capture.uid /\ capture'.status = capture.status
      BY <1>a, <2>1 DEF QualificationTyped
    <2>3. QualificationTyped'
      BY <1>a, <2>1 DEF QualificationTyped, CaptureSteps, World
    <2>4. NotInventoried' <=> NotInventoried
      BY <2>2 DEF NotInventoried
    <2>5. CaptureBehind'
      BY <1>a, <2>1, <2>2, <2>4 DEF CaptureBehind, World
    <2>6. CaptureUndisturbed'
      <3>1. ASSUME ~NotInventoried, NEW n \in Nodes, capture.measured[n] # Unavailable
            PROVE  capture.measured[n].uid = capture.inventory[n].uid
        <4>1. /\ Precedes(capture.inventory[n].uid, capture.measured[n].uid)
              /\ Precedes(capture.measured[n].uid, node[n].uid)
          BY <1>a, <2>1, <3>1 DEF CaptureBehind
        <4>2. node[n].uid = capture.inventory[n].uid
          BY <2>1, <3>1 DEF SameNodes
        <4>3. capture.inventory[n].uid \in Nat \X Nat /\ capture.measured[n].uid \in Nat \X Nat
          BY <1>a, CaptureTyped
        <4> QED
          BY <4>1, <4>2, <4>3, SameWhenBothPrecede
      <3> QED
        BY <1>a, <2>1, <2>2, <2>4, <3>1 DEF CaptureUndisturbed, Qualified
    <2> QED
      BY <1>a, <2>1, <2>2, <2>3, <2>5, <2>6
         DEF CaptureUndisturbed, QualificationSound, Qualified
  <1>7. CASE RecheckCluster
    <2>1. /\ capture.step = "cluster again" /\ cluster = capture.uid
          /\ capture' = [capture EXCEPT !.step = "evaluate"] /\ UNCHANGED World
      BY <1>7, Zenon DEF RecheckCluster, SameCluster
    <2>2. /\ capture'.step = "evaluate" /\ capture'.inventory = capture.inventory
          /\ capture'.measured = capture.measured
          /\ capture'.uid = capture.uid /\ capture'.status = capture.status
      BY <1>a, <2>1 DEF QualificationTyped
    <2>3. QualificationTyped'
      BY <1>a, <2>1 DEF QualificationTyped, CaptureSteps, World
    <2>4. NotInventoried' <=> NotInventoried
      BY <2>2 DEF NotInventoried
    <2>5. CaptureBehind'
      BY <1>a, <2>1, <2>2, <2>4 DEF CaptureBehind, World
    <2>6. ASSUME ~NotInventoried, NEW n \in Nodes
          PROVE  capture.inventory[n].uid[1] = capture.uid
      <3>1. /\ capture.uid <= capture.inventory[n].uid[1]
            /\ Precedes(capture.inventory[n].uid, node[n].uid) /\ node[n].uid[1] = capture.uid
        BY <1>a, <2>1, <2>6 DEF CaptureBehind
      <3>2. /\ capture.uid \in Nat /\ capture.inventory[n].uid \in Nat \X Nat
            /\ node[n].uid \in Nat \X Nat
        BY <1>a, CaptureTyped
      <3> QED
        BY <3>1, <3>2 DEF Precedes
    <2>7. CaptureUndisturbed'
      BY <1>a, <2>1, <2>2, <2>4, <2>6 DEF CaptureUndisturbed, Qualified
    <2> QED
      BY <1>a, <2>1, <2>2, <2>3, <2>5, <2>7
         DEF CaptureUndisturbed, QualificationSound, Qualified
  <1>8. CASE Evaluate
    <2>1. /\ capture.step = "evaluate" /\ UNCHANGED World
          /\ capture' = [capture EXCEPT !.step = "done",
                             !.status = Status(Worst({Readiness, Fitness, Interference}))]
      BY <1>8, Zenon DEF Evaluate
    <2>2. /\ capture'.step = "done" /\ capture'.inventory = capture.inventory
          /\ capture'.measured = capture.measured /\ capture'.active = capture.active
          /\ capture'.uid = capture.uid /\ capture'.image = capture.image
          /\ capture'.status = Status(Worst({Readiness, Fitness, Interference}))
      BY <1>a, <2>1 DEF QualificationTyped
    <2>3. QualificationTyped'
      <3>1. Status(Worst({Readiness, Fitness, Interference}))
               \in {"none", "ACCEPTED", "REJECTED", "UNKNOWN"}
        BY DEF Status, Worst
      <3> QED
        BY <1>a, <2>1, <3>1 DEF QualificationTyped, CaptureSteps, World
    <2>4. CaptureBehind' /\ CaptureUndisturbed'
      BY <1>a, <2>1, <2>2 DEF CaptureBehind, CaptureUndisturbed, World
    <2>5. ASSUME Qualified', NEW n \in Nodes
          PROVE  /\ capture.measured[n].uid = capture.inventory[n].uid
                 /\ capture.inventory[n].uid[1] = capture.uid
                 /\ {capture.inventory[n].health, capture.inventory[n].fit,
                     capture.measured[n].load} = {"PASS"}
      <3>1. Readiness = "PASS" /\ Fitness = "PASS" /\ Interference = "PASS"
        BY <2>2, <2>5, AllPass DEF Qualified
      <3>2. /\ capture.inventory[n].health = "PASS" /\ capture.inventory[n].fit = "PASS"
            /\ capture.measured[n].load = "PASS"
        <4>1. /\ capture.inventory[n].health \in Results /\ capture.inventory[n].fit \in Results
              /\ capture.measured[n].load \in Results
          BY <1>a, CaptureTyped DEF NodeRecords
        <4> QED
          BY <3>1, <4>1 DEF Readiness, Fitness, Interference, Worst, Results
      <3>3. ~NotInventoried /\ capture.measured[n] # Unavailable
        BY <3>2, CaptureFields DEF NotInventoried
      <3> QED
        BY <1>a, <2>1, <3>2, <3>3 DEF CaptureUndisturbed
    <2>6. Qualified' => capture.image = "PASS" /\ capture.active = "PASS"
      <3>1. Qualified' => Fitness = "PASS" /\ Interference = "PASS"
        BY <2>2, AllPass DEF Qualified
      <3>2. capture.image \in Results /\ capture.active \in Results
        BY <1>a DEF QualificationTyped
      <3> QED
        BY <3>1, <3>2 DEF Fitness, Interference, Worst, Results
    <2>7. QualificationSound'
      BY <2>2, <2>5, <2>6 DEF QualificationSound
    <2> QED
      BY <2>3, <2>4, <2>7
  <1>9. CASE GiveUp
    <2>1. capture' = [NoCapture EXCEPT !.step = "failed"] /\ UNCHANGED World
      BY <1>9, Zenon DEF GiveUp
    <2>2. capture'.step = "failed" /\ capture'.status = "none" /\ capture'.uid = 0
      BY <2>1 DEF NoCapture
    <2>3. QualificationTyped'
      BY <1>a, <2>1, CaptureFields DEF QualificationTyped, CaptureSteps, World
    <2>4. CaptureBehind'
      <3>1. \A n \in Nodes : node'[n].uid[1] = cluster'
        BY <1>a, <2>1 DEF CaptureBehind, World
      <3>2. capture'.uid <= cluster'
        BY <1>a, <2>1, <2>2 DEF QualificationTyped, World
      <3> QED
        BY <2>2, <3>1, <3>2 DEF CaptureBehind
    <2> QED
      BY <2>2, <2>3, <2>4 DEF CaptureUndisturbed, QualificationSound, Qualified
  <1> QED
    BY <1>1, <1>2, <1>3, <1>4, <1>5, <1>6, <1>7, <1>8, <1>9 DEF QualificationNext

\* Nothing but the qualification touches its invariant.
LEMMA QualificationKept ==
    ASSUME QualificationInv, UNCHANGED qualificationVars PROVE QualificationInv'
  BY Zenon DEF QualificationInv, QualificationTyped, CaptureBehind, CaptureUndisturbed,
         QualificationSound, Qualified, NotInventoried, NoCapture, qualificationVars

-----------------------------------------------------------------------------
(* Runs and their holds. *)

RunRecords == [state : RunStates, report : Runs \cup {"none", "unusable"}]

\* A Run moves on: one that has not ended, or the one that is submitted.
Moves(r) ==
    /\ run' \in [Runs -> RunRecords] /\ hold' \in [Runs -> HoldRecords]
    /\ \A q \in Runs \ {r} : run'[q] = run[q] /\ hold'[q] = hold[q]
    /\ run[r].state \notin {"COMPLETED", "ABORTED"} /\ run'[r].state # "none"
    /\ run'[r].state = "CREATED" => hold'[r] = NoHold
    /\ run'[r].report # "none" => run'[r].state = "COMPLETED"
    /\ hold[r].state # "none" => hold'[r].state # "none"
    /\ r = "other" \/ run[r].state # "none" \/ (At("submit") /\ r = session.phase)

\* Only these change; what has ended is final.
RunsGoOn ==
    \A r \in Runs :
        /\ run[r].state \in {"COMPLETED", "ABORTED"} => run'[r] = run[r] /\ hold'[r] = hold[r]
        /\ hold[r].state # "none" => hold'[r].state # "none"
        /\ run[r] = NoRun /\ r \in Submitted =>
               run'[r] = NoRun \/ (At("submit") /\ r = session.phase)

\* The fields of the records of Runs and holds.
LEMMA RunFields ==
    ASSUME RecordsTyped
    PROVE  /\ run \in [Runs -> RunRecords] /\ hold \in [Runs -> HoldRecords]
           /\ \A r \in Runs : /\ run[r] \in RunRecords /\ hold[r] \in HoldRecords
                             /\ run[r].state \in RunStates /\ hold[r].id \in Nat
                             /\ hold[r].state \in {"none", "released"} \cup Unreleased
           /\ NoRun \in RunRecords /\ NoRun.state = "none" /\ NoRun.report = "none"
           /\ NoHold \in HoldRecords /\ NoHold.state = "none"
  BY DEF RecordsTyped, RunRecords, HoldRecords, NoRun, NoHold, RunStates

\* The Runs there are.
LEMMA RunNames ==
    /\ {"reference", "cancellation", "decision", "earlier", "other"} \subseteq Runs
    /\ Submitted \subseteq Runs
  BY DEF Runs, Submitted

\* A Run that moves on leaves what has ended, and what was not submitted, as it is.
LEMMA MovesKeep ==
    ASSUME RecordsTyped, HoldsFollowRuns, UNCHANGED benchmarkVars \/ \E r \in Runs : Moves(r)
    PROVE  /\ run' \in [Runs -> RunRecords] /\ hold' \in [Runs -> HoldRecords]
           /\ HoldsFollowRuns' /\ RunsGoOn
  <1>1. CASE UNCHANGED benchmarkVars
    BY <1>1, RunFields DEF HoldsFollowRuns, RunsGoOn, benchmarkVars
  <1>2. ASSUME NEW r \in Runs, Moves(r)
        PROVE  /\ run' \in [Runs -> RunRecords] /\ hold' \in [Runs -> HoldRecords]
               /\ HoldsFollowRuns' /\ RunsGoOn
    <2>1. HoldsFollowRuns'
      BY <1>2 DEF Moves, HoldsFollowRuns
    <2>2. RunsGoOn
      <3>1. ASSUME NEW q \in Runs, q = r
            PROVE  /\ run[q].state \notin {"COMPLETED", "ABORTED"}
                   /\ hold[q].state # "none" => hold'[q].state # "none"
                   /\ run[q] = NoRun /\ q \in Submitted => At("submit") /\ q = session.phase
        BY <1>2, <3>1, RunFields DEF Moves, Submitted
      <3>2. ASSUME NEW q \in Runs, q # r PROVE run'[q] = run[q] /\ hold'[q] = hold[q]
        BY <1>2, <3>2 DEF Moves
      <3> QED
        BY <3>1, <3>2 DEF RunsGoOn
    <2> QED
      BY <1>2, <2>1, <2>2 DEF Moves
  <1> QED
    BY <1>1, <1>2

\* A Run that changes its state moves on.
LEMMA LifecycleMoves ==
    ASSUME RecordsTyped, HoldsFollowRuns, NEW r \in Runs,
           NEW from \in SUBSET (RunStates \ {"none", "COMPLETED", "ABORTED"}),
           NEW to \in RunStates \ {"none", "CREATED"}, Lifecycle(r, from, to), hold' = hold
    PROVE  Moves(r)
  <1>1. run[r].state \in from /\ run' = [run EXCEPT ![r].state = to]
    BY Zenon DEF Lifecycle
  <1>2. /\ run'[r] = [run[r] EXCEPT !.state = to]
        /\ \A q \in Runs \ {r} : run'[q] = run[q]
    BY <1>1, RunFields
  <1>3. /\ run'[r] \in RunRecords /\ run'[r].state = to /\ run'[r].report = run[r].report
    BY <1>2, RunFields DEF RunRecords
  <1>4. run' \in [Runs -> RunRecords]
    BY <1>1, <1>3, RunFields
  <1> QED
    BY <1>1, <1>2, <1>3, <1>4, RunFields DEF Moves, HoldsFollowRuns

\* So does one whose hold is cleaned up, ...
LEMMA CleanupMoves ==
    ASSUME RecordsTyped, HoldsFollowRuns, NEW r \in Runs, NEW from, NEW next \in HoldRecords,
           next.state # "none", Cleanup(r, from, next)
    PROVE  Moves(r)
  <1>1. /\ run[r].state \in {"FINISHING", "CANCELLING", "FAILED"} /\ run' = run
        /\ hold' = [hold EXCEPT ![r] = next]
    BY Zenon DEF Cleanup
  <1> QED
    BY <1>1, RunFields DEF Moves, HoldsFollowRuns

\* ... and one that completes.
LEMMA CompleteMoves ==
    ASSUME RecordsTyped, HoldsFollowRuns, NEW r \in Runs,
           NEW report \in Runs \cup {"none", "unusable"}, CompleteWith(r, report)
    PROVE  Moves(r)
  <1>1. /\ run[r].state = "FINISHING" /\ hold' = hold
        /\ run' = [run EXCEPT ![r] = [state |-> "COMPLETED", report |-> report]]
    BY Zenon DEF CompleteWith
  <1>2. [state |-> "COMPLETED", report |-> report] \in RunRecords
    BY DEF RunRecords, RunStates, Terminal
  <1> QED
    BY <1>1, <1>2, RunFields DEF Moves, HoldsFollowRuns

\* The world leaves the session alone, and the baseline to other operators.
BaselineMoves ==
    /\ baseline' \in BaselineRecords
    /\ baseline' # baseline => /\ baseline.revision < baseline'.revision
                              /\ baseline'.state # "none" /\ baseline'.source \in Runs

\* What a step of the world may change.
LEMMA WorldGoesOn ==
    ASSUME RecordsTyped, HoldsFollowRuns, RevisionsIdentify, WorldNext
    PROVE  /\ UNCHANGED <<qualificationVars, session, journal, restartedAt>>
           /\ UNCHANGED benchmarkVars \/ \E r \in Runs : Moves(r)
           /\ controller' \in [uid : Nat, ready : BOOLEAN] /\ controller.uid <= controller'.uid
           /\ client' = client \/ (client = "own" /\ client' = "replaced")
           /\ BaselineMoves /\ (baseline' # baseline => baseline'.by = "other")
           /\ faults' = faults \/ Fault
           /\ \A r \in Submitted : run[r] = NoRun => run'[r] = NoRun
  <1>1. /\ controller \in [uid : Nat, ready : BOOLEAN] /\ baseline \in BaselineRecords
        /\ controller.uid <= controller.uid
    BY DEF RecordsTyped
  <1>2. ASSUME NEW r \in Runs,
               \/ Dispatch(r) \/ ExecutorDone(r) \/ Fence(r) \/ Drain(r) \/ Release(r)
               \/ Complete(r) \/ Abort(r)
               \/ RunFails(r) \/ ReleaseBadly(r) \/ ReserveAnew(r) \/ MisReport(r)
        PROVE  /\ WorldStep /\ controller' = controller /\ baseline' = baseline
               /\ Moves(r) /\ (faults' = faults \/ Fault) /\ run[r].state # "none"
    <2>1. CASE Dispatch(r)
      <3>1. /\ run[r].state = "CREATED" /\ run' = [run EXCEPT ![r].state = "RUNNING"]
            /\ hold' = [hold EXCEPT ![r] = [NoHold EXCEPT !.state = "held", !.id = 1]]
            /\ WorldStep /\ UNCHANGED <<controller, baseline, faults>>
        BY <2>1 DEF Dispatch, Lifecycle
      <3>2. /\ [NoHold EXCEPT !.state = "held", !.id = 1] \in HoldRecords
            /\ [NoHold EXCEPT !.state = "held", !.id = 1].state = "held"
        BY DEF NoHold, HoldRecords, Unreleased
      <3>3. /\ run'[r] = [run[r] EXCEPT !.state = "RUNNING"]
            /\ \A q \in Runs \ {r} : run'[q] = run[q] /\ hold'[q] = hold[q]
            /\ hold' \in [Runs -> HoldRecords] /\ hold'[r].state = "held"
        BY <3>1, <3>2, RunFields
      <3>4. /\ run'[r] \in RunRecords /\ run'[r].state = "RUNNING"
            /\ run'[r].report = run[r].report
        BY <3>3, RunFields DEF RunRecords, RunStates
      <3>5. run' \in [Runs -> RunRecords]
        BY <3>1, <3>4, RunFields
      <3> QED
        BY <3>1, <3>3, <3>4, <3>5 DEF Moves, HoldsFollowRuns
    <2>2. CASE ExecutorDone(r) \/ Abort(r)
      <3>1. /\ hold' = hold /\ WorldStep /\ UNCHANGED <<controller, baseline, faults>>
            /\ \E from \in {{"RUNNING"}, {"CANCELLING"}}, to \in {"FINISHING", "ABORTED"} :
                   Lifecycle(r, from, to)
        BY <2>2 DEF ExecutorDone, Abort, Lifecycle
      <3>2. /\ \A from \in {{"RUNNING"}, {"CANCELLING"}} :
                   from \in SUBSET (RunStates \ {"none", "COMPLETED", "ABORTED"})
            /\ \A to \in {"FINISHING", "ABORTED"} : to \in RunStates \ {"none", "CREATED"}
        BY DEF RunStates, Terminal
      <3>3. Moves(r)
        BY <3>1, <3>2, LifecycleMoves
      <3>4. run[r].state \in {"RUNNING", "CANCELLING"}
        BY <3>1 DEF Lifecycle
      <3> QED
        BY <3>1, <3>3, <3>4
    <2>3. CASE Fence(r) \/ Drain(r) \/ Release(r) \/ ReleaseBadly(r) \/ ReserveAnew(r)
      <3>1. \E next \in HoldRecords, from \in Unreleased :
               next.state # "none" /\ Cleanup(r, from, next)
        <4>1. CASE Fence(r) \/ Drain(r) \/ Release(r)
          <5>1. /\ [hold[r] EXCEPT !.state = "fenced"] \in HoldRecords
                /\ [hold[r] EXCEPT !.state = "fenced"].state = "fenced"
                /\ [hold[r] EXCEPT !.drained = TRUE] \in HoldRecords
                /\ [hold[r] EXCEPT !.drained = TRUE].state = hold[r].state
                /\ [hold[r] EXCEPT !.state = "released"] \in HoldRecords
                /\ [hold[r] EXCEPT !.state = "released"].state = "released"
            BY RunFields DEF HoldRecords, Unreleased
          <5>2. Drain(r) => hold[r].state = "fenced"
            BY DEF Drain, Cleanup
          <5> QED
            BY <4>1, <5>1, <5>2, Zenon DEF Fence, Drain, Release, Unreleased
        <4>2. CASE ReleaseBadly(r)
          <5>1. PICK drained \in BOOLEAN, left \in BOOLEAN :
                   Cleanup(r, "fenced", [hold[r] EXCEPT !.state = "released", !.drained = drained,
                                                        !.left = left])
            BY <4>2, Zenon DEF ReleaseBadly
          <5>2. PICK next : next = [hold[r] EXCEPT !.state = "released", !.drained = drained,
                                                   !.left = left]
            OBVIOUS
          <5>3. next \in HoldRecords /\ next.state # "none" /\ "fenced" \in Unreleased
            BY <5>2, RunFields DEF HoldRecords, Unreleased
          <5> QED
            BY <5>1, <5>2, <5>3, Zenon
        <4>3. CASE ReserveAnew(r)
          <5>1. PICK from \in Unreleased :
                   Cleanup(r, from, [NoHold EXCEPT !.state = "held", !.id = hold[r].id + 1])
            BY <4>3, Zenon DEF ReserveAnew
          <5>2. PICK next : next = [NoHold EXCEPT !.state = "held", !.id = hold[r].id + 1]
            OBVIOUS
          <5>3. next \in HoldRecords /\ next.state # "none"
            <6>1. next = [state |-> "held", id |-> hold[r].id + 1, drained |-> FALSE,
                          left |-> FALSE]
              BY <5>2 DEF NoHold
            <6>2. hold[r].id + 1 \in Nat
              BY RunFields
            <6> QED
              BY <6>1, <6>2 DEF HoldRecords, Unreleased
          <5> QED
            BY <5>1, <5>2, <5>3, Zenon
        <4> QED
          BY <2>3, <4>1, <4>2, <4>3
      <3>2. Moves(r)
        BY <3>1, CleanupMoves
      <3>3. /\ WorldStep /\ controller' = controller /\ baseline' = baseline
            /\ run[r].state # "none"
        BY <3>1 DEF Cleanup
      <3>4. faults' = faults \/ Fault
        BY <2>3, Zenon DEF Fence, Drain, Release, ReleaseBadly, ReserveAnew
      <3> QED
        BY <3>2, <3>3, <3>4
    <2>4. CASE Complete(r) \/ MisReport(r)
      <3>1. \E report \in Runs \cup {"none", "unusable"} : CompleteWith(r, report)
        <4>1. Reference \in Runs \cup {"none", "unusable"}
          BY <1>1 DEF Reference, BaselineRecords
        <4>2. {"none", "unusable", "other", "earlier"} \subseteq Runs \cup {"none", "unusable"}
          BY DEF Runs
        <4> QED
          BY <2>4, <4>1, <4>2, Zenon DEF Complete, MisReport
      <3>2. Moves(r)
        BY <3>1, CompleteMoves
      <3>3. /\ WorldStep /\ controller' = controller /\ baseline' = baseline
            /\ run[r].state # "none"
        BY <3>1 DEF CompleteWith
      <3>4. faults' = faults \/ Fault
        BY <2>4, Zenon DEF Complete, MisReport
      <3> QED
        BY <3>2, <3>3, <3>4
    <2>5. CASE RunFails(r)
      <3>1. /\ run[r].state \in {"CREATED", "RUNNING", "FINISHING", "CANCELLING"} /\ Fault
            /\ run' = [run EXCEPT ![r].state = "FAILED"] /\ hold' = hold
            /\ WorldStep /\ controller' = controller /\ baseline' = baseline
        BY <2>5, Zenon DEF RunFails
      <3>2. run'[r] = [run[r] EXCEPT !.state = "FAILED"]
        BY <3>1, RunFields
      <3>3. /\ run'[r] \in RunRecords /\ run'[r].state = "FAILED"
            /\ run'[r].report = run[r].report
        BY <3>2, RunFields DEF RunRecords, RunStates, Terminal
      <3>4. run' \in [Runs -> RunRecords]
        BY <3>1, <3>3, RunFields
      <3> QED
        BY <3>1, <3>3, <3>4, RunFields DEF Moves, HoldsFollowRuns
    <2> QED
      BY <1>2, <2>1, <2>2, <2>3, <2>4, <2>5, Zenon
  <1>3. CASE PodReady \/ ControllerCrashes
    <2>1. /\ WorldStep /\ UNCHANGED <<benchmarkVars, baseline>> /\ (faults' = faults \/ Fault)
          /\ \/ controller' = [controller EXCEPT !.ready = TRUE]
             \/ controller' = [uid |-> controller.uid + 1, ready |-> FALSE]
      BY <1>3 DEF PodReady, ControllerCrashes
    <2>2. controller' \in [uid : Nat, ready : BOOLEAN] /\ controller.uid <= controller'.uid
      <3>1. controller.uid \in Nat /\ controller.uid + 1 \in Nat
        BY <1>1
      <3>2. CASE controller' = [controller EXCEPT !.ready = TRUE]
        <4>1. controller' \in [uid : Nat, ready : BOOLEAN] /\ controller'.uid = controller.uid
          BY <1>1, <3>2
        <4> QED
          BY <3>1, <4>1
      <3>3. CASE controller' = [uid |-> controller.uid + 1, ready |-> FALSE]
        BY <3>1, <3>3
      <3> QED
        BY <2>1, <3>2, <3>3
    <2> QED
      BY <1>1, <2>1, <2>2 DEF WorldStep, BaselineMoves, benchmarkVars
  <1>4. CASE ClientReplaced
    BY <1>1, <1>4 DEF ClientReplaced, BaselineMoves, benchmarkVars
  <1>5. CASE StrangerSubmits
    <2>1. /\ run["other"] = NoRun /\ run' = [run EXCEPT !["other"].state = "CREATED"]
          /\ WorldStep /\ UNCHANGED <<hold, controller, baseline>> /\ Fault
      BY <1>5, Zenon DEF StrangerSubmits
    <2>2. "other" \in Runs
      BY DEF Runs
    <2>3. /\ run'["other"] \in RunRecords /\ run'["other"].state = "CREATED"
          /\ run'["other"].report = "none"
      BY <2>1, <2>2, RunFields DEF RunRecords, RunStates
    <2>4. run' \in [Runs -> RunRecords]
      BY <2>1, <2>2, <2>3, RunFields
    <2>5. Moves("other")
      BY <2>1, <2>2, <2>3, <2>4, RunFields DEF Moves, HoldsFollowRuns
    <2>6. \A r \in Submitted : run[r] = NoRun => run'[r] = NoRun
      BY <2>1, RunFields, RunNames DEF Submitted
    <2> QED
      BY <1>1, <2>1, <2>2, <2>5, <2>6 DEF WorldStep, BaselineMoves
  <1>6. CASE StrangerMovesBaseline
    <2>1. PICK state \in Follows[baseline.state], source \in Runs, measured \in BOOLEAN :
             baseline' = IF baseline.state = "none"
                         THEN [state |-> state, source |-> source, artifact |-> source,
                               revision |-> 1, measured |-> FALSE, by |-> "other"]
                         ELSE [baseline EXCEPT !.state = state, !.revision = @ + 1, !.by = "other",
                                  !.measured = IF state = "QUALIFIED" THEN measured ELSE @]
      BY <1>6, Zenon DEF StrangerMovesBaseline
    <2>2. state \in DOMAIN Follows /\ state # "none"
      BY <1>1, <2>1 DEF BaselineRecords, Follows
    <2>3. baseline.state = "none" => baseline.revision = 0
      BY DEF RevisionsIdentify, NoBaseline
    <2>4. /\ baseline' \in BaselineRecords /\ baseline.revision < baseline'.revision
          /\ baseline'.state = state /\ baseline'.by = "other" /\ baseline'.source \in Runs
      <3>1. CASE baseline.state = "none"
        BY <2>1, <2>2, <2>3, <3>1 DEF BaselineRecords
      <3>2. CASE baseline.state # "none"
        <4>1. baseline' = [baseline EXCEPT !.state = state, !.revision = @ + 1, !.by = "other",
                              !.measured = IF state = "QUALIFIED" THEN measured ELSE @]
          BY <2>1, <3>2, Zenon
        <4>2. /\ baseline.revision \in Nat /\ baseline.revision + 1 \in Nat
              /\ baseline.revision < baseline.revision + 1
          BY <1>1 DEF BaselineRecords
        <4>0. baseline.source \in Runs
          BY <3>2 DEF RevisionsIdentify, NoBaseline
        <4>3. /\ baseline'.revision = baseline.revision + 1 /\ baseline'.state = state
              /\ baseline'.by = "other" /\ baseline'.source \in Runs
          BY <1>1, <4>0, <4>1 DEF BaselineRecords
        <4>4. baseline' \in BaselineRecords
          BY <1>1, <2>2, <4>1, <4>2 DEF BaselineRecords
        <4> QED
          BY <4>2, <4>3, <4>4
      <3> QED
        BY <3>1, <3>2
    <2>5. WorldStep /\ UNCHANGED <<benchmarkVars, controller>> /\ Fault
      BY <1>6, Zenon DEF StrangerMovesBaseline
    <2> QED
      BY <1>1, <2>2, <2>4, <2>5 DEF WorldStep, BaselineMoves, benchmarkVars
  <1>7. CASE \E r \in Runs :
               \/ Dispatch(r) \/ ExecutorDone(r) \/ Fence(r) \/ Drain(r) \/ Release(r)
               \/ Complete(r) \/ Abort(r)
               \/ RunFails(r) \/ ReleaseBadly(r) \/ ReserveAnew(r) \/ MisReport(r)
    <2>1. PICK r \in Runs : /\ WorldStep /\ controller' = controller /\ baseline' = baseline
                           /\ Moves(r) /\ (faults' = faults \/ Fault) /\ run[r].state # "none"
      BY <1>2, <1>7, Zenon
    <2>2. \A q \in Submitted : run[q] = NoRun => run'[q] = NoRun
      BY <2>1, RunNames DEF Moves, NoRun
    <2> QED
      BY <1>1, <2>1, <2>2 DEF WorldStep, BaselineMoves
  <1> QED
    BY <1>3, <1>4, <1>5, <1>6, <1>7, Zenon DEF WorldNext

-----------------------------------------------------------------------------
(* What a session has established stays so, whoever takes the step. *)

LEMMA Steps ==
    /\ Submitted = {"reference", "cancellation", "decision"}
    /\ Opening = {"preflight", "first window", "plan", "client", "inspection window", "inspect"}
    /\ StepsOf["reference"] =
           {"preflight", "first window", "plan", "client", "inspection window", "inspect",
            "intent", "submit", "await", "artifacts", "proof", "qualify", "create", "match",
            "advance", "cancel window"}
    /\ StepsOf["cancellation"] =
           {"intent", "submit", "executor", "cancel", "observe", "fence", "checkpoint",
            "restart window", "controller", "reread", "delete", "replacement",
            "recovered hold", "aborted", "recovered cleanup", "persisted", "decision window"}
    /\ StepsOf["decision"] =
           {"intent", "submit", "await", "artifacts", "proof", "decide", "source again",
            "cancelled again", "last window", "record", "finish", "passed"}
  BY DEF Submitted, StepsOf, Opening

\* Steps that are taken in a phase.
LEMMA StepsInPhase ==
    /\ \A phase \in Submitted : "submit" \in StepsOf[phase] /\ "intent" \in StepsOf[phase]
    /\ \A phase \in Submitted :
           (IF phase = "cancellation" THEN "executor" ELSE "await") \in StepsOf[phase]
    /\ "advance" \in StepsOf["reference"] /\ "await" \in StepsOf["reference"]
    /\ "intent" \in StepsOf["reference"]
    /\ "intent" \notin Opening /\ "await" \notin Opening /\ "advance" \notin Opening
    /\ "create" \notin Opening /\ "inspect" \in Opening
    /\ "checkpoint" \in StepsOf["cancellation"] /\ "reread" \in StepsOf["cancellation"]
  BY Steps

\* The world and most steps of the session keep all but the step of the session.
SessionKept ==
    /\ session'.phase = session.phase /\ session'.source = session.source
    /\ session'.record = session.record /\ session'.consent = session.consent
    /\ session'.held = session.held /\ session'.pod = session.pod

Kept == /\ SubjectCompleted => SubjectCompleted'
        /\ SourceProved => SourceProved'
        /\ SourceProved /\ SourceQualifies => SourceQualifies'
        /\ Approvable => Approvable'
        /\ Approved => Approved'
        /\ FenceSeen => FenceSeen'
        /\ Restarted => Restarted'
        /\ Replaced => Replaced'
        /\ Aborted => Aborted'
        /\ Recovered => Recovered'
        /\ DecisionCompleted => DecisionCompleted'
        /\ DecisionCompleted /\ Decided => Decided'

\* What has been established of Runs, of the baseline and of the Pod is not undone.
LEMMA EstablishedIsKept ==
    ASSUME RecordsTyped, RunsGoOn, SessionKept,
           controller'.uid \in Nat, controller.uid <= controller'.uid,
           restartedAt # "none" => restartedAt' # "none"
    PROVE  Kept
  <1>1. SubjectCompleted => SubjectCompleted'
    <2>1. Subject' = Subject
      BY DEF SessionKept, Subject
    <2> QED
      BY <2>1 DEF SubjectCompleted, RunsGoOn
  <1>2. ASSUME SourceProved
        PROVE  SourceProved' /\ (SourceQualifies => SourceQualifies')
    <2>1. /\ session'.source = session.source /\ session.source \in Runs
          /\ run'[session.source] = run[session.source]
          /\ hold'[session.source] = hold[session.source]
      BY <1>2 DEF SourceProved, SessionKept, RunsGoOn
    <2> QED
      BY <1>2, <2>1 DEF SourceProved, SourceQualifies, CleanupProof
  <1>3. (Approvable => Approvable') /\ (Approved => Approved')
    BY DEF SessionKept, Approvable, Approved, Matches
  <1>4. (FenceSeen => FenceSeen') /\ (Aborted => Aborted')
    BY RunNames DEF FenceSeen, Aborted, Held, RunsGoOn
  <1>5. (Restarted => Restarted') /\ (Replaced => Replaced')
    <2>1. session'.pod = session.pod /\ session.pod \in Nat /\ controller.uid \in Nat
      BY DEF SessionKept, RecordsTyped
    <2> QED
      BY <2>1 DEF Restarted, Replaced
  <1>6. ASSUME Recovered PROVE Recovered'
    <2>1. /\ hold'["cancellation"] = hold["cancellation"] /\ session'.held = session.held
      BY <1>6, RunNames DEF Recovered, Aborted, RunsGoOn, SessionKept
    <2>2. Aborted' /\ Replaced' /\ Restarted'
      BY <1>4, <1>5, <1>6 DEF Recovered
    <2>3. CleanupProof("cancellation")' /\ SameReservation'
      BY <1>6, <2>1 DEF Recovered, CleanupProof, SameReservation, Held
    <2> QED
      BY <2>2, <2>3 DEF Recovered
  <1>7. /\ DecisionCompleted => DecisionCompleted'
        /\ DecisionCompleted /\ Decided => Decided'
    <2>1. DecisionCompleted => run'["decision"] = run["decision"]
      BY RunNames DEF DecisionCompleted, RunsGoOn
    <2> QED
      BY <2>1 DEF DecisionCompleted, Decided, SessionKept
  <1> QED
    BY <1>1, <1>2, <1>3, <1>4, <1>5, <1>6, <1>7 DEF Kept

\* A session that stays at its step, or stops, keeps what it has established.
LEMMA StayingKeeps ==
    ASSUME Established, Kept, SessionKept, session'.step \in {session.step, "failed"},
           journal \subseteq journal', journal' \cap Submitted \subseteq journal,
           At("submit")' => run'[session.phase] = run[session.phase],
           session'.pod <= controller'.uid
    PROVE  Established'
  <1>1. IntentsInOrder'
    BY Steps DEF Established, IntentsInOrder, SessionKept, At
  <1>2. BaselineEstablished'
    BY Steps DEF Established, BaselineEstablished, SessionKept, Kept, At
  <1>3. RecoveryEstablished'
    BY Steps DEF Established, RecoveryEstablished, SessionKept, Kept, At
  <1>4. DecisionEstablished'
    BY Steps DEF Established, DecisionEstablished, SessionKept, Kept, At
  <1> QED
    BY <1>1, <1>2, <1>3, <1>4 DEF Established

-----------------------------------------------------------------------------
(* The steps of the session. *)

\* What a session only reads, it does not change.
LEMMA ReadsChangeNothing ==
    ASSUME Reads
    PROVE  /\ UNCHANGED qualificationVars /\ run' = run /\ hold' = hold
           /\ controller' = controller /\ client' = client /\ baseline' = baseline
           /\ journal' = journal /\ restartedAt' = restartedAt /\ faults' = faults
  BY Zenon DEF Reads, benchmarkVars

\* The steps that only read.
LEMMA ReadingSteps ==
    ASSUME \/ Preflight \/ FirstWindow \/ InspectionWindow \/ InspectBaseline
           \/ AwaitCompleted \/ VerifyArtifacts \/ VerifyCleanup \/ MatchExisting
           \/ BaselineApproved \/ CancelWindow \/ SeeExecutor \/ ObserveCancelling
           \/ AwaitFence \/ RestartWindow \/ ReadController \/ RereadHold \/ ReadReplacement
           \/ AwaitAborted \/ RecoveredCleanup \/ BaselinePersisted \/ DecisionWindow
           \/ Decide \/ SourceAgain \/ CancelledAgain \/ LastWindow \/ Finish
    PROVE  Reads
  BY Zenon
     DEF Preflight, FirstWindow, InspectionWindow, InspectBaseline, AwaitCompleted,
         VerifyArtifacts, VerifyCleanup, MatchExisting, BaselineApproved, CancelWindow,
         SeeExecutor, ObserveCancelling, AwaitFence, RestartWindow, ReadController, RereadHold,
         ReadReplacement, AwaitAborted, RecoveredCleanup, BaselinePersisted, DecisionWindow,
         Decide, SourceAgain, CancelledAgain, LastWindow, Finish

\* The session submits a Run once, and cancels one that has not ended.
LEMMA SubmitAndCancelMove ==
    ASSUME RecordsTyped, HoldsFollowRuns, Established, Submit \/ RequestCancel
    PROVE  \E r \in Runs : Moves(r)
  <1> DEFINE r == IF Submit THEN session.phase ELSE "cancellation"
             state == IF Submit THEN "CREATED" ELSE "CANCELLING"
  <1>1. /\ run' = [run EXCEPT ![r].state = state] /\ hold' = hold
    BY Zenon DEF Submit, RequestCancel
  <1>2. r \in Runs
    BY RunNames DEF RecordsTyped
  <1>3. \/ run[r] = NoRun /\ At("submit") /\ r = session.phase /\ state = "CREATED"
        \/ run[r].state \in Dispatchable /\ state = "CANCELLING"
    BY DEF Submit, RequestCancel, Established, IntentsInOrder
  <1> HIDE DEF r, state
  <1>4. /\ run'[r] = [run[r] EXCEPT !.state = state]
        /\ \A q \in Runs \ {r} : run'[q] = run[q]
    BY <1>1, <1>2, RunFields
  <1>5. /\ run'[r] \in RunRecords /\ run'[r].state = state /\ run'[r].report = run[r].report
    BY <1>2, <1>3, <1>4, RunFields DEF RunRecords, RunStates
  <1>6. run' \in [Runs -> RunRecords]
    BY <1>1, <1>2, <1>5, RunFields
  <1>7. Moves(r)
    BY <1>1, <1>2, <1>3, <1>4, <1>5, <1>6, RunFields DEF Moves, HoldsFollowRuns, Dispatchable
  <1> QED
    BY <1>2, <1>7

\* The session writes the baseline when it creates it, or at the revision it knows.
LEMMA SessionWritesBaseline ==
    ASSUME RecordsTyped, RevisionsIdentify, Established,
           CreateBaseline \/ QualifyBaseline \/ ApproveBaseline
    PROVE  /\ BaselineMoves /\ baseline'.by = "session" /\ session'.record = baseline'
           /\ baseline'.source = session.source /\ baseline'.artifact = session.source
           /\ baseline' # baseline /\ session.consent
           /\ baseline'.state = "APPROVED" => baseline'.measured
           /\ session'.step = "advance"
           /\ session'.phase = session.phase /\ session'.source = session.source
           /\ session'.consent = session.consent
           /\ session'.held = session.held /\ session'.pod = session.pod
  <1>0. /\ baseline \in BaselineRecords /\ baseline.revision \in Nat
        /\ baseline.revision + 1 \in Nat /\ baseline.revision < baseline.revision + 1
    BY DEF RecordsTyped, BaselineRecords
  <1>1. CASE CreateBaseline
    <2>1. /\ session.step = "create" /\ session.consent /\ baseline = NoBaseline
          /\ baseline' = [state |-> "CANDIDATE", source |-> session.source,
                         artifact |-> session.source, revision |-> 1, measured |-> FALSE,
                         by |-> "session"]
          /\ session' = [session EXCEPT !.record = baseline', !.step = "advance"]
      BY <1>1, Zenon DEF CreateBaseline, At
    <2>2. session.source \in Runs
      BY <2>1, Steps DEF Established, BaselineEstablished
    <2>3. baseline' \in BaselineRecords
      BY <2>1, <2>2 DEF BaselineRecords, Follows
    <2>4. baseline.revision = 0 /\ baseline'.revision = 1
      BY <2>1 DEF NoBaseline
    <2>5. BaselineMoves /\ baseline' # baseline
      BY <2>1, <2>2, <2>3, <2>4 DEF BaselineMoves
    <2> QED
      BY <2>1, <2>5 DEF RecordsTyped
  <1>2. CASE QualifyBaseline \/ ApproveBaseline
    <2>1. /\ session.step = "advance" /\ baseline.revision = session.record.revision
          /\ session' = [session EXCEPT !.record = baseline']
      BY <1>2, Zenon DEF QualifyBaseline, ApproveBaseline, Transition, At
    <2>2. baseline = session.record /\ Approvable
      BY <2>1 DEF RevisionsIdentify, Established, BaselineEstablished, At
    <2>3. /\ baseline.source = session.source /\ baseline.artifact = session.source
          /\ session.source \in Runs
      BY <2>1, <2>2, Steps DEF Approvable, Matches, Established, BaselineEstablished
    <2>4. /\ baseline.state \in {"CANDIDATE", "QUALIFIED"} /\ session.consent
      BY <1>2, <2>2 DEF QualifyBaseline, ApproveBaseline, Transition, Approvable
    <2>5. PICK state \in {"QUALIFIED", "APPROVED"}, measured \in BOOLEAN :
             /\ baseline' = [baseline EXCEPT !.state = state, !.measured = measured,
                                            !.revision = baseline.revision + 1, !.by = "session"]
             /\ state = "APPROVED" => measured
      <3>1. CASE QualifyBaseline
        <4>1. baseline' = [[baseline EXCEPT !.state = "QUALIFIED", !.measured = TRUE]
                              EXCEPT !.revision = @ + 1, !.by = "session"]
          BY <3>1, Zenon DEF QualifyBaseline, Transition
        <4>2. baseline' = [baseline EXCEPT !.state = "QUALIFIED", !.measured = TRUE,
                                           !.revision = baseline.revision + 1, !.by = "session"]
          BY <1>0, <4>1 DEF BaselineRecords
        <4> QED
          BY <4>2, Zenon
      <3>2. CASE ApproveBaseline
        <4>1. /\ baseline' = [[baseline EXCEPT !.state = "APPROVED"]
                                 EXCEPT !.revision = @ + 1, !.by = "session"]
              /\ session.record.measured
          BY <3>2, Zenon DEF ApproveBaseline, Transition, QualificationAgrees
        <4>2. baseline.measured \in BOOLEAN /\ baseline.measured
          BY <1>0, <2>2, <4>1 DEF BaselineRecords
        <4>3. baseline' = [baseline EXCEPT !.state = "APPROVED", !.measured = baseline.measured,
                                           !.revision = baseline.revision + 1, !.by = "session"]
          BY <1>0, <4>1 DEF BaselineRecords
        <4> QED
          BY <4>2, <4>3, Zenon
      <3> QED
        BY <1>2, <3>1, <3>2
    <2>6. /\ baseline'.state = state /\ baseline'.measured = measured /\ baseline'.by = "session"
          /\ baseline'.revision = baseline.revision + 1
          /\ baseline'.source = baseline.source /\ baseline'.artifact = baseline.artifact
      BY <1>0, <2>5 DEF BaselineRecords
    <2>7. baseline' \in BaselineRecords
      BY <1>0, <2>5 DEF BaselineRecords, Follows
    <2>8. BaselineMoves /\ baseline' # baseline
      <3>1. baseline.revision < baseline'.revision /\ baseline.revision \in Nat
        BY <1>0, <2>6
      <3>2. baseline' # baseline
        BY <3>1
      <3>3. baseline'.state # "none" /\ baseline'.source \in Runs
        BY <2>3, <2>5, <2>6
      <3> QED
        BY <2>7, <3>1, <3>2, <3>3, Zenon DEF BaselineMoves
    <2>9. /\ session'.record = baseline' /\ session'.step = "advance"
          /\ session'.phase = session.phase /\ session'.source = session.source
          /\ session'.consent = session.consent
          /\ session'.held = session.held /\ session'.pod = session.pod
      BY <2>1 DEF RecordsTyped
    <2> QED
      BY <2>3, <2>4, <2>5, <2>6, <2>8, <2>9
  <1> QED
    BY <1>1, <1>2

\* What a step of the session may change.
LEMMA SessionGoesOn ==
    ASSUME RecordsTyped, HoldsFollowRuns, RevisionsIdentify, Established, SessionNext
    PROVE  /\ UNCHANGED qualificationVars /\ faults' = faults
           /\ UNCHANGED benchmarkVars \/ \E r \in Runs : Moves(r)
           /\ controller' \in [uid : Nat, ready : BOOLEAN] /\ controller.uid <= controller'.uid
           /\ BaselineMoves /\ client' \in {client, "own"}
           /\ restartedAt # "none" => restartedAt' # "none"
           /\ journal \subseteq journal'
           /\ \/ journal' \subseteq journal \cup
                     {"session-planned", "approval", "cleanup-held-before-restart",
                      "controller-replaced", "acceptance-passed", "incomplete"}
              \/ Intend
  <1>0. /\ controller \in [uid : Nat, ready : BOOLEAN] /\ baseline \in BaselineRecords
        /\ controller.uid <= controller.uid
    BY DEF RecordsTyped
  <1>1. CASE Reads
    BY <1>0, <1>1, ReadsChangeNothing DEF BaselineMoves, benchmarkVars
  <1>2. CASE CreateClient \/ Fail
    BY <1>0, <1>2 DEF CreateClient, Fail, BaselineMoves, benchmarkVars
  <1>3. CASE Intend
    BY <1>0, <1>3 DEF Intend, IntentRecorded, Records, BaselineMoves, benchmarkVars
  <1>4. CASE PlanSession \/ IntendApproval \/ CheckpointHold \/ RecoveredHold \/ RecordPassed
    BY <1>0, <1>4 DEF PlanSession, IntendApproval, CheckpointHold, CheckpointRecorded,
         RecoveredHold, RecordPassed, Records, BaselineMoves, benchmarkVars
  <1>5. CASE Submit \/ RequestCancel
    BY <1>0, <1>5, SubmitAndCancelMove DEF Submit, RequestCancel, BaselineMoves
  <1>6. CASE CreateBaseline \/ QualifyBaseline \/ ApproveBaseline
    <2>1. BaselineMoves
      BY <1>6, SessionWritesBaseline
    <2> QED
      BY <1>0, <1>6, <2>1
         DEF CreateBaseline, QualifyBaseline, ApproveBaseline, Transition, benchmarkVars
  <1>7. CASE DeletePod
    <2>1. /\ controller' = [uid |-> controller.uid + 1, ready |-> FALSE]
          /\ restartedAt' = Held.state /\ session.step = "delete"
      BY <1>7 DEF DeletePod, At
    <2>2. restartedAt' # "none"
      BY <2>1 DEF Established, RecoveryEstablished, FenceSeen
    <2>3. controller' \in [uid : Nat, ready : BOOLEAN] /\ controller.uid <= controller'.uid
      <3>1. controller.uid \in Nat /\ controller.uid + 1 \in Nat
        BY <1>0
      <3> QED
        BY <2>1, <3>1
    <2> QED
      BY <1>0, <1>7, <2>2, <2>3 DEF DeletePod, BaselineMoves, benchmarkVars
  <1> QED
    BY <1>1, <1>2, <1>3, <1>4, <1>5, <1>6, <1>7, ReadingSteps DEF SessionNext

\* From which step a session goes on to which, and what it has then seen.
Advances ==
    \/ session.step = "preflight" /\ session'.step = "first window"
    \/ session.step = "first window" /\ session'.step = "plan"
    \/ session.step = "plan" /\ session'.step = "client" /\ "session-planned" \in journal'
    \/ session.step = "client" /\ session'.step = "inspection window"
    \/ session.step = "inspection window" /\ session'.step = "inspect"
    \/ session.step = "await" /\ session'.step = "artifacts" /\ SubjectCompleted
    \/ session.step = "artifacts" /\ session'.step = "proof"
    \/ /\ session.step = "proof" /\ session'.step = "qualify"
       /\ session.phase = "reference" /\ SourceProved
    \/ /\ session.step = "qualify" /\ session'.step \in {"create", "match"}
       /\ SourceQualifies /\ "approval" \in journal'
    \/ session.step = "match" /\ session'.step = "advance" /\ Approvable
    \/ session.step = "advance" /\ session'.step = "cancel window" /\ Approved

Recovers ==
    \/ session.step = "executor" /\ session'.step = "cancel"
    \/ session.step = "cancel" /\ session'.step = "observe"
    \/ session.step = "observe" /\ session'.step = "fence"
    \/ session.step = "fence" /\ session'.step = "observe"
    \/ /\ session.step = "checkpoint" /\ session'.step = "restart window"
       /\ "cleanup-held-before-restart" \in journal'
    \/ session.step = "restart window" /\ session'.step = "controller"
    \/ session.step = "reread" /\ session'.step = "delete"
    \/ session.step = "delete" /\ session'.step = "replacement" /\ Restarted'
    \/ session.step = "replacement" /\ session'.step = "recovered hold" /\ Replaced
    \/ session.step = "recovered hold" /\ session'.step = "aborted"
    \/ session.step = "aborted" /\ session'.step = "recovered cleanup" /\ Aborted
    \/ session.step = "recovered cleanup" /\ session'.step = "persisted" /\ Recovered
    \/ session.step = "persisted" /\ session'.step = "decision window"

Decides ==
    \/ /\ session.step = "proof" /\ session'.step = "decide"
       /\ session.phase = "decision" /\ DecisionCompleted
    \/ session.step = "decide" /\ session'.step = "source again" /\ Decided
    \/ session.step = "source again" /\ session'.step = "cancelled again"
    \/ session.step = "cancelled again" /\ session'.step = "last window"
    \/ session.step = "last window" /\ session'.step = "record"
    \/ session.step = "record" /\ session'.step = "finish"
    \/ session.step = "finish" /\ session'.step = "passed"

\* A session that goes on by the tables has established what its next step relies on.
LEMMA AdvancesEstablish ==
    ASSUME Established, Kept, SessionKept, session.phase \in Submitted,
           Advances \/ Recovers \/ Decides,
           journal \subseteq journal', journal' \cap Submitted \subseteq journal,
           session'.pod <= controller'.uid
    PROVE  Established'
  <1>1. IntentsInOrder'
    <2>1. session'.step \in StepsOf[session.phase]
      <3>1. session.step \in StepsOf[session.phase] \cup {"failed"}
        BY DEF Established, IntentsInOrder
      <3>2. CASE Advances
        BY <3>1, <3>2, Steps DEF Advances
      <3>3. CASE Recovers
        BY <3>1, <3>3, Steps DEF Recovers
      <3>4. CASE Decides
        BY <3>1, <3>4, Steps DEF Decides
      <3> QED
        BY <3>2, <3>3, <3>4
    <2>2. /\ session.step \notin {"intent", "failed"}
          /\ session'.step \notin {"intent", "submit", "failed"}
          /\ session'.step \in Opening => session.step \in Opening
      BY Steps DEF Advances, Recovers, Decides
    <2>3. session.phase \in journal => session.phase \in journal'
      OBVIOUS
    <2>4. \A r \in Submitted : r \in journal' => r \in journal
      OBVIOUS
    <2> QED
      BY <2>1, <2>2, <2>3, <2>4, Steps DEF Established, IntentsInOrder, SessionKept, At
  <1>2. BaselineEstablished'
    <2>1. CASE Advances
      BY <2>1, Steps
         DEF Established, IntentsInOrder, BaselineEstablished, SessionKept, Kept, At, Advances
    <2>2. CASE Recovers
      BY <2>2, Steps
         DEF Established, IntentsInOrder, BaselineEstablished, SessionKept, Kept, At, Recovers
    <2>3. CASE Decides
      BY <2>3, Steps
         DEF Established, IntentsInOrder, BaselineEstablished, SessionKept, Kept, At, Decides
    <2> QED
      BY <2>1, <2>2, <2>3
  <1>3. RecoveryEstablished'
    <2>1. CASE Advances
      BY <2>1, Steps
         DEF Established, IntentsInOrder, RecoveryEstablished, SessionKept, Kept, At, Advances
    <2>2. CASE Recovers
      BY <2>2, Steps
         DEF Established, IntentsInOrder, RecoveryEstablished, SessionKept, Kept, At, Recovers
    <2>3. CASE Decides
      BY <2>3, Steps
         DEF Established, IntentsInOrder, RecoveryEstablished, SessionKept, Kept, At, Decides
    <2> QED
      BY <2>1, <2>2, <2>3
  <1>4. DecisionEstablished'
    <2>1. CASE Advances
      BY <2>1, Steps
         DEF Established, IntentsInOrder, DecisionEstablished, SessionKept, Kept, At, Advances
    <2>2. CASE Recovers
      BY <2>2, Steps
         DEF Established, IntentsInOrder, DecisionEstablished, SessionKept, Kept, At, Recovers
    <2>3. CASE Decides
      BY <2>3, Steps
         DEF Established, IntentsInOrder, DecisionEstablished, SessionKept, Kept, At, Decides
    <2> QED
      BY <2>1, <2>2, <2>3
  <1> QED
    BY <1>1, <1>2, <1>3, <1>4 DEF Established

\* A session that only goes to another step keeps all it has established.
LEMMA GoKeeps ==
    ASSUME RecordsTyped, HoldsFollowRuns, RevisionsIdentify, Established, SessionNext,
           NEW next, Go(next)
    PROVE  /\ session'.step = next /\ SessionKept /\ Kept /\ session'.pod <= controller'.uid
           /\ RunsGoOn
  <1>1. session'.step = next /\ SessionKept
    BY DEF Go, RecordsTyped, SessionKept
  <1>2. RunsGoOn
    BY SessionGoesOn, MovesKeep
  <1>3. /\ controller'.uid \in Nat /\ controller.uid <= controller'.uid
        /\ restartedAt # "none" => restartedAt' # "none"
    BY SessionGoesOn
  <1>4. Kept
    BY <1>1, <1>2, <1>3, EstablishedIsKept
  <1>5. session.pod \in Nat /\ controller.uid \in Nat /\ session.pod <= controller.uid
    BY DEF Established, RecordsTyped
  <1> QED
    BY <1>1, <1>2, <1>3, <1>4, <1>5 DEF SessionKept

\* Only an intent adds a Run to the journal.
LEMMA JournalGrows ==
    ASSUME RecordsTyped, HoldsFollowRuns, RevisionsIdentify, Established, SessionNext, ~Intend
    PROVE  journal \subseteq journal' /\ journal' \cap Submitted \subseteq journal
  BY SessionGoesOn DEF Submitted

\* Most steps go on as the tables say.
LEMMA SessionAdvances ==
    ASSUME RecordsTyped, HoldsFollowRuns, RevisionsIdentify, Established,
           \/ Preflight \/ FirstWindow \/ PlanSession \/ CreateClient \/ InspectionWindow
           \/ AwaitCompleted \/ VerifyArtifacts \/ VerifyCleanup \/ IntendApproval
           \/ MatchExisting \/ BaselineApproved
    PROVE  Advances \/ Decides
  <1>1. CASE Preflight \/ FirstWindow \/ CreateClient \/ InspectionWindow \/ VerifyArtifacts
    BY <1>1 DEF Preflight, FirstWindow, CreateClient, InspectionWindow, VerifyArtifacts,
                At, Go, RecordsTyped, Advances
  <1>2. CASE AwaitCompleted
    <2>1. session.step = "await" /\ session'.step = "artifacts"
          /\ run[Subject].state = "COMPLETED"
      BY <1>2 DEF AwaitCompleted, At, Go, RecordsTyped
    <2>2. Subject \in Runs
      BY <2>1, Steps, RunNames DEF Established, BaselineEstablished, Subject, RecordsTyped
    <2> QED
      BY <2>1, <2>2 DEF SubjectCompleted, Advances
  <1>3. CASE VerifyCleanup
    <2>1. session.step = "proof" /\ session'.step = AfterProof /\ CleanupProof(Subject)
      BY <1>3 DEF VerifyCleanup, At, Go, RecordsTyped
    <2>2. SubjectCompleted
      BY <2>1 DEF Established, BaselineEstablished
    <2>3. session.phase \in {"reference", "decision"}
      BY <2>1, Steps DEF Established, IntentsInOrder, RecordsTyped
    <2>4. CASE session.phase = "reference"
      BY <2>1, <2>2, <2>4 DEF AfterProof, Subject, SubjectCompleted, SourceProved, Advances
    <2>5. CASE session.phase = "decision"
      BY <2>1, <2>2, <2>5 DEF AfterProof, Subject, SubjectCompleted, DecisionCompleted, Decides
    <2> QED
      BY <2>3, <2>4, <2>5
  <1>4. CASE PlanSession \/ IntendApproval
    BY <1>4 DEF PlanSession, IntendApproval, At, Go, Records, RecordsTyped, Advances
  <1>5. CASE MatchExisting
    <2>1. /\ session.step = "match" /\ session'.step = "advance" /\ Matches(session.record)
          /\ session.record.state = "APPROVED" \/ session.consent
      BY <1>5 DEF MatchExisting, At, Go, RecordsTyped
    <2>2. session.source \in Runs
      BY <2>1, Steps DEF Established, BaselineEstablished
    <2>3. session.record # NoBaseline
      BY <2>1, <2>2 DEF Matches, NoBaseline, Runs, Submitted
    <2> QED
      BY <2>1, <2>3 DEF Approvable, Advances
  <1>6. CASE BaselineApproved
    <2>1. /\ session.step = "advance" /\ session'.step = "cancel window"
          /\ session.record.state = "APPROVED" /\ session.record.measured
      BY <1>6 DEF BaselineApproved, At, Go, RecordsTyped, QualificationAgrees
    <2>2. Matches(session.record)
      BY <2>1 DEF Established, BaselineEstablished, Approvable, At
    <2> QED
      BY <2>1, <2>2 DEF Approved, Advances
  <1> QED
    BY <1>1, <1>2, <1>3, <1>4, <1>5, <1>6

\* So do those that restart the controller, ...
LEMMA SessionRecovers ==
    ASSUME RecordsTyped, HoldsFollowRuns, RevisionsIdentify, Established,
           \/ SeeExecutor \/ RequestCancel \/ ObserveCancelling
           \/ (AwaitFence /\ Go("observe")) \/ CheckpointHold \/ RestartWindow \/ RereadHold
           \/ DeletePod \/ ReadReplacement \/ RecoveredHold \/ AwaitAborted
           \/ RecoveredCleanup \/ BaselinePersisted
    PROVE  Recovers
  <1>1. CASE \/ SeeExecutor \/ RequestCancel \/ ObserveCancelling
             \/ (AwaitFence /\ Go("observe")) \/ CheckpointHold \/ RestartWindow
             \/ RereadHold \/ RecoveredHold \/ BaselinePersisted
    BY <1>1 DEF SeeExecutor, RequestCancel, ObserveCancelling, AwaitFence, CheckpointHold,
                CheckpointRecorded, Records, RestartWindow, RereadHold, RecoveredHold,
                BaselinePersisted, At, Go, RecordsTyped, Recovers
  <1>2. CASE DeletePod
    BY <1>2 DEF DeletePod, At, Go, RecordsTyped, Recovers, Restarted, Established,
                RecoveryEstablished, FenceSeen
  <1>3. CASE ReadReplacement
    <2>1. /\ session.step = "replacement" /\ session'.step = "recovered hold"
          /\ controller.uid # session.pod
      BY <1>3 DEF ReadReplacement, At, Go, RecordsTyped
    <2>2. session.pod \in Nat /\ controller.uid \in Nat /\ session.pod <= controller.uid
      BY DEF Established, RecordsTyped
    <2>3. \A pod, uid \in Nat : pod <= uid /\ uid # pod => pod < uid
      OBVIOUS
    <2>4. Replaced
      BY <2>1, <2>2, <2>3 DEF Replaced
    <2> QED
      BY <2>1, <2>4 DEF Recovers
  <1>4. CASE AwaitAborted
    BY <1>4 DEF AwaitAborted, At, Go, RecordsTyped, Recovers, Aborted
  <1>5. CASE RecoveredCleanup
    <2>1. /\ session.step = "recovered cleanup" /\ session'.step = "persisted"
          /\ CleanupProof("cancellation") /\ SameReservation
      BY <1>5 DEF RecoveredCleanup, At, Go, RecordsTyped
    <2>2. Aborted /\ Replaced /\ Restarted
      BY <2>1 DEF Established, RecoveryEstablished, At
    <2> QED
      BY <2>1, <2>2 DEF Recovered, Recovers
  <1> QED
    BY <1>1, <1>2, <1>3, <1>4, <1>5

\* ... and those that decide.
LEMMA SessionDecides ==
    ASSUME RecordsTyped,
           \/ Decide \/ SourceAgain \/ CancelledAgain \/ LastWindow \/ RecordPassed \/ Finish
    PROVE  Decides
  BY DEF Decide, SourceAgain, CancelledAgain, LastWindow, RecordPassed, Finish, At, Go,
         RecordsTyped, Decides

\* Each step of the session establishes what the step after it relies on.
LEMMA SessionEstablishes ==
    ASSUME RecordsTyped, HoldsFollowRuns, RevisionsIdentify, Established, JournalCoversWrites,
           SessionNext
    PROVE  Established'
  <1>0. /\ session.phase \in Submitted /\ session.step \in StepsOf[session.phase] \cup {"failed"}
        /\ session.pod \in Nat /\ controller.uid \in Nat
    BY DEF RecordsTyped, Established, IntentsInOrder
  <1>1. ASSUME NEW next, Go(next), ~Intend, Advances \/ Recovers \/ Decides PROVE Established'
    BY <1>0, <1>1, GoKeeps, JournalGrows, AdvancesEstablish
  <1>2. CASE Fail
    <2>1. Go("failed") /\ ~Intend
      BY <1>2 DEF Fail, Intend, Go, RecordsTyped
    <2> QED
      BY <2>1, GoKeeps, JournalGrows, StayingKeeps DEF At
  <1>3. CASE Intend
    <2>1. /\ session.step = "intent" /\ journal' = journal \cup {session.phase}
          /\ Go("submit") /\ run' = run
      BY <1>3 DEF Intend, IntentRecorded, Records, At, benchmarkVars
    <2>2. /\ session'.step = "submit" /\ SessionKept /\ Kept /\ session'.pod <= controller'.uid
      BY <2>1, GoKeeps
    <2>3. session.phase \notin journal /\ run[session.phase] = NoRun
      BY <1>0, <2>1, Steps DEF Established, IntentsInOrder, JournalCoversWrites, At
    <2>4. IntentsInOrder'
      <3>1. /\ session'.step \in StepsOf[session'.phase] /\ session'.step = "submit"
            /\ session'.phase = session.phase /\ run'[session'.phase] = NoRun
        BY <1>0, <2>1, <2>2, <2>3, StepsInPhase, Zenon DEF SessionKept
      <3>2. \A r \in Submitted : r \in journal' => r \in journal \/ r = session.phase
        BY <2>1
      <3> QED
        BY <1>0, <2>1, <3>1, <3>2, Steps DEF Established, IntentsInOrder, At
    <2>5. BaselineEstablished'
      BY <1>0, <2>1, <2>2, Steps DEF Established, BaselineEstablished, SessionKept, Kept, At
    <2>6. RecoveryEstablished' /\ DecisionEstablished'
      BY <2>1, <2>2
         DEF Established, RecoveryEstablished, DecisionEstablished, SessionKept, Kept, At
    <2> QED
      BY <2>2, <2>4, <2>5, <2>6 DEF Established
  <1>4. CASE Submit
    <2>1. /\ session.step = "submit" /\ journal' = journal /\ Go(AfterSubmit)
      BY <1>4 DEF Submit, At
    <2>2. /\ session'.step = AfterSubmit /\ SessionKept /\ Kept
          /\ session'.pod <= controller'.uid
      BY <2>1, GoKeeps
    <2>3. IntentsInOrder'
      <3>1. /\ session'.step \in StepsOf[session'.phase] /\ session'.phase = session.phase
            /\ session'.step \in {"executor", "await"}
        <4>1. session'.phase = session.phase /\ session'.step = AfterSubmit
          BY <2>2 DEF SessionKept
        <4>2. AfterSubmit \in StepsOf[session.phase] /\ AfterSubmit \in {"executor", "await"}
          BY <1>0, StepsInPhase DEF AfterSubmit
        <4> QED
          BY <4>1, <4>2, Zenon
      <3>2. session.phase \in journal' /\ journal' = journal
        BY <2>1 DEF Established, IntentsInOrder, At
      <3> QED
        BY <1>0, <2>1, <3>1, <3>2, Steps DEF Established, IntentsInOrder, At
    <2>4. BaselineEstablished'
      BY <1>0, <2>1, <2>2, Steps
         DEF Established, BaselineEstablished, SessionKept, Kept, At, AfterSubmit
    <2>5. RecoveryEstablished' /\ DecisionEstablished'
      BY <2>1, <2>2
         DEF Established, RecoveryEstablished, DecisionEstablished, SessionKept, Kept, At,
             AfterSubmit
    <2> QED
      BY <2>2, <2>3, <2>4, <2>5 DEF Established
  <1>5. CASE InspectBaseline
    <2>1. /\ session.step = "inspect" /\ Reads
          /\ session' = [session EXCEPT !.record = baseline,
                            !.source = IF SelectSource = "none" THEN "reference" ELSE SelectSource,
                            !.step = IF SelectSource = "none" THEN "intent" ELSE "await"]
      BY <1>5, Zenon DEF InspectBaseline, At
    <2>2. /\ session'.step \in {"intent", "await"} /\ session'.phase = session.phase
          /\ session'.source = IF SelectSource = "none" THEN "reference" ELSE SelectSource
          /\ session'.pod = session.pod
      BY <2>1 DEF RecordsTyped
    <2>3. session'.source \in Runs
      BY <2>2, RunNames DEF SelectSource, RevisionsIdentify, RecordsTyped
    <2>4. session.phase = "reference"
      BY <1>0, <2>1, Steps
    <2>5. IntentsInOrder'
      <3>1. session'.step \in StepsOf["reference"] /\ session'.step \notin Opening \cup {"submit"}
        BY <2>2, StepsInPhase
      <3>2. session.step \in Opening /\ journal' = journal
        BY <2>1, StepsInPhase, ReadsChangeNothing
      <3>3. /\ "reference" \notin journal' /\ "cancellation" \notin journal'
            /\ "decision" \notin journal'
        BY <2>4, <3>2 DEF Established, IntentsInOrder
      <3>4. session'.phase = "reference" /\ session'.step # "submit"
        BY <2>2, <2>4
      <3> QED
        BY <3>1, <3>3, <3>4 DEF IntentsInOrder, At
    <2>6. BaselineEstablished' /\ RecoveryEstablished' /\ DecisionEstablished'
      BY <2>2, <2>3, <2>4, Steps
         DEF BaselineEstablished, RecoveryEstablished, DecisionEstablished, At
    <2> QED
      BY <2>1, <2>2, <2>5, <2>6, ReadsChangeNothing DEF Established
  <1>6. CASE CreateBaseline \/ QualifyBaseline \/ ApproveBaseline
    <2>1. /\ session'.step = "advance" /\ session.step \in {"create", "advance"}
          /\ session'.phase = session.phase /\ session'.source = session.source
          /\ session'.consent = session.consent
          /\ session'.held = session.held /\ session'.pod = session.pod
          /\ session'.record = baseline' /\ baseline'.by = "session" /\ session.consent
          /\ baseline'.source = session.source /\ baseline'.artifact = session.source
          /\ run' = run /\ hold' = hold /\ controller' = controller /\ journal' = journal
      BY <1>6, SessionWritesBaseline
         DEF CreateBaseline, QualifyBaseline, ApproveBaseline, Transition, At, benchmarkVars
    <2>2. session.phase = "reference"
      BY <1>0, <2>1, Steps
    <2>3. IntentsInOrder'
      <3>1. session'.step \in StepsOf["reference"] /\ session'.step \notin Opening
        BY <2>1, StepsInPhase
      <3> QED
        BY <2>1, <2>2, <3>1 DEF Established, IntentsInOrder, At
    <2>4. /\ SourceProved /\ SourceQualifies /\ "approval" \in journal
      BY <2>1 DEF Established, BaselineEstablished
    <2>5. SourceProved' /\ SourceQualifies' /\ session'.source \in Runs
      BY <2>1, <2>4 DEF SourceProved, SourceQualifies, CleanupProof
    <2>6. Approvable'
      BY <2>1 DEF Approvable, Matches, NoBaseline
    <2>7. BaselineEstablished' /\ RecoveryEstablished' /\ DecisionEstablished'
      BY <2>1, <2>2, <2>4, <2>5, <2>6
         DEF BaselineEstablished, RecoveryEstablished, DecisionEstablished, At
    <2> QED
      BY <2>1, <2>3, <2>7 DEF Established
  <1>7. CASE CancelWindow \/ DecisionWindow
    <2>1. /\ Reads /\ session'.step = "intent"
          /\ session'.source = session.source /\ session'.record = session.record
          /\ session'.consent = session.consent
          /\ session'.held = session.held /\ session'.pod = session.pod
      BY <1>7 DEF CancelWindow, DecisionWindow, Proceed, RecordsTyped
    <2>2. \/ session.step = "cancel window" /\ session'.phase = "cancellation"
          \/ session.step = "decision window" /\ session'.phase = "decision"
      BY <1>7 DEF CancelWindow, DecisionWindow, Proceed, At, RecordsTyped
    <2>3. \/ session.phase = "reference" /\ session'.phase = "cancellation"
          \/ session.phase = "cancellation" /\ session'.phase = "decision"
      BY <1>0, <2>2, Steps
    <2>4. IntentsInOrder'
      BY <2>1, <2>2, <2>3, ReadsChangeNothing, Steps DEF Established, IntentsInOrder, At
    <2>5. SourceProved /\ SourceQualifies /\ Approved
      BY <2>2, <2>3 DEF Established, BaselineEstablished, At
    <2>6. SourceProved' /\ SourceQualifies' /\ Approved' /\ session'.source \in Runs
      BY <2>1, <2>5, ReadsChangeNothing
         DEF SourceProved, SourceQualifies, CleanupProof, Approved, Matches
    <2>7. session.step = "decision window" => Recovered'
      <3>1. session.step = "decision window" => Recovered
        BY DEF Established, RecoveryEstablished
      <3> QED
        BY <2>1, <3>1, ReadsChangeNothing
           DEF Recovered, Aborted, CleanupProof, SameReservation, Held, Replaced, Restarted
    <2>8. BaselineEstablished' /\ RecoveryEstablished' /\ DecisionEstablished'
      BY <2>1, <2>2, <2>3, <2>6, <2>7
         DEF BaselineEstablished, RecoveryEstablished, DecisionEstablished, At
    <2> QED
      BY <2>1, <2>4, <2>8, ReadsChangeNothing DEF Established
  <1>8. CASE (AwaitFence /\ ~Go("observe")) \/ ReadController
    <2>1. /\ Reads /\ session'.phase = session.phase
          /\ session'.source = session.source /\ session'.record = session.record
          /\ session'.consent = session.consent
      BY <1>8 DEF AwaitFence, ReadController, RecordsTyped
    <2>2. /\ session'.step \in {"checkpoint", "reread"} /\ FenceSeen
          /\ session'.pod \in {session.pod, controller.uid}
          /\ session.step \in {"fence", "controller"}
      <3>1. CASE AwaitFence /\ ~Go("observe")
        <4>1. /\ session.step = "fence" /\ Held.state = "fenced"
              /\ session' = [session EXCEPT !.held = Held, !.step = "checkpoint"]
          BY <3>1, Zenon DEF AwaitFence, At
        <4>2. session'.step = "checkpoint" /\ session'.pod = session.pod
          BY <4>1 DEF RecordsTyped
        <4> QED
          BY <4>1, <4>2 DEF FenceSeen
      <3>2. CASE ReadController
        BY <3>2 DEF ReadController, At, RecordsTyped, Established, RecoveryEstablished
      <3> QED
        BY <1>8, <3>1, <3>2
    <2>3. session.phase = "cancellation"
      BY <1>0, <2>2, Steps
    <2>4. IntentsInOrder'
      <3>1. session'.step \in StepsOf["cancellation"] /\ session'.step \notin {"intent", "submit"}
        BY <2>2, StepsInPhase
      <3>2. session'.phase = "cancellation" /\ journal' = journal
        BY <2>1, <2>3, ReadsChangeNothing
      <3>3. "cancellation" \in journal /\ "decision" \notin journal
        BY <2>2, <2>3 DEF Established, IntentsInOrder
      <3> QED
        BY <3>1, <3>2, <3>3 DEF IntentsInOrder, At
    <2>5. SourceProved /\ SourceQualifies /\ Approved
      BY <2>3 DEF Established, BaselineEstablished
    <2>6. SourceProved' /\ SourceQualifies' /\ Approved' /\ session'.source \in Runs
      BY <2>1, <2>5, ReadsChangeNothing
         DEF SourceProved, SourceQualifies, CleanupProof, Approved, Matches
    <2>7. FenceSeen' /\ session'.pod <= controller'.uid
      <3>1. controller' = controller /\ hold' = hold
        BY <2>1, ReadsChangeNothing
      <3>2. session.pod <= controller.uid /\ controller.uid <= controller.uid
        BY <1>0 DEF Established
      <3>3. session'.pod <= controller.uid
        BY <2>2, <3>2
      <3> QED
        BY <2>2, <3>1, <3>3 DEF FenceSeen, Held
    <2>8. BaselineEstablished' /\ RecoveryEstablished' /\ DecisionEstablished'
      BY <2>1, <2>2, <2>3, <2>6, <2>7
         DEF BaselineEstablished, RecoveryEstablished, DecisionEstablished, At
    <2> QED
      BY <2>4, <2>7, <2>8 DEF Established
  <1>9. CASE \/ Preflight \/ FirstWindow \/ PlanSession \/ CreateClient \/ InspectionWindow
              \/ AwaitCompleted \/ VerifyArtifacts \/ VerifyCleanup \/ IntendApproval
              \/ MatchExisting \/ BaselineApproved
    <2>1. ~Intend /\ \E next : Go(next)
      BY <1>9 DEF Preflight, FirstWindow, PlanSession, CreateClient, InspectionWindow, AwaitCompleted,
                   VerifyArtifacts, VerifyCleanup, IntendApproval, MatchExisting,
                   BaselineApproved, Intend, At
    <2> QED
      BY <1>1, <1>9, <2>1, SessionAdvances
  <1>10. CASE \/ SeeExecutor \/ RequestCancel \/ ObserveCancelling
              \/ (AwaitFence /\ Go("observe")) \/ CheckpointHold \/ RestartWindow
              \/ RereadHold \/ DeletePod \/ ReadReplacement \/ RecoveredHold
              \/ AwaitAborted \/ RecoveredCleanup \/ BaselinePersisted
    <2>1. ~Intend /\ \E next : Go(next)
      BY <1>10 DEF SeeExecutor, RequestCancel, ObserveCancelling, AwaitFence, CheckpointHold,
                   RestartWindow, RereadHold, DeletePod, ReadReplacement, RecoveredHold, AwaitAborted,
                   RecoveredCleanup, BaselinePersisted, Intend, At
    <2> QED
      BY <1>1, <1>10, <2>1, SessionRecovers
  <1>11. CASE \/ Decide \/ SourceAgain \/ CancelledAgain \/ LastWindow \/ RecordPassed
              \/ Finish
    <2>1. ~Intend /\ \E next : Go(next)
      BY <1>11 DEF Decide, SourceAgain, CancelledAgain, LastWindow, RecordPassed, Finish,
                   Intend, At
    <2> QED
      BY <1>1, <1>11, <2>1, SessionDecides
  <1> QED
    BY <1>2, <1>3, <1>4, <1>5, <1>6, <1>7, <1>8, <1>9, <1>10, <1>11
       DEF SessionNext

-----------------------------------------------------------------------------
(* The invariant of the acceptance. *)

\* What the types of the records leave of the types.
Ranges ==
    /\ client \in {"none", "own", "replaced"}
    /\ journal \subseteq Submitted \cup
           {"session-planned", "approval", "cleanup-held-before-restart", "controller-replaced",
                "acceptance-passed", "incomplete"}
    /\ faults \in 0..MaxFaults

\* The types follow from those of the records.
LEMMA TypesFollow ==
    QualificationInv /\ RecordsTyped /\ Ranges => AcceptanceTypeOK
  <1> SUFFICES ASSUME QualificationInv, RecordsTyped, Ranges PROVE AcceptanceTypeOK
    OBVIOUS
  <1>1. QualificationTypeOK
    <2>1. \A n \in Nodes : node[n] \in NodeRecords
      BY DEF QualificationInv, QualificationTyped
    <2>2. \A n \in Nodes : {node[n].health, node[n].fit, node[n].load} \subseteq Results
      BY <2>1 DEF NodeRecords
    <2>3. capture.status \in {"none", "ACCEPTED", "REJECTED", "UNKNOWN"}
      BY DEF QualificationInv, QualificationTyped
    <2> QED
      BY <2>2, <2>3 DEF QualificationInv, QualificationTyped, QualificationTypeOK
  <1>2. \A r \in Runs :
          /\ run[r].state \in {"none", "CREATED", "RUNNING", "FINISHING", "CANCELLING"} \cup Terminal
          /\ run[r].report \in Runs \cup {"none", "unusable"}
          /\ hold[r].state \in {"none", "released"} \cup Unreleased /\ hold[r].id \in Nat
    BY RunFields DEF RunRecords, RunStates
  <1>3. /\ controller.uid \in Nat
        /\ {baseline.state, session.record.state} \subseteq DOMAIN Follows
        /\ session.phase \in Submitted /\ session.source \in Runs \cup {"none"}
    BY DEF RecordsTyped, BaselineRecords
  <1> QED
    BY <1>1, <1>2, <1>3 DEF AcceptanceTypeOK, Ranges

\* The session keeps what it is bound to and remembers baselines and holds it has seen.
SessionTyped ==
    /\ DOMAIN session = {"step", "phase", "consent", "reference", "source", "record", "held", "pod"}
    /\ session.phase \in Submitted /\ session.consent \in BOOLEAN
    /\ session.reference \in {"none", "earlier"}
    /\ session.source \in Runs \cup {"none"}
    /\ session.held \in HoldRecords /\ session.pod \in Nat

\* A session remembers the baseline as it was, or as it has just written it.
LEMMA SessionRemembers ==
    ASSUME RecordsTyped, RevisionsIdentify, Established, SessionNext
    PROVE  /\ SessionTyped' /\ session'.consent = session.consent
           /\ session'.record \in {session.record, baseline'}
  <1>0. SessionTyped
    BY DEF SessionTyped, RecordsTyped
  <1>1. ASSUME NEW next, Go(next)
        PROVE  SessionTyped' /\ session'.consent = session.consent
               /\ session'.record = session.record
    BY <1>0, <1>1 DEF Go, SessionTyped
  <1>2. ASSUME NEW next, NEW phase \in Submitted, Proceed(next, phase)
        PROVE  SessionTyped' /\ session'.consent = session.consent
               /\ session'.record = session.record
    BY <1>0, <1>2 DEF Proceed, SessionTyped
  <1>3. CASE InspectBaseline
    <2>1. /\ Reads
          /\ session' = [session EXCEPT !.record = baseline,
                            !.source = IF SelectSource = "none" THEN "reference" ELSE SelectSource,
                            !.step = IF SelectSource = "none" THEN "intent" ELSE "await"]
      BY <1>3, Zenon DEF InspectBaseline
    <2>2. (IF SelectSource = "none" THEN "reference" ELSE SelectSource) \in Runs
      BY RunNames DEF SelectSource, RevisionsIdentify, RecordsTyped
    <2>3. SessionTyped' /\ session'.consent = session.consent /\ session'.record = baseline
      BY <1>0, <2>1, <2>2 DEF SessionTyped
    <2> QED
      BY <2>1, <2>3, ReadsChangeNothing
  <1>4. CASE CreateBaseline \/ QualifyBaseline \/ ApproveBaseline
    <2>1. session' \in {[session EXCEPT !.record = baseline', !.step = "advance"],
                        [session EXCEPT !.record = baseline']}
      BY <1>4, Zenon DEF CreateBaseline, QualifyBaseline, ApproveBaseline, Transition
    <2> QED
      BY <1>0, <2>1 DEF SessionTyped
  <1>5. CASE AwaitFence \/ ReadController
    <2>1. \/ Go("observe") \/ session' = [session EXCEPT !.held = Held, !.step = "checkpoint"]
          \/ session' = [session EXCEPT !.pod = controller.uid, !.step = "reread"]
      BY <1>5, Zenon DEF AwaitFence, ReadController
    <2>2. Held \in HoldRecords /\ controller.uid \in Nat
      BY RunNames DEF Held, RecordsTyped
    <2> QED
      BY <1>0, <1>1, <2>1, <2>2 DEF SessionTyped
  <1>6. CASE CancelWindow \/ DecisionWindow
    BY <1>2, <1>6 DEF CancelWindow, DecisionWindow, Submitted
  <1>7. CASE \/ Preflight \/ FirstWindow \/ PlanSession \/ CreateClient
             \/ InspectionWindow \/ Intend \/ Submit \/ AwaitCompleted \/ VerifyArtifacts
             \/ VerifyCleanup \/ IntendApproval \/ MatchExisting \/ BaselineApproved
             \/ SeeExecutor \/ RequestCancel \/ ObserveCancelling
    BY <1>1, <1>7, Zenon
       DEF Preflight, FirstWindow, PlanSession, CreateClient, InspectionWindow, Intend,
           Submit, AwaitCompleted, VerifyArtifacts, VerifyCleanup, IntendApproval,
           MatchExisting, BaselineApproved, SeeExecutor, RequestCancel, ObserveCancelling
  <1>8. CASE \/ CheckpointHold \/ RestartWindow \/ RereadHold \/ DeletePod
             \/ ReadReplacement \/ RecoveredHold \/ AwaitAborted \/ RecoveredCleanup
             \/ BaselinePersisted \/ Decide \/ SourceAgain \/ CancelledAgain
             \/ LastWindow \/ RecordPassed \/ Finish \/ Fail
    BY <1>1, <1>8, Zenon
       DEF CheckpointHold, RestartWindow, RereadHold, DeletePod, ReadReplacement,
           RecoveredHold, AwaitAborted, RecoveredCleanup, BaselinePersisted, Decide,
           SourceAgain, CancelledAgain, LastWindow, RecordPassed, Finish, Fail
  <1> QED
    BY <1>3, <1>4, <1>5, <1>6, <1>7, <1>8 DEF SessionNext

\* The record a session keeps is the baseline of its revision, whoever writes it.
LEMMA RevisionsStay ==
    ASSUME RecordsTyped, RevisionsIdentify, BaselineMoves,
           session'.record \in {session.record, baseline'}
    PROVE  RevisionsIdentify'
  <1>1. baseline.revision \in Nat /\ baseline'.revision \in Nat /\ session.record.revision \in Nat
    BY DEF RecordsTyped, BaselineMoves, BaselineRecords
  <1>2. CASE baseline' = baseline
    BY <1>1, <1>2 DEF RevisionsIdentify
  <1>3. CASE baseline' # baseline
    <2>1. /\ baseline.revision < baseline'.revision
          /\ baseline'.state # "none" /\ baseline'.source \in Runs
      BY <1>3 DEF BaselineMoves
    <2>2. session.record.revision <= baseline.revision
      BY DEF RevisionsIdentify
    <2>3. session.record.revision < baseline'.revision
      BY <1>1, <2>1, <2>2
    <2>4. CASE session'.record = baseline'
      BY <1>1, <2>1, <2>4 DEF RevisionsIdentify
    <2>5. CASE session'.record = session.record
      <3>1. /\ session'.record.revision <= baseline'.revision
            /\ session'.record.revision # baseline'.revision
        BY <1>1, <2>3, <2>5
      <3> QED
        BY <2>1, <3>1, Zenon DEF RevisionsIdentify
    <2> QED
      BY <2>4, <2>5
  <1> QED
    BY <1>2, <1>3

\* Records keep their types.
LEMMA RecordsStayTyped ==
    ASSUME RecordsTyped, HoldsFollowRuns, UNCHANGED benchmarkVars \/ \E r \in Runs : Moves(r),
           controller' \in [uid : Nat, ready : BOOLEAN], BaselineMoves,
           SessionTyped', session'.record \in {session.record, baseline'}
    PROVE  RecordsTyped'
  <1>1. run' \in [Runs -> RunRecords] /\ hold' \in [Runs -> HoldRecords]
    BY MovesKeep
  <1>2. baseline' \in BaselineRecords /\ session'.record \in BaselineRecords
    BY DEF BaselineMoves, RecordsTyped
  <1> QED
    BY <1>1, <1>2 DEF RecordsTyped, SessionTyped, RunRecords

\* Evidence stays, and only the session speaks for it.
LEMMA EvidenceStays ==
    ASSUME RevisionsIdentify, ApprovedOnEvidence, RunsGoOn, session'.consent = session.consent,
           baseline' = baseline \/ baseline'.by = "other"
    PROVE  ApprovedOnEvidence'
  <1> SUFFICES ASSUME baseline'.state = "APPROVED", baseline'.by = "session"
               PROVE  /\ baseline'.measured /\ baseline'.artifact = baseline'.source
                      /\ run'[baseline'.source].state = "COMPLETED"
                      /\ CleanupProof(baseline.source)' /\ session'.consent
    BY Zenon DEF ApprovedOnEvidence
  <1>1. baseline' = baseline
    OBVIOUS
  <1>2. baseline.source \in Runs
    BY <1>1 DEF RevisionsIdentify, NoBaseline
  <1>3. /\ baseline.measured /\ baseline.artifact = baseline.source
        /\ run[baseline.source].state = "COMPLETED"
        /\ CleanupProof(baseline.source) /\ session.consent
    BY <1>1 DEF ApprovedOnEvidence
  <1>4. run'[baseline.source] = run[baseline.source] /\ hold'[baseline.source] = hold[baseline.source]
    BY <1>2, <1>3 DEF RunsGoOn
  <1> QED
    BY <1>1, <1>3, <1>4 DEF CleanupProof

\* A session approves what it has proved.
LEMMA ApprovalsAreProved ==
    ASSUME RecordsTyped, RevisionsIdentify, Established,
           CreateBaseline \/ QualifyBaseline \/ ApproveBaseline
    PROVE  ApprovedOnEvidence' /\ "approval" \in journal
  <1>1. /\ baseline'.source = session.source /\ baseline'.artifact = session.source
        /\ session.consent /\ session'.consent = session.consent
        /\ baseline'.state = "APPROVED" => baseline'.measured
    BY SessionWritesBaseline
  <1>2. run' = run /\ hold' = hold /\ session.step \in {"create", "advance"}
    BY DEF CreateBaseline, QualifyBaseline, ApproveBaseline, Transition, At, benchmarkVars
  <1>3. SourceProved /\ "approval" \in journal
    BY <1>2 DEF Established, BaselineEstablished
  <1> QED
    BY <1>1, <1>2, <1>3 DEF ApprovedOnEvidence, SourceProved, CleanupProof

\* What is created, submitted, approved or deleted has been recorded.
LEMMA JournalStaysAhead ==
    ASSUME JournalCoversWrites, RunsGoOn, journal \subseteq journal',
           client' = client \/ client # "none" \/ "session-planned" \in journal,
           At("submit") => session.phase \in journal,
           baseline' = baseline \/ baseline'.by = "other" \/ "approval" \in journal,
           restartedAt' = restartedAt \/ "cleanup-held-before-restart" \in journal
    PROVE  JournalCoversWrites'
  <1>1. ASSUME NEW r \in Submitted, run'[r] # NoRun PROVE r \in journal'
    <2>1. CASE run[r] = NoRun
      BY <1>1, <2>1, RunNames DEF RunsGoOn
    <2>2. CASE run[r] # NoRun
      BY <2>2 DEF JournalCoversWrites
    <2> QED
      BY <2>1, <2>2
  <1>2. baseline'.by = "session" => "approval" \in journal'
    BY DEF JournalCoversWrites
  <1>3. restartedAt' # "none" => "cleanup-held-before-restart" \in journal'
    BY DEF JournalCoversWrites
  <1>4. client' # "none" => "session-planned" \in journal'
    BY DEF JournalCoversWrites
  <1> QED
    BY <1>1, <1>2, <1>3, <1>4 DEF JournalCoversWrites

\* What is recorded and remembered of the hold before the restart stays so.
LEMMA CheckpointsStay ==
    ASSUME CheckpointsInOrder, journal \subseteq journal',
           session'.held = session.held, session'.phase = session.phase,
           \/ session'.step = session.step
           \/ session'.step \notin {"client"} \cup Holding
           \/ Advances \/ Recovers \/ Decides
    PROVE  CheckpointsInOrder'
  BY DEF CheckpointsInOrder, Restarting, Holding, Advances, Recovers, Decides, At

\* A session records its plan before the client, and the hold before the restart.
LEMMA SessionCheckpoints ==
    ASSUME RecordsTyped, HoldsFollowRuns, RevisionsIdentify, Established, CheckpointsInOrder,
           SessionNext
    PROVE  CheckpointsInOrder'
  <1>1. journal \subseteq journal'
    BY SessionGoesOn
  <1>2. ASSUME NEW next, Go(next)
        PROVE  session'.step = next /\ session'.held = session.held /\ session'.phase = session.phase
    BY <1>2 DEF Go, RecordsTyped
  <1>3. CASE Fail \/ Intend \/ Submit
    <2>1. PICK next \in {"failed", "submit", "executor", "await"} : Go(next)
      BY <1>3 DEF Fail, Intend, Submit, AfterSubmit
    <2> QED
      BY <1>1, <1>2, <2>1, CheckpointsStay DEF Holding, Restarting
  <1>4. CASE InspectBaseline
    <2>1. session' = [session EXCEPT !.record = baseline,
                         !.source = IF SelectSource = "none" THEN "reference" ELSE SelectSource,
                         !.step = IF SelectSource = "none" THEN "intent" ELSE "await"]
      BY <1>4, Zenon DEF InspectBaseline
    <2>2. /\ session'.step \in {"intent", "await"}
          /\ session'.held = session.held /\ session'.phase = session.phase
      BY <2>1 DEF RecordsTyped
    <2> QED
      BY <1>1, <2>2, CheckpointsStay DEF Holding, Restarting
  <1>5. CASE CreateBaseline \/ QualifyBaseline \/ ApproveBaseline
    <2>1. /\ session'.step = "advance"
          /\ session'.held = session.held /\ session'.phase = session.phase
      BY <1>5, SessionWritesBaseline
    <2> QED
      BY <1>1, <2>1, CheckpointsStay DEF Holding, Restarting
  <1>6. CASE CancelWindow \/ DecisionWindow
    <2>1. /\ session'.step = "intent" /\ session'.held = session.held
          /\ \/ session'.phase = "cancellation"
             \/ session.step = "decision window"
      BY <1>6 DEF CancelWindow, DecisionWindow, Proceed, At, RecordsTyped
    <2> QED
      BY <2>1 DEF CheckpointsInOrder, Holding, Restarting, At
  <1>7. CASE AwaitFence /\ ~Go("observe")
    <2>1. /\ session.step = "fence" /\ Held.state = "fenced"
          /\ session' = [session EXCEPT !.held = Held, !.step = "checkpoint"]
      BY <1>7, Zenon DEF AwaitFence, At
    <2>2. session'.step = "checkpoint" /\ session'.held.state = "fenced"
      BY <2>1 DEF RecordsTyped
    <2> QED
      BY <2>2 DEF CheckpointsInOrder, Restarting, At
  <1>8. CASE ReadController
    <2>1. /\ session.step = "controller" /\ session'.step = "reread"
          /\ session'.held = session.held /\ session'.phase = session.phase
      BY <1>8 DEF ReadController, At, RecordsTyped
    <2> QED
      BY <1>1, <2>1 DEF CheckpointsInOrder, Holding, Restarting, At
  <1>9. ASSUME NEW next, Go(next), Advances \/ Recovers \/ Decides PROVE CheckpointsInOrder'
    BY <1>1, <1>2, <1>9, CheckpointsStay
  <1>10. CASE \/ Preflight \/ FirstWindow \/ PlanSession \/ CreateClient \/ InspectionWindow
              \/ AwaitCompleted \/ VerifyArtifacts \/ VerifyCleanup \/ IntendApproval
              \/ MatchExisting \/ BaselineApproved
    <2>1. \E next : Go(next)
      BY <1>10 DEF Preflight, FirstWindow, PlanSession, CreateClient, InspectionWindow,
                   AwaitCompleted, VerifyArtifacts, VerifyCleanup, IntendApproval,
                   MatchExisting, BaselineApproved
    <2> QED
      BY <1>9, <1>10, <2>1, SessionAdvances
  <1>11. CASE \/ SeeExecutor \/ RequestCancel \/ ObserveCancelling
              \/ (AwaitFence /\ Go("observe")) \/ CheckpointHold \/ RestartWindow
              \/ RereadHold \/ DeletePod \/ ReadReplacement \/ RecoveredHold
              \/ AwaitAborted \/ RecoveredCleanup \/ BaselinePersisted
    <2>1. \E next : Go(next)
      BY <1>11 DEF SeeExecutor, RequestCancel, ObserveCancelling, CheckpointHold,
                   RestartWindow, RereadHold, DeletePod, ReadReplacement, RecoveredHold,
                   AwaitAborted, RecoveredCleanup, BaselinePersisted
    <2> QED
      BY <1>9, <1>11, <2>1, SessionRecovers
  <1>12. CASE \/ Decide \/ SourceAgain \/ CancelledAgain \/ LastWindow \/ RecordPassed
              \/ Finish
    <2>1. \E next : Go(next)
      BY <1>12 DEF Decide, SourceAgain, CancelledAgain, LastWindow, RecordPassed, Finish
    <2> QED
      BY <1>9, <1>12, <2>1, SessionDecides
  <1> QED
    BY <1>3, <1>4, <1>5, <1>6, <1>7, <1>8, <1>10, <1>11, <1>12 DEF SessionNext

\* The acceptance begins in its invariant.
LEMMA InitAcceptance == Init => AcceptanceInv
  <1> SUFFICES ASSUME Init PROVE AcceptanceInv
    OBVIOUS
  <1>1. QualificationInv
    BY InitQualification DEF Init
  <1>2. PICK earlier \in {NoRun, [state |-> "COMPLETED", report |-> "none"]} :
          /\ run = [r \in Runs |-> IF r = "earlier" THEN earlier ELSE NoRun]
          /\ hold = [r \in Runs |-> IF r = "earlier" /\ earlier # NoRun THEN Cleaned ELSE NoHold]
          /\ \/ baseline = NoBaseline
             \/ /\ earlier # NoRun
                /\ \E state \in {"CANDIDATE", "QUALIFIED", "APPROVED"},
                      artifact \in {"earlier", "other"}, measured \in BOOLEAN :
                       baseline = [state |-> state, source |-> "earlier", artifact |-> artifact,
                                   revision |-> 1, measured |-> measured, by |-> "other"]
    BY Zenon DEF Init, AcceptanceInit
  <1>3. /\ controller = [uid |-> 1, ready |-> TRUE] /\ client = "none"
        /\ journal = {} /\ restartedAt = "none" /\ faults = 0
    BY DEF Init, AcceptanceInit
  <1>4. PICK consent \in BOOLEAN, reference \in {"none", "earlier"} :
          session = [step |-> "preflight", phase |-> "reference", consent |-> consent,
                     reference |-> reference, source |-> "none", record |-> NoBaseline,
                     held |-> NoHold, pod |-> 0]
    BY Zenon DEF Init, AcceptanceInit
  <1>5. /\ NoRun \in RunRecords /\ NoRun.state = "none" /\ NoRun.report = "none"
        /\ earlier \in RunRecords /\ earlier.report = "none"
        /\ earlier # NoRun => earlier.state = "COMPLETED"
        /\ NoHold \in HoldRecords /\ Cleaned \in HoldRecords
    BY DEF NoRun, NoHold, Cleaned, RunRecords, HoldRecords, RunStates, Terminal, Unreleased
  <1>6. /\ baseline \in BaselineRecords /\ NoBaseline \in BaselineRecords
        /\ NoBaseline.state = "none" /\ NoBaseline.revision = 0 /\ NoBaseline.by = "none"
        /\ baseline # NoBaseline => /\ baseline.revision = 1 /\ baseline.source \in Runs
                                    /\ baseline.by = "other" /\ baseline.state # "none"
    <2>1. NoBaseline \in BaselineRecords
      BY DEF NoBaseline, BaselineRecords, Follows
    <2>2. CASE baseline = NoBaseline
      BY <2>1, <2>2 DEF NoBaseline
    <2>3. CASE baseline # NoBaseline
      <3>1. PICK state \in {"CANDIDATE", "QUALIFIED", "APPROVED"},
                 artifact \in {"earlier", "other"}, measured \in BOOLEAN :
                    baseline = [state |-> state, source |-> "earlier", artifact |-> artifact,
                                revision |-> 1, measured |-> measured, by |-> "other"]
        BY <1>2, <2>3, Zenon
      <3>2. state \in DOMAIN Follows /\ {"earlier", artifact} \subseteq Runs
        BY RunNames DEF Follows
      <3>3. baseline \in BaselineRecords
        BY <3>1, <3>2 DEF BaselineRecords
      <3> QED
        BY <2>1, <3>1, <3>3, RunNames DEF NoBaseline
    <2> QED
      BY <2>2, <2>3
  <1>7. RecordsTyped
    <2>1. run \in [Runs -> RunRecords] /\ hold \in [Runs -> HoldRecords]
      BY <1>2, <1>5
    <2> QED
      BY <1>3, <1>4, <1>5, <1>6, <2>1, RunNames DEF RecordsTyped, RunRecords, Submitted
  <1>8. HoldsFollowRuns
    BY <1>2, <1>5 DEF HoldsFollowRuns
  <1>9. RevisionsIdentify
    BY <1>4, <1>6 DEF RevisionsIdentify
  <1>10. Established
    <2>1. /\ session.step = "preflight" /\ session.phase = "reference"
          /\ session.pod <= controller.uid /\ journal = {}
      BY <1>3, <1>4
    <2>2. /\ session.step \in StepsOf["reference"] /\ session.step \in Opening
      BY <2>1, Steps
    <2>3. IntentsInOrder
      BY <2>1, <2>2 DEF IntentsInOrder, At
    <2>4. BaselineEstablished /\ RecoveryEstablished /\ DecisionEstablished
      BY <2>1, <2>2 DEF BaselineEstablished, RecoveryEstablished, DecisionEstablished, At
    <2> QED
      BY <2>1, <2>3, <2>4 DEF Established
  <1>11. ApprovedOnEvidence /\ JournalCoversWrites /\ CheckpointsInOrder
    <2>1. \A r \in Submitted : run[r] = NoRun
      BY <1>2, RunNames DEF Submitted
    <2>2. session.step = "preflight" /\ session.phase = "reference"
      BY <1>4
    <2> QED
      BY <1>3, <1>6, <2>1, <2>2
         DEF ApprovedOnEvidence, JournalCoversWrites, CheckpointsInOrder, Restarting, Holding, At
  <1>12. AcceptanceTypeOK
    BY <1>1, <1>3, <1>7, TypesFollow, FaultsAssumption DEF Ranges
  <1> QED
    BY <1>1, <1>7, <1>8, <1>9, <1>10, <1>11, <1>12 DEF AcceptanceInv

\* So do the client, the journal and the count of misdeeds.
LEMMA RangesStay ==
    ASSUME AcceptanceInv, client' \in {client, "own", "replaced"},
           journal' \subseteq journal \cup Submitted \cup
               {"session-planned", "approval", "cleanup-held-before-restart", "controller-replaced",
                "acceptance-passed", "incomplete"},
           faults' = faults \/ Fault
    PROVE  Ranges'
  <1>1. Ranges /\ changes \in 0..MaxChanges
    BY DEF AcceptanceInv, AcceptanceTypeOK, Ranges, QualificationTypeOK
  <1>2. faults' \in 0..MaxFaults
    BY <1>1, ChangesAssumption, FaultsAssumption DEF Ranges, Fault
  <1> QED
    BY <1>1, <1>2 DEF Ranges

\* The world keeps the invariant, ...
LEMMA WorldKeeps ==
    ASSUME AcceptanceInv, WorldNext PROVE AcceptanceInv'
  <1>0. /\ QualificationInv /\ RecordsTyped /\ HoldsFollowRuns /\ RevisionsIdentify
        /\ Established /\ ApprovedOnEvidence /\ JournalCoversWrites /\ CheckpointsInOrder
    BY DEF AcceptanceInv
  <1>1. /\ UNCHANGED <<qualificationVars, session, journal, restartedAt>>
        /\ UNCHANGED benchmarkVars \/ \E r \in Runs : Moves(r)
        /\ controller' \in [uid : Nat, ready : BOOLEAN] /\ controller.uid <= controller'.uid
        /\ client' = client \/ (client = "own" /\ client' = "replaced")
        /\ BaselineMoves /\ (baseline' # baseline => baseline'.by = "other")
        /\ faults' = faults \/ Fault
        /\ \A r \in Submitted : run[r] = NoRun => run'[r] = NoRun
    BY <1>0, WorldGoesOn
  <1>2. HoldsFollowRuns' /\ RunsGoOn
    BY <1>0, <1>1, MovesKeep
  <1>3. QualificationInv'
    BY <1>0, <1>1, QualificationKept
  <1>4. SessionTyped'
    BY <1>0, <1>1 DEF RecordsTyped, SessionTyped
  <1>5. RecordsTyped'
    BY <1>0, <1>1, <1>4, RecordsStayTyped
  <1>6. RevisionsIdentify'
    BY <1>0, <1>1, RevisionsStay
  <1>7. Established'
    <2>1. SessionKept /\ controller'.uid \in Nat
      BY <1>1 DEF SessionKept
    <2>2. Kept
      BY <1>0, <1>1, <1>2, <2>1, EstablishedIsKept
    <2>3. At("submit")' => run'[session.phase] = run[session.phase]
      BY <1>0, <1>1 DEF At, Established, IntentsInOrder, RecordsTyped
    <2>4. session'.pod <= controller'.uid
      <3>1. /\ session.pod \in Nat /\ controller.uid \in Nat /\ session'.pod = session.pod
            /\ session.pod <= controller.uid
        BY <1>0, <1>1 DEF RecordsTyped, Established
      <3> QED
        BY <1>1, <2>1, <3>1
    <2> QED
      BY <1>0, <1>1, <2>1, <2>2, <2>3, <2>4, StayingKeeps
  <1>8. ApprovedOnEvidence'
    BY <1>0, <1>1, <1>2, EvidenceStays
  <1>9. JournalCoversWrites'
    BY <1>0, <1>1, <1>2, JournalStaysAhead DEF Established, IntentsInOrder
  <1>10. Ranges'
    BY <1>1, RangesStay
  <1>11. AcceptanceTypeOK'
    BY <1>3, <1>5, <1>10, TypesFollow, PTL
  <1>12. CheckpointsInOrder'
    BY <1>0, <1>1, CheckpointsStay
  <1> QED
    BY <1>2, <1>3, <1>5, <1>6, <1>7, <1>8, <1>9, <1>11, <1>12 DEF AcceptanceInv

\* ... and so does the session.
LEMMA SessionKeeps ==
    ASSUME AcceptanceInv, SessionNext PROVE AcceptanceInv'
  <1>0. /\ QualificationInv /\ RecordsTyped /\ HoldsFollowRuns /\ RevisionsIdentify
        /\ Established /\ ApprovedOnEvidence /\ JournalCoversWrites /\ CheckpointsInOrder
    BY DEF AcceptanceInv
  <1>1. /\ UNCHANGED qualificationVars /\ faults' = faults
        /\ UNCHANGED benchmarkVars \/ \E r \in Runs : Moves(r)
        /\ controller' \in [uid : Nat, ready : BOOLEAN]
        /\ BaselineMoves /\ client' \in {client, "own"}
        /\ journal \subseteq journal'
    BY <1>0, SessionGoesOn
  <1>2. HoldsFollowRuns' /\ RunsGoOn
    BY <1>0, <1>1, MovesKeep
  <1>3. QualificationInv'
    BY <1>0, <1>1, QualificationKept
  <1>4. /\ SessionTyped' /\ session'.consent = session.consent
        /\ session'.record \in {session.record, baseline'}
    BY <1>0, SessionRemembers
  <1>5. RecordsTyped'
    BY <1>0, <1>1, <1>4, RecordsStayTyped
  <1>6. RevisionsIdentify'
    BY <1>0, <1>1, <1>4, RevisionsStay
  <1>7. Established'
    BY <1>0, SessionEstablishes
  <1>8. /\ \/ baseline' = baseline
           \/ CreateBaseline \/ QualifyBaseline \/ ApproveBaseline
        /\ restartedAt' = restartedAt \/ DeletePod
        /\ client' = client \/ CreateClient
    <2>1. CASE Reads
      BY <2>1, ReadsChangeNothing
    <2>2. CASE CreateBaseline \/ QualifyBaseline \/ ApproveBaseline
      BY <2>2 DEF CreateBaseline, QualifyBaseline, ApproveBaseline, Transition
    <2>3. CASE \/ PlanSession \/ CreateClient \/ Fail \/ Intend \/ IntendApproval
               \/ CheckpointHold \/ RecoveredHold \/ RecordPassed \/ Submit
               \/ RequestCancel \/ DeletePod
      BY <2>3, Zenon
         DEF PlanSession, CreateClient, Fail, Intend, IntentRecorded, IntendApproval,
             CheckpointHold, CheckpointRecorded, RecoveredHold, RecordPassed, Records, Submit,
             RequestCancel, DeletePod
    <2> QED
      BY <2>1, <2>2, <2>3, ReadingSteps DEF SessionNext
  <1>9. ApprovedOnEvidence'
    BY <1>0, <1>2, <1>4, <1>8, EvidenceStays, ApprovalsAreProved
  <1>10. JournalCoversWrites'
    <2>1. At("submit") => session.phase \in journal
      BY <1>0 DEF Established, IntentsInOrder
    <2>2. /\ DeletePod => "cleanup-held-before-restart" \in journal
          /\ CreateClient => "session-planned" \in journal
      BY <1>0 DEF DeletePod, CreateClient, CheckpointsInOrder, Restarting, At
    <2>3. baseline' = baseline \/ "approval" \in journal
      BY <1>0, <1>8, ApprovalsAreProved
    <2> QED
      BY <1>0, <1>1, <1>2, <1>8, <2>1, <2>2, <2>3, JournalStaysAhead
  <1>11. Ranges'
    <2>1. journal' \subseteq journal \cup Submitted \cup
               {"session-planned", "approval", "cleanup-held-before-restart", "controller-replaced",
                "acceptance-passed", "incomplete"}
      <3>1. CASE Intend
        BY <1>0, <3>1 DEF Intend, IntentRecorded, Records, RecordsTyped
      <3>2. CASE ~Intend
        BY <1>0, <3>2, SessionGoesOn
      <3> QED
        BY <3>1, <3>2
    <2> QED
      BY <1>1, <2>1, RangesStay
  <1>12. AcceptanceTypeOK'
    BY <1>3, <1>5, <1>11, TypesFollow, PTL
  <1>13. CheckpointsInOrder'
    BY <1>0, SessionCheckpoints
  <1> QED
    BY <1>2, <1>3, <1>5, <1>6, <1>7, <1>9, <1>10, <1>12, <1>13 DEF AcceptanceInv

\* Every step keeps the invariant.
LEMMA NextAcceptance == AcceptanceInv /\ [Next]_vars => AcceptanceInv'
  <1> SUFFICES ASSUME AcceptanceInv, [Next]_vars PROVE AcceptanceInv'
    OBVIOUS
  <1>1. ASSUME UNCHANGED acceptanceVars, QualificationInv' PROVE AcceptanceInv'
    <2>1. /\ run' = run /\ hold' = hold /\ controller' = controller /\ client' = client
          /\ baseline' = baseline /\ session' = session /\ journal' = journal
          /\ restartedAt' = restartedAt /\ faults' = faults
      BY <1>1 DEF acceptanceVars
    <2>2. RecordsTyped' /\ HoldsFollowRuns' /\ RevisionsIdentify'
      BY <2>1, Zenon DEF AcceptanceInv, RecordsTyped, HoldsFollowRuns, RevisionsIdentify
    <2>3. IntentsInOrder'
      BY <2>1, Zenon DEF AcceptanceInv, Established, IntentsInOrder, At
    <2>4. BaselineEstablished'
      BY <2>1, Zenon
         DEF AcceptanceInv, Established, BaselineEstablished, At, SubjectCompleted, Subject,
             SourceProved, SourceQualifies, CleanupProof, Approvable, Approved, Matches
    <2>5. RecoveryEstablished' /\ DecisionEstablished'
      BY <2>1, Zenon
         DEF AcceptanceInv, Established, RecoveryEstablished, DecisionEstablished, At, FenceSeen,
             Restarted, Replaced, Aborted, Recovered, CleanupProof, SameReservation, Held,
             DecisionCompleted, Decided
    <2>6. session'.pod <= controller'.uid
      BY <2>1 DEF AcceptanceInv, Established
    <2>7. ApprovedOnEvidence' /\ JournalCoversWrites' /\ CheckpointsInOrder'
      BY <2>1, Zenon
         DEF AcceptanceInv, ApprovedOnEvidence, JournalCoversWrites, CheckpointsInOrder,
             CleanupProof, At
    <2>8. Ranges'
      BY <2>1, Zenon DEF AcceptanceInv, AcceptanceTypeOK, Ranges
    <2>9. AcceptanceTypeOK'
      BY <1>1, <2>2, <2>8, TypesFollow, PTL
    <2> QED
      BY <1>1, <2>2, <2>3, <2>4, <2>5, <2>6, <2>7, <2>9 DEF AcceptanceInv, Established
  <1>2. CASE At("preflight") /\ QualificationNext /\ UNCHANGED acceptanceVars
    BY <1>1, <1>2, NextQualification DEF AcceptanceInv
  <1>3. CASE Active /\ WorldNext
    BY <1>3, WorldKeeps
  <1>4. CASE SessionNext
    BY <1>4, SessionKeeps
  <1>5. CASE UNCHANGED vars
    BY <1>1, <1>5, QualificationKept DEF vars, AcceptanceInv
  <1> QED
    BY <1>2, <1>3, <1>4, <1>5 DEF Next

\* AcceptanceInv is inductive, so every state of the qualification and of the
\* acceptance satisfies it, for every set of nodes and every bound.
THEOREM Invariance == Spec => []AcceptanceInv
  <1> QED
    BY InitAcceptance, NextAcceptance, PTL DEF Spec

\* The records of Runs, holds, baselines and captures, the journal and the
\* counters stay within their types.
THEOREM AcceptanceTypes == Spec => []AcceptanceTypeOK
  <1>1. AcceptanceInv => AcceptanceTypeOK
    BY DEF AcceptanceInv
  <1> QED
    BY <1>1, Invariance, PTL

\* Whatever is replaced or disturbed between the requests of a capture, in
\* accepted evidence nothing failed or was missing, and the state and the metrics
\* of each node, although not its images, are of the node and cluster it names.
THEOREM QualificationIsSound == Spec => []QualificationSound
  <1>1. AcceptanceInv => QualificationSound
    BY DEF AcceptanceInv, QualificationInv
  <1> QED
    BY <1>1, Invariance, PTL

\* An acceptance passes only if the reservation it saw fenced before it deleted
\* the Pod is the one that was drained and released, and was not taken anew.
THEOREM PassedImpliesRecovered == Spec => []PassedMeansRecovered
  <1>1. AcceptanceInv => PassedMeansRecovered
    <2> SUFFICES ASSUME AcceptanceInv, Passed PROVE PassedMeansRecovered
      BY DEF PassedMeansRecovered
    <2>1. session.step = "passed" /\ session.phase = "decision"
      BY Steps DEF AcceptanceInv, Established, IntentsInOrder, RecordsTyped, Passed, At
    <2>2. Recovered
      BY <2>1 DEF AcceptanceInv, Established, RecoveryEstablished
    <2>3. controller.uid # session.pod
      <3>1. /\ session.pod \in Nat /\ controller.uid \in Nat /\ session.pod < controller.uid
        BY <2>2 DEF AcceptanceInv, RecordsTyped, Recovered, Replaced
      <3> QED
        BY <3>1
    <2>4. session.held.state = "fenced"
      BY <2>1 DEF AcceptanceInv, CheckpointsInOrder
    <2> QED
      BY <2>2, <2>3, <2>4
         DEF PassedMeansRecovered, Recovered, Aborted, SameReservation, Restarted
  <1> QED
    BY <1>1, Invariance, PTL

\* An acceptance passes only if its last Run was decided against the source of
\* the baseline it approved, whatever other operators did to it meanwhile.
THEOREM PassedImpliesDecided == Spec => []PassedMeansDecided
  <1>1. AcceptanceInv => PassedMeansDecided
    <2> SUFFICES ASSUME AcceptanceInv, Passed PROVE PassedMeansDecided
      BY DEF PassedMeansDecided
    <2>1. session.step = "passed" /\ session.phase = "decision"
      BY Steps DEF AcceptanceInv, Established, IntentsInOrder, RecordsTyped, Passed, At
    <2>2. SourceProved /\ SourceQualifies /\ Approved
      BY <2>1 DEF AcceptanceInv, Established, BaselineEstablished
    <2>3. DecisionCompleted /\ Decided
      BY <2>1 DEF AcceptanceInv, Established, DecisionEstablished
    <2> QED
      BY <2>2, <2>3
         DEF PassedMeansDecided, SourceProved, SourceQualifies, Approved, DecisionCompleted, Decided
  <1> QED
    BY <1>1, Invariance, PTL

\* A baseline this session approved carries the qualification and the result of
\* a completed and cleaned-up Run, whoever moved the baseline before.
THEOREM ApprovalsRestOnEvidence == Spec => []ApprovedOnEvidence
  <1>1. AcceptanceInv => ApprovedOnEvidence
    BY DEF AcceptanceInv
  <1> QED
    BY <1>1, Invariance, PTL

\* Wherever a session is interrupted, its journal names the client Pod, every
\* Run, the approval and the hold at the restart that it may have gone on to.
THEOREM JournalPrecedesWrites == Spec => []JournalCoversWrites
  <1>1. AcceptanceInv => JournalCoversWrites
    BY DEF AcceptanceInv
  <1> QED
    BY <1>1, Invariance, PTL
=============================================================================
