--------------------- MODULE ControlPlaneObjects_proofs ---------------------
(***************************************************************************)
(* What every write to the control-plane objects preserves, whoever makes  *)
(* it: the types, and the order of versions on which a reading taken        *)
(* earlier can be compared with the object stored now.                     *)
(***************************************************************************)
EXTENDS ControlPlaneObjects, TLAPS

\* No write turns an object back into an older version.
Forward == \A r \in Resources : NoNewer(obj[r], obj'[r])

\* Versions order readings transitively.
LEMMA NoNewerTransitive ==
    ASSUME NEW o \in Object, NEW p \in Object, NEW q \in Object,
           NoNewer(o, p), NoNewer(p, q)
    PROVE  NoNewer(o, q)
  BY SMT DEF NoNewer, Object

\* Storing an object draws a fresh revision for it.
LEMMA StoreForward ==
    ASSUME ClusterTypeOK, VersionsDrawn,
           NEW r \in Resources, NEW o \in Object, Store(r, o)
    PROVE  /\ obj' \in [Resources -> Object] /\ rev' \in Nat
           /\ VersionsDrawn' /\ Forward
           /\ obj[r].rv < obj'[r].rv
  <1> DEFINE new == [o EXCEPT !.rv = rev + 1]
  <1>1. rev \in Nat /\ rev' = rev + 1 /\ obj' = [obj EXCEPT ![r] = new]
    BY DEF ClusterTypeOK, Store
  <1>2. new \in Object /\ new.rv = rev + 1
    BY <1>1 DEF Object
  <1>3. obj \in [Resources -> Object]
    BY DEF ClusterTypeOK
  <1>4. obj' \in [Resources -> Object]
    BY <1>1, <1>2, <1>3
  <1>5. \A s \in Resources : obj'[s] = IF s = r THEN new ELSE obj[s]
    BY <1>1, <1>3
  <1>6. \A s \in Resources : obj[s].rv \in Nat
    BY <1>3 DEF Object
  <1> HIDE DEF new
  <1>7. VersionsDrawn' /\ obj[r].rv < obj'[r].rv
    <2>1. \A s \in Resources : 0 < obj[s].rv /\ obj[s].rv <= rev
      BY DEF VersionsDrawn
    <2>2. \A s \in Resources : 0 < obj'[s].rv /\ obj'[s].rv <= rev'
      BY <1>1, <1>2, <1>5, <1>6, <2>1
    <2> QED
      BY <1>1, <1>2, <1>5, <1>6, <2>1, <2>2 DEF VersionsDrawn
  <1>8. Forward
    BY <1>5, <1>7 DEF Forward, NoNewer
  <1> QED
    BY <1>1, <1>4, <1>7, <1>8

\* A change of the desired state either draws a fresh revision or is a no-op.
LEMMA SpecifyForward ==
    ASSUME ClusterTypeOK, VersionsDrawn,
           NEW r \in Resources, NEW switch \in {"on", "off"}, NEW rest \in Rests,
           Specify(r, switch, rest)
    PROVE  /\ obj' \in [Resources -> Object] /\ rev' \in Nat
           /\ VersionsDrawn' /\ Forward
           /\ \/ obj[r].rv < obj'[r].rv
              \/ obj[r].switch = switch /\ obj'[r] = obj[r]
  <1>1. CASE obj[r].switch = switch /\ obj[r].rest = rest
    <2>1. UNCHANGED <<obj, rev>>
      BY <1>1 DEF Specify
    <2> QED
      BY <1>1, <2>1 DEF ClusterTypeOK, VersionsDrawn, Forward, NoNewer
  <1>2. CASE ~(obj[r].switch = switch /\ obj[r].rest = rest)
    <2>1. Store(r, Respecified(r, switch, rest))
      BY <1>2 DEF Specify
    <2>2. Respecified(r, switch, rest) \in Object
      BY DEF Respecified, ClusterTypeOK, Object
    <2> QED
      BY <2>1, <2>2, StoreForward
  <1> QED
    BY <1>1, <1>2

\* Whatever the controllers, Argo CD and the operators do keeps the types and
\* moves versions forward only.
LEMMA ClusterForward ==
    ASSUME ClusterTypeOK, VersionsDrawn, ClusterNext
    PROVE  ClusterTypeOK' /\ VersionsDrawn' /\ Forward
  <1> USE DEF ClusterTypeOK
  <1> DEFINE Kept == /\ obj' \in [Resources -> Object] /\ rev' \in Nat
                     /\ VersionsDrawn' /\ Forward
  <1>0. "root" \in Resources /\ "child" \in Resources /\ "deployment" \in Resources
        /\ Applications \subseteq Resources
    BY DEF Resources, Applications
  <1>1. ASSUME Meddle PROVE meddled' \in 0..MaxMeddling
    BY <1>1, MeddlingAssumption DEF Meddle
  <1>2. ASSUME UNCHANGED <<obj, rev>> PROVE Kept
    BY <1>2 DEF VersionsDrawn, Forward, NoNewer
  <1>3. CASE Controllers
    <2>1. pods' \in SUBSET PodStates /\ meddled' = meddled
      BY <1>3 DEF Controllers, StartPod, StopPod, RemovePod, ReportReplicas, PodStates
    <2>2. CASE ReportReplicas
      <3>1. [obj["deployment"] EXCEPT !.status = ReplicaStatus] \in Object
        BY <1>0 DEF Object, ReplicaStatus
      <3> QED
        BY <1>0, <2>1, <2>2, <3>1, StoreForward DEF ReportReplicas
    <2>3. CASE StartPod \/ StopPod \/ RemovePod
      BY <1>2, <2>1, <2>3 DEF StartPod, StopPod, RemovePod
    <2> QED
      BY <1>3, <2>2, <2>3 DEF Controllers
  <1>4. ASSUME NEW r \in Resources, NEW switch \in {"on", "off"}, NEW rest \in Rests,
               Edit(r, switch, rest)
        PROVE  ClusterTypeOK' /\ VersionsDrawn' /\ Forward
    BY <1>1, <1>4, SpecifyForward DEF Edit
  <1>5. ASSUME NEW a \in Applications, NEW status \in {"ready", "progressing"},
               Refresh(a, status)
        PROVE  ClusterTypeOK' /\ VersionsDrawn' /\ Forward
    <2>1. [obj[a] EXCEPT !.status = status] \in Object
      BY <1>0 DEF Object
    <2> QED
      BY <1>0, <1>1, <1>5, <2>1, StoreForward DEF Refresh
  <1>6. ASSUME NEW a \in Applications, SyncStart(a)
        PROVE  ClusterTypeOK' /\ VersionsDrawn' /\ Forward
    <2>1. [obj[a] EXCEPT !.phase = "syncing"] \in Object
      BY <1>0 DEF Object
    <2> QED
      BY <1>0, <1>1, <1>6, <2>1, StoreForward DEF SyncStart
  <1>7. ASSUME NEW a \in Applications, NEW switch \in {"on", "off"}, NEW rest \in Rests,
               SyncApply(a, switch, rest)
        PROVE  ClusterTypeOK' /\ VersionsDrawn' /\ Forward
    <2>1. CASE a = "root"
      BY <1>0, <1>1, <1>7, <2>1, SpecifyForward DEF SyncApply
    <2>2. CASE a # "root"
      BY <1>0, <1>1, <1>7, <2>2, SpecifyForward DEF SyncApply
    <2> QED
      BY <2>1, <2>2
  <1>8. ASSUME NEW a \in Applications, NEW status \in {"ready", "progressing"},
               SyncFinish(a, status)
        PROVE  ClusterTypeOK' /\ VersionsDrawn' /\ Forward
    <2>1. [obj[a] EXCEPT !.phase = "settled", !.status = status] \in Object
      BY <1>0 DEF Object
    <2> QED
      BY <1>0, <1>8, <2>1, StoreForward DEF SyncFinish
  <1>9. ASSUME NEW r \in Resources, Delete(r)
        PROVE  ClusterTypeOK' /\ VersionsDrawn' /\ Forward
    <2>1. [obj[r] EXCEPT !.phase = "deleting"] \in Object
      BY DEF Object
    <2> QED
      BY <1>1, <1>9, <2>1, StoreForward DEF Delete
  <1>10. ASSUME NEW r \in Resources, Recreate(r)
         PROVE  ClusterTypeOK' /\ VersionsDrawn' /\ Forward
    <2>1. [obj[r] EXCEPT !.uid = rev + 1, !.switch = "on", !.phase = "settled",
                         !.status = "progressing"] \in Object
      <3>1. obj[r] \in Object /\ rev + 1 \in Nat
        OBVIOUS
      <3> QED
        BY <3>1 DEF Object
    <2> QED
      BY <1>10, <2>1, StoreForward DEF Recreate
  <1> QED
    BY <1>3, <1>4, <1>5, <1>6, <1>7, <1>8, <1>9, <1>10
      DEF ClusterNext, ArgoCD, People

-----------------------------------------------------------------------------
(* Incarnations. *)

\* An object keeps its incarnation or comes back as a later one.
Renewed == \A r \in Resources : obj[r].uid <= obj'[r].uid

\* A write keeps the UID of the object or draws a fresh one.
LEMMA StoreRenews ==
    ASSUME ClusterTypeOK, IncarnationsDrawn,
           NEW r \in Resources, NEW o \in Object, Store(r, o),
           o.uid = obj[r].uid \/ o.uid = rev + 1
    PROVE  IncarnationsDrawn' /\ Renewed
  <1> DEFINE new == [o EXCEPT !.rv = rev + 1]
  <1>1. rev \in Nat /\ rev' = rev + 1 /\ obj' = [obj EXCEPT ![r] = new]
    BY DEF ClusterTypeOK, Store
  <1>2. new.uid = o.uid
    BY DEF Object
  <1>3. obj \in [Resources -> Object]
    BY DEF ClusterTypeOK
  <1>4. \A s \in Resources : obj'[s] = IF s = r THEN new ELSE obj[s]
    BY <1>1, <1>3
  <1>5. \A s \in Resources : obj[s].uid \in Nat /\ obj[s].uid <= rev
    BY <1>3 DEF Object, IncarnationsDrawn
  <1> HIDE DEF new
  <1> QED
    BY <1>1, <1>2, <1>4, <1>5 DEF IncarnationsDrawn, Renewed

LEMMA SpecifyRenews ==
    ASSUME ClusterTypeOK, IncarnationsDrawn,
           NEW r \in Resources, NEW switch \in {"on", "off"}, NEW rest \in Rests,
           Specify(r, switch, rest)
    PROVE  IncarnationsDrawn' /\ Renewed
  <1>1. CASE obj[r].switch = switch /\ obj[r].rest = rest
    <2>1. UNCHANGED <<obj, rev>>
      BY <1>1 DEF Specify
    <2> QED
      BY <2>1 DEF ClusterTypeOK, IncarnationsDrawn, Renewed, Object
  <1>2. CASE ~(obj[r].switch = switch /\ obj[r].rest = rest)
    <2>1. Store(r, Respecified(r, switch, rest))
      BY <1>2 DEF Specify
    <2>2. Respecified(r, switch, rest) \in Object /\ Respecified(r, switch, rest).uid = obj[r].uid
      BY DEF Respecified, ClusterTypeOK, Object
    <2> QED
      BY <2>1, <2>2, StoreRenews
  <1> QED
    BY <1>1, <1>2

\* Nobody brings an earlier incarnation back.
LEMMA ClusterRenews ==
    ASSUME ClusterTypeOK, IncarnationsDrawn, ClusterNext
    PROVE  IncarnationsDrawn' /\ Renewed
  <1>0. "root" \in Resources /\ "child" \in Resources /\ "deployment" \in Resources
        /\ Applications \subseteq Resources
    BY DEF Resources, Applications
  <1>a. obj \in [Resources -> Object] /\ rev \in Nat
    BY DEF ClusterTypeOK
  <1>1. ASSUME UNCHANGED <<obj, rev>> PROVE IncarnationsDrawn' /\ Renewed
    BY <1>1, <1>a DEF IncarnationsDrawn, Renewed, Object
  <1>2. CASE StartPod \/ StopPod \/ RemovePod
    BY <1>1, <1>2 DEF StartPod, StopPod, RemovePod
  <1>3. CASE ReportReplicas
    <2>1. /\ [obj["deployment"] EXCEPT !.status = ReplicaStatus] \in Object
          /\ [obj["deployment"] EXCEPT !.status = ReplicaStatus].uid = obj["deployment"].uid
      BY <1>0, <1>a DEF Object, ReplicaStatus
    <2> QED
      BY <1>0, <1>3, <2>1, StoreRenews DEF ReportReplicas
  <1>4. ASSUME NEW r \in Resources, NEW switch \in {"on", "off"}, NEW rest \in Rests,
               Edit(r, switch, rest)
        PROVE  IncarnationsDrawn' /\ Renewed
    BY <1>4, SpecifyRenews DEF Edit
  <1>5. ASSUME NEW a \in Applications, NEW status \in {"ready", "progressing"},
               Refresh(a, status)
        PROVE  IncarnationsDrawn' /\ Renewed
    <2>1. /\ [obj[a] EXCEPT !.status = status] \in Object
          /\ [obj[a] EXCEPT !.status = status].uid = obj[a].uid
      BY <1>0, <1>a DEF Object
    <2> QED
      BY <1>0, <1>5, <2>1, StoreRenews DEF Refresh
  <1>6. ASSUME NEW a \in Applications, SyncStart(a) PROVE IncarnationsDrawn' /\ Renewed
    <2>1. /\ [obj[a] EXCEPT !.phase = "syncing"] \in Object
          /\ [obj[a] EXCEPT !.phase = "syncing"].uid = obj[a].uid
      BY <1>0, <1>a DEF Object
    <2> QED
      BY <1>0, <1>6, <2>1, StoreRenews DEF SyncStart
  <1>7. ASSUME NEW a \in Applications, NEW switch \in {"on", "off"}, NEW rest \in Rests,
               SyncApply(a, switch, rest)
        PROVE  IncarnationsDrawn' /\ Renewed
    BY <1>0, <1>7, SpecifyRenews DEF SyncApply
  <1>8. ASSUME NEW a \in Applications, NEW status \in {"ready", "progressing"},
               SyncFinish(a, status)
        PROVE  IncarnationsDrawn' /\ Renewed
    <2>1. /\ [obj[a] EXCEPT !.phase = "settled", !.status = status] \in Object
          /\ [obj[a] EXCEPT !.phase = "settled", !.status = status].uid = obj[a].uid
      BY <1>0, <1>a DEF Object
    <2> QED
      BY <1>0, <1>8, <2>1, StoreRenews DEF SyncFinish
  <1>9. ASSUME NEW r \in Resources, Delete(r) PROVE IncarnationsDrawn' /\ Renewed
    <2>1. /\ [obj[r] EXCEPT !.phase = "deleting"] \in Object
          /\ [obj[r] EXCEPT !.phase = "deleting"].uid = obj[r].uid
      BY <1>a DEF Object
    <2> QED
      BY <1>9, <2>1, StoreRenews DEF Delete
  <1>10. ASSUME NEW r \in Resources, Recreate(r) PROVE IncarnationsDrawn' /\ Renewed
    <2> DEFINE new == [obj[r] EXCEPT !.uid = rev + 1, !.switch = "on", !.phase = "settled",
                                     !.status = "progressing"]
    <2>1. obj[r] \in Object /\ rev + 1 \in Nat
      BY <1>a
    <2>2. new \in Object /\ new.uid = rev + 1
      BY <2>1 DEF Object
    <2>3. Store(r, new)
      BY <1>10 DEF Recreate
    <2> HIDE DEF new
    <2> QED
      BY <2>2, <2>3, StoreRenews
  <1> QED
    BY <1>2, <1>3, <1>4, <1>5, <1>6, <1>7, <1>8, <1>9, <1>10
       DEF ClusterNext, Controllers, ArgoCD, People

-----------------------------------------------------------------------------
\* The store's revision only grows.
LEMMA RevisionGrows ==
    ASSUME ClusterTypeOK, ClusterNext
    PROVE  rev <= rev' /\ rev' \in Nat
  <1>1. rev \in Nat
    BY DEF ClusterTypeOK
  <1>2. rev' = rev \/ rev' = rev + 1
    BY DEF ClusterNext, Controllers, StartPod, StopPod, RemovePod, ReportReplicas,
           ArgoCD, Refresh, SyncStart, SyncApply, SyncFinish,
           People, Edit, Delete, Recreate, Specify, Store
  <1> QED
    BY <1>1, <1>2

\* Paused reconcilers and controllers of a stopped Deployment have nothing to do:
\* without people, what is quiet stays quiet, and the Applications stay the same.
LEMMA QuietUntilPeople ==
    ASSUME ClusterTypeOK, Quiet(obj, pods), Controllers \/ ArgoCD
    PROVE  Quiet(obj, pods)' /\ \A a \in Applications : obj'[a].uid = obj[a].uid
  <1>1. /\ \A a \in Applications : Paused(obj[a])
        /\ Stopped(obj["deployment"]) /\ pods = {}
    BY DEF Quiet
  <1>2. obj \in [Resources -> Object] /\ Applications \subseteq Resources
        /\ "deployment" \in Resources /\ "deployment" \notin Applications
    BY DEF ClusterTypeOK, Resources, Applications
  <1>3. CASE Controllers
    <2>1. ReplicaStatus = "stopped" /\ obj["deployment"].status = "stopped"
      BY <1>1 DEF ReplicaStatus, Stopped
    <2> QED
      BY <1>1, <1>3, <2>1
         DEF Controllers, StartPod, StopPod, RemovePod, ReportReplicas, Stopped
  <1>4. ASSUME NEW a \in Applications, obj[a].switch = "on" /\ SyncStart(a) PROVE FALSE
    BY <1>1, <1>4 DEF Paused
  <1>5. ASSUME NEW a \in Applications, obj[a].phase = "syncing" PROVE FALSE
    BY <1>1, <1>5 DEF Paused, ApplicationIdentified
  <1>6. ASSUME NEW a \in Applications, NEW status \in {"ready", "progressing"},
               Refresh(a, status)
        PROVE  Quiet(obj, pods)' /\ \A b \in Applications : obj'[b].uid = obj[b].uid
    <2> DEFINE new == [obj[a] EXCEPT !.status = status, !.rv = rev + 1]
    <2>1. obj' = [obj EXCEPT ![a] = new] /\ pods' = pods
      BY <1>6 DEF Refresh, Store
    <2>2. new.uid = obj[a].uid /\ Paused(new)
      BY <1>1, <1>2 DEF Object, Paused, ApplicationIdentified, Identified
    <2> HIDE DEF new
    <2>3. \A b \in Resources : obj'[b] = IF b = a THEN new ELSE obj[b]
      BY <1>2, <2>1
    <2> QED
      BY <1>1, <1>2, <2>1, <2>2, <2>3 DEF Quiet
  <1> QED
    BY <1>3, <1>4, <1>5, <1>6 DEF ArgoCD, SyncApply, SyncFinish
=============================================================================
