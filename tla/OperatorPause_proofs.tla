------------------------ MODULE OperatorPause_proofs ------------------------
(***************************************************************************)
(* OperatorInv is an inductive invariant of OperatorPause for any set of   *)
(* operators and any amount of meddling, and it implies the properties     *)
(* that the run checks.                                                    *)
(***************************************************************************)
EXTENDS OperatorPause, ControlPlaneObjects_proofs

LEMMA Names ==
    /\ "root" \in Resources /\ "child" \in Resources /\ "deployment" \in Resources
    /\ Applications = {"root", "child"} /\ Applications \subseteq Resources
    /\ "deployment" \notin Applications
    /\ \A r \in Resources : r = "root" \/ r = "child" \/ r = "deployment"
    /\ Len(Order) = 3
    /\ Order[1] = "root" /\ Order[2] = "child" /\ Order[3] = "deployment"
  BY DEF Resources, Applications, Order

LEMMA NoObjectTyped == NoObject \in Object
  <1>1. (CHOOSE rest \in Rests : TRUE) \in Rests
    BY RestsAssumption
  <1> QED
    BY <1>1 DEF NoObject, Object

LEMMA ResourceTyped ==
    ASSUME TypeOK, NEW o \in Operators
    PROVE  op[o] \in Operation /\ op[o].at \in 1..3 /\ Resource(o) \in Resources
  BY Names DEF TypeOK, Operation, Resource

\* The state of the objects when a script patches one.
LEMMA PatchIsOfVersionRead ==
    ASSUME TypeOK, VersionsSeen, NEW o \in Operators, At(o, "patch"),
           SameVersion(Resource(o), op[o].seen)
    PROVE  op[o].seen = obj[Resource(o)] /\ Resource(o) \notin missing
  <1>1. Resource(o) \in Resources /\ op[o].seen \in Object
    BY ResourceTyped DEF Operation
  <1>2. obj[Resource(o)] \in Object
    BY <1>1 DEF TypeOK, ClusterTypeOK
  <1>3. NoNewer(op[o].seen, obj[Resource(o)])
    BY DEF VersionsSeen
  <1>4. obj[Resource(o)].rv = op[o].seen.rv /\ Resource(o) \notin missing
    BY DEF SameVersion, Identity
  <1> QED
    BY <1>1, <1>2, <1>3, <1>4 DEF NoNewer, Object

\* It leaves everything but the switch, which it turns off.
LEMMA PatchOnlySwitchesOff ==
    ASSUME TypeOK, VersionsSeen, NEW o \in Operators, PatchObject(o)
    PROVE  /\ Specify(Resource(o), "off", obj[Resource(o)].rest)
           /\ obj[Resource(o)].rest \in Rests
           /\ \A r \in Resources : r # Resource(o) => obj'[r] = obj[r]
           /\ LET r == Resource(o) IN
                 /\ obj'[r].switch = "off" /\ obj'[r].rest = obj[r].rest
                 /\ obj'[r].uid = obj[r].uid /\ obj'[r].phase = obj[r].phase
  <1> DEFINE r == Resource(o)
  <1>1. r \in Resources /\ obj \in [Resources -> Object] /\ obj[r] \in Object
    BY ResourceTyped DEF TypeOK, ClusterTypeOK
  <1>2. op[o].seen = obj[r]
    BY PatchIsOfVersionRead DEF PatchObject
  <1>3. Specify(r, "off", obj[r].rest) /\ obj[r].rest \in Rests
    BY <1>1, <1>2 DEF PatchObject, Object
  <1>4. CASE obj[r].switch = "off"
    BY <1>1, <1>3, <1>4 DEF Specify
  <1>5. CASE obj[r].switch # "off"
    <2>1. obj' = [obj EXCEPT ![r] = [Respecified(r, "off", obj[r].rest) EXCEPT !.rv = rev + 1]]
      BY <1>3, <1>5 DEF Specify, Store
    <2> QED
      BY <1>1, <1>3, <2>1 DEF Respecified, Object
  <1> QED
    BY <1>3, <1>4, <1>5

-----------------------------------------------------------------------------
(* Types and versions. *)

LEMMA InitTyped == Init => TypeOK /\ VersionsDrawn
  <1> SUFFICES ASSUME Init PROVE TypeOK /\ VersionsDrawn
    OBVIOUS
  <1>1. PICK switch \in [Resources -> {"on", "off"}], rest \in OwnedRests :
            /\ obj = [r \in Resources |->
                        [uid |-> 1, rv |-> 1, switch |-> switch[r], rest |-> rest,
                         phase |-> "settled",
                         status |-> IF r = "deployment" /\ switch[r] = "off"
                                    THEN "stopped" ELSE "ready"]]
            /\ pods = IF switch["deployment"] = "on" THEN {"running"} ELSE {}
    BY DEF Init, ClusterInit
  <1>2. rest \in Rests
    BY RestsAssumption
  <1>3. obj \in [Resources -> Object] /\ VersionsDrawn
    BY <1>1, <1>2 DEF Init, ClusterInit, Object, VersionsDrawn
  <1>4. ClusterTypeOK
    BY <1>1, <1>3, MeddlingAssumption DEF Init, ClusterInit, ClusterTypeOK, PodStates
  <1>5. Idle \in Operation
    BY NoObjectTyped DEF Idle, Operation, Steps
  <1>6. replicaset \in {"on", "off"} /\ missing \in SUBSET Resources
    BY <1>3, Names DEF Init, Object
  <1> QED
    BY <1>3, <1>4, <1>5, <1>6 DEF Init, TypeOK, JobStates

\* What anybody does to the objects keeps their types and versions.
LEMMA ObjectsForward ==
    ASSUME TypeOK, VersionsDrawn, VersionsSeen, [Next]_vars
    PROVE  ClusterTypeOK' /\ VersionsDrawn' /\ Forward
  <1>0. ASSUME UNCHANGED <<obj, rev>>, pods' \in SUBSET PodStates, meddled' \in 0..MaxMeddling
        PROVE  ClusterTypeOK' /\ VersionsDrawn' /\ Forward
    BY <1>0 DEF TypeOK, ClusterTypeOK, VersionsDrawn, Forward, NoNewer
  <1>1. /\ obj \in [Resources -> Object] /\ rev \in Nat
        /\ pods \in SUBSET PodStates /\ meddled \in 0..MaxMeddling
    BY DEF TypeOK, ClusterTypeOK
  <1>2. ASSUME ClusterNext PROVE ClusterTypeOK' /\ VersionsDrawn' /\ Forward
    BY <1>2, ClusterForward DEF TypeOK
  <1>3. CASE TellReplicaSet \/ JobEnds
    BY <1>0, <1>1, <1>3 DEF TellReplicaSet, JobEnds, clusterVars
  <1>4. CASE PodStarts \/ PodStops \/ PodGone
    BY <1>0, <1>1, <1>4 DEF PodStarts, PodStops, PodGone, PodStep, RemovePod, PodStates
  <1>5. CASE Report
    <2> DEFINE new == [obj["deployment"] EXCEPT
                          !.status = IF "running" \in pods THEN "ready" ELSE "stopped"]
    <2>1. new \in Object /\ Store("deployment", new)
      BY <1>1, <1>5, Names DEF Report, Object
    <2>2. /\ obj' \in [Resources -> Object] /\ rev' \in Nat
          /\ VersionsDrawn' /\ Forward
      BY <2>1, StoreForward, Names DEF TypeOK
    <2> QED
      BY <1>1, <1>5, <2>2 DEF Report, ClusterTypeOK
  <1>6. CASE Argo
    BY <1>2, <1>6 DEF Argo, ClusterNext, ArgoCD
  <1>7. CASE SomebodyActs
    <2>1. CASE UNCHANGED <<obj, rev, pods>> /\ Meddle
      BY <1>0, <1>1, <2>1, MeddlingAssumption DEF Meddle
    <2> QED
      BY <1>2, <1>7, <2>1 DEF SomebodyActs, ClusterNext, People
  <1>8. ASSUME NEW o \in Operators, Script(o)
        PROVE  ClusterTypeOK' /\ VersionsDrawn' /\ Forward
    <2>1. CASE PatchObject(o)
      <3>1. Specify(Resource(o), "off", obj[Resource(o)].rest) /\ obj[Resource(o)].rest \in Rests
        BY <2>1, PatchOnlySwitchesOff
      <3>2. Resource(o) \in Resources
        BY ResourceTyped
      <3>3. /\ obj' \in [Resources -> Object] /\ rev' \in Nat
            /\ VersionsDrawn' /\ Forward
        BY <3>1, <3>2, SpecifyForward DEF TypeOK
      <3> QED
        BY <1>1, <2>1, <3>3 DEF PatchObject, ClusterTypeOK
    <2>2. CASE UNCHANGED clusterVars
      BY <1>0, <1>1, <2>2 DEF clusterVars
    <2> QED
      BY <1>8, <2>1, <2>2
         DEF Script, Begin, ReadObject, CheckObject, CheckPods, FindJob, CreateJob, AwaitJob,
             ReadJobAgain, GrantRuntime, VerifyRuntime, Fail, Looks
  <1>9. CASE UNCHANGED vars
    BY <1>0, <1>1, <1>9 DEF vars, clusterVars
  <1> QED
    BY <1>3, <1>4, <1>5, <1>6, <1>7, <1>8, <1>9 DEF Next

LEMMA NextTyped ==
    ASSUME TypeOK, VersionsDrawn, VersionsSeen, [Next]_vars
    PROVE  TypeOK' /\ VersionsDrawn' /\ Forward
  <1>0. ClusterTypeOK' /\ VersionsDrawn' /\ Forward
    BY ObjectsForward
  <1> DEFINE Rest == /\ missing' \in SUBSET Resources /\ replicaset' \in {"on", "off"}
                     /\ job' \in JobStates /\ tables' \in BOOLEAN /\ granted' \in BOOLEAN
                     /\ op' \in [Operators -> Operation] /\ untouched' \in SUBSET Operators
                     /\ unsettled' \in SUBSET Operators
  <1> SUFFICES Rest
    BY <1>0 DEF TypeOK
  <1>1. /\ obj \in [Resources -> Object]
        /\ missing \in SUBSET Resources /\ replicaset \in {"on", "off"}
        /\ job \in JobStates /\ tables \in BOOLEAN /\ granted \in BOOLEAN
        /\ op \in [Operators -> Operation] /\ untouched \in SUBSET Operators
        /\ unsettled \in SUBSET Operators
    BY DEF TypeOK, ClusterTypeOK
  <1>2. CASE TellReplicaSet
    <2>1. Wanted \in {"on", "off"}
      BY <1>1, Names DEF Wanted, Object
    <2> QED
      BY <1>1, <1>2, <2>1 DEF TellReplicaSet, scriptVars
  <1>3. CASE PodStarts \/ PodStops \/ PodGone \/ Report
    BY <1>1, <1>3 DEF PodStarts, PodStops, PodGone, Report, PodStep, scriptVars
  <1>4. CASE JobEnds
    BY <1>1, <1>4 DEF JobEnds, scriptVars, JobStates
  <1>5. CASE Argo
    BY <1>1, <1>5 DEF Argo, scriptVars
  <1>6. CASE SomebodyActs
    BY <1>1, <1>6 DEF SomebodyActs, Interfere, JobStates
  <1>7. ASSUME NEW o \in Operators, Script(o) PROVE Rest
    <2>1. /\ op[o] \in Operation /\ op[o].at \in 1..3 /\ Resource(o) \in Resources
          /\ obj[Resource(o)] \in Object /\ NoObject \in Object
      BY <1>1, ResourceTyped, NoObjectTyped
    <2>2. ASSUME NEW next \in Operation, op' = [op EXCEPT ![o] = next]
          PROVE  op' \in [Operators -> Operation]
      BY <1>1, <2>2
    <2>3. ASSUME NEW script \in Scripts, Begin(o, script) PROVE Rest
      <3>1. script \in {"pause", "deploy", "health"}
        BY ScriptsAssumption
      <3> DEFINE step == CASE script = "pause" -> "read"
                           [] script = "deploy" -> "check"
                           [] script = "health" -> "job"
                 next == [op[o] EXCEPT !.script = script, !.step = step]
      <3>2. step \in Steps
        BY <3>1 DEF Steps
      <3>3. op' = [op EXCEPT ![o].script = script, ![o].step = step] /\ Looks
        BY <2>3 DEF Begin
      <3> HIDE DEF step
      <3>a. op' = [op EXCEPT ![o] = next]
        BY <1>1, <3>3
      <3>4. next \in Operation
        BY <2>1, <3>1, <3>2 DEF Operation
      <3> QED
        BY <1>1, <2>2, <3>3, <3>a, <3>4 DEF Looks, historyVars
    <2>4. ASSUME NEW step \in Steps, NEW after \in Steps, NextObject(o, step, after)
          PROVE  op' \in [Operators -> Operation]
      <3> DEFINE next == [op[o] EXCEPT !.step = IF Last(o) THEN after ELSE step,
                                       !.at = IF Last(o) THEN 1 ELSE @ + 1,
                                       !.seen = NoObject]
      <3>1. op' = [op EXCEPT ![o] = next]
        BY <1>1, <2>4 DEF NextObject
      <3>2. (IF Last(o) THEN 1 ELSE op[o].at + 1) \in 1..3
        BY <2>1, Names DEF Last
      <3>3. (IF Last(o) THEN after ELSE step) \in Steps
        OBVIOUS
      <3>4. next \in Operation
        BY <2>1, <3>2, <3>3 DEF Operation
      <3> QED
        BY <2>2, <3>1, <3>4
    <2>5. CASE ReadObject(o)
      <3>1. CASE NextObject(o, "read", "check")
        BY <1>1, <2>4, <2>5, <3>1 DEF ReadObject, Looks, historyVars, Steps
      <3>2. CASE op' = [op EXCEPT ![o].step = "patch", ![o].seen = obj[Resource(o)]]
        <4>1. [op[o] EXCEPT !.step = "patch", !.seen = obj[Resource(o)]] \in Operation
          BY <2>1 DEF Operation, Steps
        <4> QED
          BY <1>1, <2>2, <2>5, <3>2, <4>1 DEF ReadObject, Looks, historyVars
      <3> QED
        BY <2>5, <3>1, <3>2 DEF ReadObject
    <2>6. CASE PatchObject(o) \/ CheckObject(o)
      BY <1>1, <2>4, <2>6 DEF PatchObject, CheckObject, historyVars, Steps
    <2>7. ASSUME NEW step \in Steps, Go(o, step) PROVE op' \in [Operators -> Operation]
      <3>1. [op[o] EXCEPT !.step = step, !.at = 1] \in Operation
        <4>1. 1 \in 1..3
          OBVIOUS
        <4> QED
          BY <2>1, <4>1, Zenon DEF Operation
      <3> QED
        BY <1>1, <2>2, <2>7, <3>1 DEF Go
    <2>8. ASSUME NEW step \in Steps, End(o, step) PROVE op' \in [Operators -> Operation]
      <3>1. Idle \in Operation
        BY <2>1 DEF Operation, Idle, Steps
      <3>2. op[o].passed \in BOOLEAN
        BY <2>1 DEF Operation
      <3>3. [Idle EXCEPT !.step = step, !.passed = op[o].passed] \in Operation
        BY <3>1, <3>2, Zenon DEF Operation
      <3> QED
        BY <1>1, <2>2, <2>8, <3>3 DEF End
    <2>9. CASE CheckPods(o)
      <3> DEFINE next == [op[o] EXCEPT !.step = IF op[o].script = "pause" THEN "done" ELSE "job",
                                       !.passed = TRUE]
      <3>1. next \in Operation
        BY <2>1 DEF Operation, Steps
      <3>2. op' = [op EXCEPT ![o] = next]
        BY <1>1, <2>9 DEF CheckPods
      <3> QED
        BY <1>1, <2>2, <2>9, <3>1, <3>2 DEF CheckPods
    <2>10. CASE FindJob(o) \/ AwaitJob(o) \/ ReadJobAgain(o)
      BY <1>1, <2>7, <2>10 DEF FindJob, AwaitJob, ReadJobAgain, Looks, historyVars, Steps
    <2>11. CASE CreateJob(o) \/ GrantRuntime(o)
      BY <1>1, <2>7, <2>11 DEF CreateJob, GrantRuntime, historyVars, JobStates, Steps
    <2>12. CASE VerifyRuntime(o) \/ Fail(o)
      BY <1>1, <2>8, <2>12 DEF VerifyRuntime, Fail, Looks, historyVars, Steps
    <2> QED
      BY <1>7, <2>3, <2>5, <2>6, <2>9, <2>10, <2>11, <2>12 DEF Script
  <1>8. CASE UNCHANGED vars
    BY <1>1, <1>8 DEF vars
  <1> QED
    BY <1>2, <1>3, <1>4, <1>5, <1>6, <1>7, <1>8 DEF Next

-----------------------------------------------------------------------------
(* How a step of a script moves the scripts on. *)

LEMMA ScriptMoves ==
    ASSUME TypeOK, NEW o \in Operators, Script(o)
    PROVE  /\ \A p \in Operators : p # o => op'[p] = op[p]
           /\ At(o, "patch")' =>
                 /\ At(o, "read") /\ UNCHANGED clusterVars
                 /\ op'[o].at = op[o].at /\ op'[o].seen = obj[Resource(o)]
  <1>1. op \in [Operators -> Operation] /\ op[o] \in Operation
    BY ResourceTyped DEF TypeOK
  <1> USE <1>1 DEF At
  <1>2. ASSUME NEW script \in Scripts, Begin(o, script)
        PROVE  op'[o].step # "patch" /\ \A p \in Operators : p # o => op'[p] = op[p]
    BY <1>2, ScriptsAssumption DEF Begin, Operation
  <1>3. CASE ReadObject(o)
    <2>1. CASE NextObject(o, "read", "check")
      BY <2>1 DEF NextObject, Operation
    <2>2. CASE op' = [op EXCEPT ![o].step = "patch", ![o].seen = obj[Resource(o)]]
      BY <1>3, <2>2 DEF Operation, ReadObject, Looks
    <2> QED
      BY <1>3, <2>1, <2>2 DEF ReadObject
  <1>4. CASE PatchObject(o) \/ CheckObject(o)
    BY <1>4 DEF PatchObject, CheckObject, NextObject, Operation
  <1>5. CASE CheckPods(o)
    BY <1>5 DEF CheckPods, Operation
  <1>6. CASE FindJob(o) \/ AwaitJob(o) \/ ReadJobAgain(o) \/ CreateJob(o) \/ GrantRuntime(o)
    <2>1. CASE FindJob(o)
      BY <2>1 DEF FindJob, Go, Operation
    <2>2. CASE AwaitJob(o) \/ ReadJobAgain(o)
      BY <2>2 DEF AwaitJob, ReadJobAgain, Go, Operation
    <2>3. CASE CreateJob(o) \/ GrantRuntime(o)
      BY <2>3 DEF CreateJob, GrantRuntime, Go, Operation
    <2> QED
      BY <1>6, <2>1, <2>2, <2>3
  <1>7. CASE VerifyRuntime(o) \/ Fail(o)
    <2>1. \/ op' = [op EXCEPT ![o] = [Idle EXCEPT !.step = "done", !.passed = op[o].passed]]
          \/ op' = [op EXCEPT ![o] = [Idle EXCEPT !.step = "failed", !.passed = op[o].passed]]
      BY <1>7, Zenon DEF VerifyRuntime, Fail, End
    <2>2. /\ DOMAIN op = Operators /\ \A p \in Operators : p # o => op'[p] = op[p]
          /\ \/ op'[o] = [Idle EXCEPT !.step = "done", !.passed = op[o].passed]
             \/ op'[o] = [Idle EXCEPT !.step = "failed", !.passed = op[o].passed]
      BY <2>1
    <2>3. op'[o].step # "patch"
      BY <2>2 DEF Idle
    <2> QED
      BY <2>2, <2>3
  <1> QED
    BY <1>2, <1>3, <1>4, <1>5, <1>6, <1>7 DEF Script

LEMMA NextVersionsSeen ==
    ASSUME TypeOK, VersionsDrawn, VersionsSeen, [Next]_vars
    PROVE  VersionsSeen'
  <1>1. TypeOK' /\ Forward
    BY NextTyped
  <1>2. ASSUME NEW o \in Operators, op'[o] = op[o], At(o, "patch")'
        PROVE  NoNewer(op[o].seen, obj[Resource(o)])'
    <2>1. NoNewer(op[o].seen, obj[Resource(o)]) /\ Resource(o)' = Resource(o)
      BY <1>2 DEF VersionsSeen, At, Resource
    <2>2. /\ op[o].seen \in Object /\ Resource(o) \in Resources
          /\ obj[Resource(o)] \in Object /\ obj'[Resource(o)] \in Object
      BY <1>1, ResourceTyped DEF TypeOK, ClusterTypeOK, Operation
    <2>3. NoNewer(obj[Resource(o)], obj'[Resource(o)])
      BY <1>1, <2>2 DEF Forward
    <2>4. NoNewer(op[o].seen, obj'[Resource(o)])
      BY <2>1, <2>2, <2>3, NoNewerTransitive
    <2> QED
      BY <1>2, <2>1, <2>4
  <1>3. CASE op' = op
    BY <1>2, <1>3 DEF VersionsSeen
  <1>4. ASSUME NEW o \in Operators, Script(o) PROVE VersionsSeen'
    <2>1. ASSUME At(o, "patch")' PROVE NoNewer(op[o].seen, obj[Resource(o)])'
      <3>1. op'[o].at = op[o].at /\ op'[o].seen = obj[Resource(o)] /\ obj' = obj
        BY <1>4, <2>1, ScriptMoves DEF clusterVars
      <3>2. Resource(o)' = Resource(o)
        BY <3>1 DEF Resource
      <3> QED
        BY <3>1, <3>2 DEF NoNewer
    <2>2. \A p \in Operators : p # o => op'[p] = op[p]
      BY <1>4, ScriptMoves
    <2> QED
      BY <1>2, <2>1, <2>2 DEF VersionsSeen
  <1> QED
    BY <1>3, <1>4
       DEF Next, vars, TellReplicaSet, PodStarts, PodStops, PodGone, Report, JobEnds, Argo,
           SomebodyActs, PodStep, Interfere, scriptVars
-----------------------------------------------------------------------------
(* The Job and the grants. *)

LEMMA NextJobFirst ==
    ASSUME TypeOK, JobFirst, [Next]_vars
    PROVE  JobFirst'
  <1> USE DEF JobFirst, At
  <1>0. op \in [Operators -> Operation]
    BY DEF TypeOK
  <1>1. ASSUME op' = op, granted' = granted, job = "complete" => job' = "complete" /\ tables',
               job' = "complete" => tables'
        PROVE  JobFirst'
    BY <1>1
  <1>2. CASE TellReplicaSet \/ PodStarts \/ PodStops \/ PodGone \/ Report \/ Argo
    BY <1>1, <1>2 DEF TellReplicaSet, PodStarts, PodStops, PodGone, Report, Argo, PodStep, scriptVars
  <1>3. CASE JobEnds
    BY <1>1, <1>3 DEF JobEnds, scriptVars
  <1>4. CASE SomebodyActs
    BY <1>4 DEF SomebodyActs, Interfere
  <1>5. ASSUME NEW o \in Operators, Script(o) PROVE JobFirst'
    <2>1. \A p \in Operators : p # o => op'[p] = op[p]
      BY <1>5, ScriptMoves
    <2>2. ASSUME op'[o].step \notin {"again", "grant"}, UNCHANGED <<job, tables, granted>>
          PROVE  JobFirst'
      BY <2>1, <2>2
    <2>3. CASE \E script \in Scripts : Begin(o, script)
      BY <1>0, <2>2, <2>3, ScriptsAssumption DEF Begin, Looks, Operation
    <2>4. CASE ReadObject(o)
      BY <1>0, <2>2, <2>4 DEF ReadObject, NextObject, Looks, Operation
    <2>5. CASE PatchObject(o) \/ CheckObject(o)
      BY <1>0, <2>2, <2>5 DEF PatchObject, CheckObject, NextObject, Operation
    <2>6. CASE CheckPods(o)
      BY <1>0, <2>2, <2>6 DEF CheckPods, Operation
    <2>7. CASE FindJob(o)
      BY <1>0, <2>2, <2>7 DEF FindJob, Go, Looks, Operation
    <2>8. CASE CreateJob(o)
      <3>1. op'[o].step = "await"
        BY <1>0, <2>8 DEF CreateJob, Go, Operation
      <3> QED
        BY <2>1, <2>8, <3>1 DEF CreateJob
    <2>9. CASE AwaitJob(o) \/ ReadJobAgain(o)
      <3>1. job = "complete" /\ UNCHANGED <<job, tables, granted>>
        BY <2>9 DEF AwaitJob, ReadJobAgain, JobSucceeded, Looks
      <3> QED
        BY <2>1, <3>1
    <2>10. CASE GrantRuntime(o)
      <3>1. job = "complete" /\ op'[o].step = "verify" /\ UNCHANGED <<job, tables>>
        BY <1>0, <2>10 DEF GrantRuntime, Go, Operation
      <3> QED
        BY <2>1, <3>1
    <2>11. CASE VerifyRuntime(o) \/ Fail(o)
      BY <1>0, <2>2, <2>11 DEF VerifyRuntime, Fail, End, Looks, Idle, Operation
    <2> QED
      BY <1>5, <2>3, <2>4, <2>5, <2>6, <2>7, <2>8, <2>9, <2>10, <2>11 DEF Script
  <1>6. CASE UNCHANGED vars
    BY <1>1, <1>6 DEF vars
  <1> QED
    BY <1>2, <1>3, <1>4, <1>5, <1>6 DEF Next

-----------------------------------------------------------------------------
(* What a check has found. *)

\* Only people can disturb an object at rest whose reconcilers are at rest.
LEMMA RestKept ==
    ASSUME TypeOK, VersionsSeen, [Next]_vars, ~SomebodyActs
    PROVE  /\ AtRest("root") => AtRest("root")'
           /\ AtRest("root") /\ AtRest("child") => AtRest("child")'
           /\ AtRest("child") /\ AtRest("deployment") => AtRest("deployment")'
  <1> DEFINE Goal == /\ AtRest("root") => AtRest("root")'
                     /\ AtRest("root") /\ AtRest("child") => AtRest("child")'
                     /\ AtRest("child") /\ AtRest("deployment") => AtRest("deployment")'
  <1>0. obj \in [Resources -> Object]
    BY DEF TypeOK, ClusterTypeOK
  <1> SUFFICES Goal
    OBVIOUS
  <1>1. CASE UNCHANGED <<obj, missing>>
    BY <1>1 DEF AtRest, Paused, ApplicationIdentified, Identified
  <1>2. ASSUME missing' = missing,
               \A r \in Resources : AtRest(r) =>
                  /\ obj'[r].switch = obj[r].switch /\ obj'[r].phase = obj[r].phase
                  /\ obj'[r].rest = obj[r].rest
        PROVE  Goal
    BY <1>2, Names DEF AtRest, Paused, ApplicationIdentified, Identified
  <1>3. CASE Report
    <2> DEFINE new == [obj["deployment"] EXCEPT
                          !.status = IF "running" \in pods THEN "ready" ELSE "stopped"]
    <2>1. new.switch = obj["deployment"].switch
      BY <1>0, Names DEF Object
    <2>2. Store("deployment", new) /\ missing' = missing
      BY <1>3 DEF Report
    <2> HIDE DEF new
    <2>3. obj' = [obj EXCEPT !["deployment"] = [new EXCEPT !.rv = rev + 1]]
      BY <2>2 DEF Store
    <2>4. \A a \in Applications : obj'[a] = obj[a]
      BY <1>0, <2>3, Names
    <2>5. new \in Object
      BY <1>0, Names DEF new, Object
    <2>6. obj'["deployment"].switch = obj["deployment"].switch
      BY <1>0, <2>1, <2>3, <2>5, Names DEF Object
    <2> QED
      BY <2>2, <2>4, <2>6, Names DEF AtRest, Paused, ApplicationIdentified, Identified
  <1>4. CASE Argo
    <2>1. PICK a \in Applications \ missing :
             \/ /\ \/ Refresh(a, "ready") \/ SyncFinish(a, "ready")
                   \/ obj[a].switch = "on" /\ SyncStart(a)
                /\ UNCHANGED missing
             \/ /\ \E switch \in {"on", "off"}, rest \in Rests : SyncApply(a, switch, rest)
                /\ missing' = missing \ {IF a = "root" THEN "child" ELSE "deployment"}
      BY <1>4 DEF Argo
    <2>2. a \in Resources /\ obj[a] \in Object /\ a # "deployment"
      BY <1>0, <2>1, Names
    <2>3. ASSUME AtRest(a)
          PROVE  obj[a].switch = "off" /\ obj[a].phase # "syncing"
      BY <2>1, <2>2, <2>3 DEF AtRest, Paused, ApplicationIdentified
    <2>4. CASE UNCHANGED missing
                 /\ (Refresh(a, "ready") \/ SyncFinish(a, "ready")
                        \/ (obj[a].switch = "on" /\ SyncStart(a)))
      <3>1. \A r \in Resources : r # a => obj'[r] = obj[r]
        BY <1>0, <2>2, <2>4 DEF Refresh, SyncFinish, SyncStart, Store
      <3>2. ASSUME AtRest(a)
            PROVE  /\ obj'[a].switch = obj[a].switch /\ obj'[a].phase = obj[a].phase
                   /\ obj'[a].rest = obj[a].rest
        <4>1. Refresh(a, "ready")
          BY <2>3, <2>4, <3>2 DEF SyncFinish
        <4>2. obj' = [obj EXCEPT ![a] = [obj[a] EXCEPT !.status = "ready", !.rv = rev + 1]]
          BY <2>2, <4>1 DEF Refresh, Store, Object
        <4> QED
          BY <1>0, <2>2, <4>2 DEF Object
      <3> QED
        BY <1>2, <2>4, <3>1, <3>2
    <2>5. ASSUME NEW switch \in {"on", "off"}, NEW rest \in Rests, SyncApply(a, switch, rest),
                 missing' = missing \ {IF a = "root" THEN "child" ELSE "deployment"}
          PROVE  Goal
      <3>1. ~AtRest(a)
        BY <2>3, <2>5 DEF SyncApply
      <3> DEFINE b == IF a = "root" THEN "child" ELSE "deployment"
      <3>2. b \in Resources /\ \A r \in Resources : r # b => obj'[r] = obj[r]
        BY <1>0, <2>5, Names DEF SyncApply, Specify, Store
      <3>3. CASE a = "root"
        BY <2>5, <3>1, <3>2, <3>3, Names DEF AtRest, Paused, ApplicationIdentified, Identified
      <3>4. CASE a = "child"
        BY <2>5, <3>1, <3>2, <3>4, Names DEF AtRest, Paused, ApplicationIdentified, Identified
      <3> QED
        BY <2>1, <3>3, <3>4, Names
    <2> QED
      BY <2>1, <2>4, <2>5
  <1>5. ASSUME NEW o \in Operators, Script(o) PROVE Goal
    <2>1. CASE PatchObject(o)
      <3>1. Resource(o) \in Resources
        BY ResourceTyped
      <3>2. /\ missing' = missing
            /\ \A r \in Resources : r # Resource(o) => obj'[r] = obj[r]
            /\ obj'[Resource(o)].switch = "off"
            /\ obj'[Resource(o)].rest = obj[Resource(o)].rest
            /\ obj'[Resource(o)].phase = obj[Resource(o)].phase
            /\ Resource(o) \notin missing
        BY <2>1, PatchOnlySwitchesOff, PatchIsOfVersionRead DEF PatchObject
      <3>3. AtRest(Resource(o)) => obj[Resource(o)].switch = "off"
        BY <3>2 DEF AtRest, Paused
      <3> QED
        BY <1>2, <3>1, <3>2, <3>3
    <2>2. CASE UNCHANGED <<obj, missing>>
      BY <1>1, <2>2
    <2> QED
      BY <1>5, <2>1, <2>2
         DEF Script, Begin, ReadObject, CheckObject, CheckPods, FindJob, CreateJob, AwaitJob,
             ReadJobAgain, GrantRuntime, VerifyRuntime, Fail, Looks, clusterVars
  <1> QED
    BY <1>1, <1>3, <1>4, <1>5
       DEF Next, TellReplicaSet, PodStarts, PodStops, PodGone, RemovePod, JobEnds, PodStep,
           clusterVars, vars
\* Objects are looked at in order.
LEMMA FoundInOrder ==
    ASSUME TypeOK, NEW o \in Operators
    PROVE  /\ Found(o) \subseteq Resources
           /\ "child" \in Found(o) => "root" \in Found(o)
           /\ "deployment" \in Found(o) => "child" \in Found(o) /\ "root" \in Found(o)
           /\ At(o, "pods") \/ op[o].passed => Found(o) = Resources
  <1>1. op[o].at \in 1..3
    BY ResourceTyped
  <1>2. \A j \in 1..3 : j = 1 \/ j = 2 \/ j = 3
    OBVIOUS
  <1>3. Found(o) \subseteq Resources
    BY <1>2, Names DEF Found
  <1>4. "root" \in Found(o) <=> op[o].passed \/ At(o, "pods") \/ (At(o, "check") /\ 1 < op[o].at)
    BY <1>2, Names DEF Found
  <1>5. "child" \in Found(o) <=> op[o].passed \/ At(o, "pods") \/ (At(o, "check") /\ 2 < op[o].at)
    BY <1>2, Names DEF Found
  <1>6. "deployment" \in Found(o) <=> op[o].passed \/ At(o, "pods")
                                         \/ (At(o, "check") /\ 3 < op[o].at)
    BY <1>2, Names DEF Found
  <1>7. op[o].passed \/ At(o, "pods") => Found(o) = Resources
    BY <1>3, <1>4, <1>5, <1>6, Names
  <1>8. /\ 2 < op[o].at => 1 < op[o].at
        /\ 3 < op[o].at => 1 < op[o].at /\ 2 < op[o].at
    BY <1>1
  <1>9. /\ "child" \in Found(o) => "root" \in Found(o)
        /\ "deployment" \in Found(o) => "child" \in Found(o) /\ "root" \in Found(o)
    BY <1>4, <1>5, <1>6, <1>8
  <1> QED
    BY <1>3, <1>7, <1>9

\* What was found at rest is so until somebody acts.
LEMMA FoundKept ==
    ASSUME TypeOK, VersionsSeen, FoundAtRest, [Next]_vars, ~SomebodyActs,
           NEW o \in untouched, NEW r \in Found(o)
    PROVE  AtRest(r)'
  <1>1. o \in Operators
    BY DEF TypeOK
  <1>2. \A s \in Found(o) : AtRest(s)
    BY <1>1 DEF FoundAtRest
  <1>3. r = "root" \/ r = "child" \/ r = "deployment"
    BY <1>1, FoundInOrder, Names
  <1> QED
    BY <1>1, <1>2, <1>3, FoundInOrder, RestKept

LEMMA NextFoundAtRest ==
    ASSUME TypeOK, VersionsDrawn, VersionsSeen, FoundAtRest, [Next]_vars
    PROVE  FoundAtRest'
  <1>0. op \in [Operators -> Operation] /\ untouched \subseteq Operators /\ TypeOK'
    BY NextTyped DEF TypeOK
  <1> DEFINE Before(o) == op[o].step \in {"idle", "read", "patch", "check", "pods"}
             Starting(o) == op[o].step \in {"idle", "read", "patch"}
             Held(o) == op[o].passed /\ o \notin unsettled => replicaset = "off" /\ pods = {}
             Claim(o) == /\ op[o].passed => ~Before(o)
                         /\ o \in untouched =>
                               /\ ~Starting(o)
                               /\ \A r \in Found(o) : AtRest(r)
                               /\ Held(o)
  <1>1. \A o \in Operators : Claim(o)
    BY DEF FoundAtRest
  <1> SUFFICES \A o \in Operators : Claim(o)'
    BY DEF FoundAtRest
  <1>2. ASSUME ~SomebodyActs, NEW o \in Operators, op'[o] = op[o],
               o \in untouched' => o \in untouched, Held(o) => Held(o)'
        PROVE  Claim(o)'
    <2>1. Found(o)' = Found(o)
      BY <1>2 DEF Found, At
    <2> HIDE DEF Held
    <2>2. ASSUME o \in untouched' PROVE \A r \in Found(o)' : AtRest(r)'
      BY <1>2, <2>1, <2>2, FoundKept
    <2> QED
      BY <1>1, <1>2, <2>2
  <1>3. ASSUME ~SomebodyActs, op' = op, untouched' = untouched, unsettled' = unsettled,
               NEW o \in Operators,
               \A p \in untouched \ unsettled :
                   op[p].passed => replicaset' = "off" /\ pods' = {}
        PROVE  Claim(o)'
    BY <1>1, <1>2, <1>3
  <1>4. ASSUME NEW o \in untouched \ unsettled, op[o].passed
        PROVE  replicaset = "off" /\ pods = {} /\ Wanted = "off"
    <2>1. "deployment" \in Found(o) /\ o \in Operators
      BY <1>0, <1>4, FoundInOrder, Names
    <2> QED
      BY <1>1, <1>4, <2>1 DEF AtRest, Wanted
  <1>5. CASE SomebodyActs
    BY <1>1, <1>5 DEF SomebodyActs, Interfere
  <1>6. CASE ~SomebodyActs /\ (TellReplicaSet \/ PodStarts \/ PodStops \/ PodGone)
    <2>1. \A p \in untouched \ unsettled : op[p].passed => replicaset' = "off" /\ pods' = {}
      BY <1>4, <1>6
         DEF TellReplicaSet, PodStarts, PodStops, PodGone, RemovePod, PodStep, clusterVars
    <2> QED
      BY <1>3, <1>6, <2>1
         DEF TellReplicaSet, PodStarts, PodStops, PodGone, PodStep, scriptVars
  <1>7. CASE ~SomebodyActs /\ (Report \/ JobEnds \/ Argo)
    <2>1. UNCHANGED <<replicaset, pods>> /\ UNCHANGED <<op, untouched, unsettled>>
      BY <1>7 DEF Report, JobEnds, Argo, Refresh, SyncStart, SyncApply, SyncFinish, scriptVars,
                  clusterVars
    <2> QED
      BY <1>3, <1>4, <1>7, <2>1
  <1>8. ASSUME ~SomebodyActs, NEW q \in Operators, Script(q), NEW o \in Operators
        PROVE  Claim(o)'
    <2>1. UNCHANGED <<pods, replicaset>>
      BY <1>8 DEF Script, Begin, ReadObject, PatchObject, CheckObject, CheckPods, FindJob, CreateJob,
                  AwaitJob, ReadJobAgain, GrantRuntime, VerifyRuntime, Fail, Looks, clusterVars
    <2>2. \A p \in Operators : p # q => op'[p] = op[p]
      BY <1>8, ScriptMoves
    <2>3. /\ \A p \in Operators : p # q /\ p \in untouched' => p \in untouched
          /\ unsettled \subseteq unsettled' /\ unsettled' \subseteq unsettled \cup {q}
      BY <1>8 DEF Script, Begin, ReadObject, PatchObject, CheckObject, CheckPods, FindJob, CreateJob,
                  AwaitJob, ReadJobAgain, GrantRuntime, VerifyRuntime, Fail, Looks, historyVars
    <2>4. CASE o # q
      BY <1>2, <1>8, <2>1, <2>2, <2>3, <2>4
    <2>5. CASE o = q
      <3>0. op[o] \in Operation /\ op[o].at \in 1..3
        BY ResourceTyped
      <3>1. ASSUME ~op[o].passed, op'[o].passed = FALSE, untouched' = untouched,
                   o \notin untouched
            PROVE  Claim(o)'
        BY <3>1
      <3>2. ASSUME untouched' = untouched, op'[o].passed = op[o].passed,
                   op'[o].step \notin {"idle", "read", "patch", "check", "pods"}
            PROVE  Claim(o)'
        <4>1. Found(o)' \subseteq Found(o)
          BY <3>2 DEF Found, At
        <4> HIDE DEF Before, Starting
        <4>2. ~Before(o)' /\ ~Starting(o)'
          BY <3>2 DEF Before, Starting
        <4>3. o \in untouched => Held(o)'
          BY <1>1, <2>1, <2>3, <3>2
        <4> QED
          BY <1>8, <3>2, <4>1, <4>2, <4>3, FoundKept
      <3>3. CASE \E script \in Scripts : Begin(o, script)
        BY <1>0, <1>1, <3>0, <3>1, <3>3 DEF Begin, At, Looks, historyVars, Operation
      <3>4. CASE ReadObject(o)
        <4>1. op'[o].passed = op[o].passed /\ At(o, "read") /\ untouched' = untouched
          BY <1>0, <3>4 DEF ReadObject, NextObject, Looks, historyVars, Operation
        <4> QED
          BY <1>1, <3>0, <3>1, <4>1 DEF At, Operation
      <3>5. CASE PatchObject(o)
        <4>1. op'[o].passed = op[o].passed /\ At(o, "patch") /\ untouched' = untouched
          BY <1>0, <3>5 DEF PatchObject, NextObject, historyVars, Operation
        <4> QED
          BY <1>1, <3>0, <3>1, <4>1 DEF At, Operation
      <3>6. CASE CheckObject(o)
        <4>1. /\ At(o, "check") /\ ~op[o].passed /\ op'[o].passed = op[o].passed
              /\ op'[o].step = IF op[o].at = 3 THEN "pods" ELSE "check"
              /\ op'[o].at = IF op[o].at = 3 THEN 1 ELSE op[o].at + 1
          BY <1>0, <1>1, <3>6, Names DEF CheckObject, NextObject, Last, At, Operation
        <4>2. obj' = obj /\ missing' = missing
          BY <3>6 DEF CheckObject, clusterVars
        <4>3. AtRest(Resource(o))
          BY <3>6, Names DEF CheckObject, AtRest, Valid, QuietObject, Paused
        <4>4. Found(o)' \subseteq Found(o) \cup {Resource(o)}
          <5>1. \A j \in 1..3 : j = 1 \/ j = 2 \/ j = 3
            OBVIOUS
          <5>2. \A r \in Found(o)' : \E j \in 1..3 : r = Order[j] /\ (op[o].at = 3 \/ j < op[o].at + 1)
            BY <3>0, <4>1 DEF Found, At, Operation
          <5>3. \A j \in 1..3 : j < op[o].at => Order[j] \in Found(o)
            BY <4>1 DEF Found
          <5>4. Order[op[o].at] = Resource(o)
            BY DEF Resource
          <5> QED
            BY <3>0, <5>1, <5>2, <5>3, <5>4
        <4>5. op[o].at = 1 => Found(o) = {}
          BY <3>0, <4>1 DEF Found, At, Operation
        <4>6. o \in untouched' => op[o].at = 1 \/ o \in untouched
          BY <3>6 DEF CheckObject
        <4>7. o \in untouched' => \A r \in Found(o) : AtRest(r)
          BY <1>1, <4>5, <4>6
        <4>8. \A r \in Resources : AtRest(r)' <=> AtRest(r)
          BY <4>2 DEF AtRest, Paused, ApplicationIdentified, Identified
        <4>9. Found(o)' \subseteq Resources
          BY <1>0, FoundInOrder, ResourceTyped, <4>4
        <4> HIDE DEF Held
        <4>10. Held(o)'
          BY <3>0, <4>1 DEF Held, Operation
        <4>11. o \in untouched' => \A r \in Found(o)' : AtRest(r)'
          BY <4>3, <4>4, <4>7, <4>8, <4>9
        <4> QED
          BY <4>1, <4>10, <4>11
      <3>7. CASE CheckPods(o)
        <4>1. /\ At(o, "pods") /\ op'[o].step \in {"done", "job"} /\ op'[o].passed = TRUE
              /\ pods = {} /\ untouched' = untouched
              /\ replicaset = "off" \/ o \in unsettled' \/ o \notin untouched
          BY <1>0, <3>7 DEF CheckPods, Operation
        <4>2. Found(o) = Resources /\ Found(o)' \subseteq Resources
          BY <1>0, <4>1, FoundInOrder, FoundInOrder DEF Found, At
        <4> HIDE DEF Held, Before, Starting
        <4>3. ~Before(o)' /\ ~Starting(o)'
          BY <4>1 DEF Before, Starting
        <4>4. o \in untouched' => Held(o)'
          BY <2>1, <4>1 DEF Held
        <4> QED
          BY <1>8, <4>1, <4>2, <4>3, <4>4, FoundKept
      <3>8. CASE FindJob(o) \/ AwaitJob(o) \/ ReadJobAgain(o) \/ CreateJob(o) \/ GrantRuntime(o)
        BY <1>0, <3>2, <3>8 DEF FindJob, AwaitJob, ReadJobAgain, CreateJob, GrantRuntime, Go, Looks,
                                Operation, historyVars
      <3>9. CASE VerifyRuntime(o) \/ Fail(o)
        <4>1. untouched' = untouched /\ \E step \in {"done", "failed"} : End(o, step)
          BY <3>9 DEF VerifyRuntime, Fail, Looks, historyVars
        <4>2. PICK step \in {"done", "failed"} :
                 op' = [op EXCEPT ![o] = [Idle EXCEPT !.step = step, !.passed = op[o].passed]]
          BY <4>1 DEF End
        <4>3. op'[o] = [Idle EXCEPT !.step = step, !.passed = op[o].passed]
          BY <1>0, <4>2
        <4>4. op'[o].step = step /\ op'[o].passed = op[o].passed
          BY <4>3 DEF Idle
        <4> QED
          BY <3>2, <4>1, <4>4
      <3> QED
        BY <1>8, <2>5, <3>3, <3>4, <3>5, <3>6, <3>7, <3>8, <3>9 DEF Script
    <2> QED
      BY <2>4, <2>5
  <1>9. CASE ~SomebodyActs /\ UNCHANGED vars
    BY <1>3, <1>4, <1>9 DEF vars, clusterVars
  <1> QED
    BY <1>5, <1>6, <1>7, <1>8, <1>9 DEF Next

-----------------------------------------------------------------------------
LEMMA InitInvariant == Init => OperatorInv
  <1> SUFFICES ASSUME Init PROVE OperatorInv
    OBVIOUS
  <1>1. TypeOK /\ VersionsDrawn
    BY InitTyped
  <1>2. \A o \in Operators : op[o].step = "idle" /\ op[o].passed = FALSE
    BY DEF Init, Idle
  <1>3. untouched = {} /\ unsettled = {} /\ job = "none" /\ granted = FALSE
    BY DEF Init
  <1> QED
    BY <1>1, <1>2, <1>3 DEF OperatorInv, VersionsSeen, JobFirst, FoundAtRest, At

LEMMA NextInvariant == OperatorInv /\ [Next]_vars => OperatorInv'
  BY NextTyped, NextVersionsSeen, NextJobFirst, NextFoundAtRest DEF OperatorInv

\* The inductive invariant holds whatever operators, scripts and others do.
THEOREM Invariance == Spec => []OperatorInv
  BY InitInvariant, NextInvariant, PTL DEF Spec

\* A single passing look at the four objects, however the reads interleave with
\* the reconcilers, finds switches that stay off until somebody else acts, and
\* Pods that stay away provided the ReplicaSet had been told before the look.
THEOREM QuietOutlasts == Spec => []QuietHolds
  <1>1. OperatorInv => QuietHolds
    <2> SUFFICES ASSUME OperatorInv, NEW o \in untouched, op[o].passed
                 PROVE  /\ \A a \in Applications \ missing : Paused(obj[a])
                        /\ Wanted = "off" /\ (o \in unsettled \/ pods = {})
      BY DEF QuietHolds
    <2>1. o \in Operators /\ TypeOK
      BY DEF OperatorInv, TypeOK
    <2>2. Found(o) = Resources
      BY <2>1, FoundInOrder
    <2>3. (\A r \in Resources : AtRest(r)) /\ (o \in unsettled \/ pods = {})
      BY <2>1, <2>2 DEF OperatorInv, FoundAtRest
    <2> QED
      BY <2>3, Names DEF AtRest, Wanted
  <1> QED
    BY <1>1, Invariance, PTL

\* However many deployments run at once, privileges follow a complete migration.
THEOREM GrantsAreOrdered == Spec => []GrantsFollowMigration
  <1>1. OperatorInv => GrantsFollowMigration
    BY DEF OperatorInv, JobFirst, GrantsFollowMigration
  <1> QED
    BY <1>1, Invariance, PTL

\* No script's step changes anything of an object but its switch, to off, even
\* where others wrote to the object after the script had read it.
THEOREM PatchesOnlySwitchOff == Spec => ScriptsOnlySwitchOff
  <1> DEFINE Change ==
               op' # op =>
                 \A r \in Resources :
                    obj'[r] # obj[r] =>
                       /\ obj'[r].switch = "off"
                       /\ <<obj'[r].rest, obj'[r].uid, obj'[r].phase>>
                              = <<obj[r].rest, obj[r].uid, obj[r].phase>>
  <1>1. ASSUME OperatorInv, [Next]_vars PROVE [Change]_vars
    <2> SUFFICES ASSUME op' # op PROVE Change
      OBVIOUS
    <2>1. PICK o \in Operators : Script(o)
      BY <1>1 DEF Next, TellReplicaSet, PodStarts, PodStops, PodGone, PodStep, Report, JobEnds,
                  Argo, SomebodyActs, Interfere, scriptVars, vars
    <2>2. CASE PatchObject(o)
      BY <1>1, <2>1, <2>2, PatchOnlySwitchesOff, PatchIsOfVersionRead DEF OperatorInv
    <2>3. CASE obj' = obj
      BY <2>3
    <2> QED
      BY <2>1, <2>2, <2>3
         DEF Script, Begin, ReadObject, CheckObject, CheckPods, FindJob, CreateJob, AwaitJob,
             ReadJobAgain, GrantRuntime, VerifyRuntime, Fail, Looks, clusterVars
  <1>2. OperatorInv /\ [Next]_vars => [Change]_vars
    BY <1>1
  <1> QED
    BY <1>2, Invariance, PTL DEF Spec, ScriptsOnlySwitchOff
=============================================================================
