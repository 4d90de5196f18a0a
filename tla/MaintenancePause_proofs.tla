----------------------- MODULE MaintenancePause_proofs -----------------------
(***************************************************************************)
(* IInv is an inductive invariant of MaintenancePause for any set of runs, *)
(* any number of attempts and any amount of meddling, and it implies the   *)
(* safety properties that the runs check.                                  *)
(***************************************************************************)
EXTENDS MaintenancePause, ControlPlaneObjects_proofs

LEMMA Names ==
    /\ "root" \in Resources /\ "child" \in Resources /\ "deployment" \in Resources
    /\ Applications \subseteq Resources
    /\ \A r \in Resources : r = "root" \/ r = "child" \/ r = "deployment"
    /\ \A r \in Resources : r # "deployment" => Following[r] \in Resources
    /\ Following["root"] = "child" /\ Following["child"] = "deployment"
  BY DEF Resources, Applications, Following

LEMMA NothingTyped ==
    Nothing \in [Resources -> Object] /\ \A r \in Resources : Nothing[r].rv = 0
  <1>1. (CHOOSE rest \in Rests : TRUE) \in Rests
    BY RestsAssumption
  <1> QED
    BY <1>1 DEF Nothing, Object

\* The steps that establish the baseline only read: the cluster, the ledger, the
\* patches and the observation of quiescence stay as they are.
BaselineStep ==
    \/ ReadApplication \/ ReadDeployment \/ ReadRoot
    \/ ReadPointer \/ ReadReceipt \/ AcceptBaseline

BaselineSteps == {"application", "deployment", "root", "pointer", "receipt", "root-after"}

LEMMA BaselineStepKeeps ==
    ASSUME BaselineStep
    PROVE  /\ UNCHANGED <<clusterVars, ledger, outcome, holder, kind, seen, before, podList,
                          after, attempt, requests, commits, instant, checkpoints>>
           /\ pc \in BaselineSteps
           /\ pc' \in (BaselineSteps \ {"application"}) \cup {"guard"}
           /\ target' \in {"root", "deployment"}
           /\ pc' = "guard" => target' = "root"
  BY DEF BaselineStep, ReadApplication, ReadDeployment, ReadRoot, ReadPointer, ReadReceipt,
         AcceptBaseline, BaselineUnchanged, ReadingUnchanged, BaselineSteps, Goto

\* Who writes the ledger writes nothing else of this module's.
LEMMA LedgerWriteKeeps ==
    ASSUME LedgerWrite
    PROVE  /\ UNCHANGED <<obj, pods, outcome, holder, kind, pc, target, base, pointerRead,
                          receiptRead, baseline, seen, before, podList, after, attempt,
                          instant, requests, commits, checkpoints>>
           /\ rev' = rev + 1
  BY DEF LedgerWrite, stepVars, records

\* Patches take effect in Commit only, and checkpoints appear in Publish only.
LEMMA OnlyCommitCommits ==
    ASSUME [Next]_vars, commits' # commits
    PROVE  \E q \in requests, again \in BOOLEAN : Commit(q, again)
  BY BaselineStepKeeps, LedgerWriteKeeps
     DEF Next, RunStep, BaselineStep, runVars, vars, Start, Stop, Guard, Patch, Discard,
         Collect, ListPods, Recollect, Retry, Publish

LEMMA OnlyPublishPublishes ==
    ASSUME [Next]_vars, checkpoints' # checkpoints
    PROVE  Publish
  BY BaselineStepKeeps, LedgerWriteKeeps
     DEF Next, RunStep, BaselineStep, runVars, vars, Start, Stop, Guard, Patch, Commit,
         Discard, Collect, ListPods, Recollect, Retry

LEMMA NoneRead == NoReceipt \in Receipt /\ NoBaseline \in Baseline
  BY DEF NoReceipt, NoBaseline, Receipt, Baseline

-----------------------------------------------------------------------------
(* Types. *)

LEMMA InitTyped == Init => TypeOK /\ VersionsDrawn
  <1> SUFFICES ASSUME Init PROVE TypeOK /\ VersionsDrawn
    OBVIOUS
  <1>1. ClusterTypeOK /\ VersionsDrawn
    <2>1. PICK switch \in [Resources -> {"on", "off"}], rest \in OwnedRests :
              /\ obj = [r \in Resources |->
                          [uid |-> 1, rv |-> 1, switch |-> switch[r], rest |-> rest,
                           phase |-> "settled",
                           status |-> IF r = "deployment" /\ switch[r] = "off"
                                      THEN "stopped" ELSE "ready"]]
              /\ pods = IF switch["deployment"] = "on" THEN {"running"} ELSE {}
      BY DEF Init, ClusterInit
    <2>2. rest \in Rests
      BY RestsAssumption
    <2>3. obj \in [Resources -> Object] /\ VersionsDrawn
      BY <2>1, <2>2 DEF Init, ClusterInit, Object, VersionsDrawn
    <2> QED
      BY <2>1, <2>3, MeddlingAssumption DEF Init, ClusterInit, ClusterTypeOK, PodStates
  <1>2. /\ receipts \in SUBSET Receipt /\ pointers \in SUBSET Nat
        /\ pointerRead \in Nat /\ receiptRead \in Receipt /\ baseline \in Baseline
    BY NoneRead DEF Init, Receipt
  <1>3. attempt \in 0..Attempts
    BY AttemptsAssumption DEF Init
  <1> QED
    BY <1>1, <1>2, <1>3, NothingTyped, Names DEF Init, TypeOK, Steps

\* Every step keeps the types and moves the versions of the objects forward only.
LEMMA NextTyped ==
    ASSUME TypeOK, VersionsDrawn, MutexHeld, [Next]_vars
    PROVE  TypeOK' /\ VersionsDrawn' /\ Forward
  <1> USE DEF TypeOK, Goto, ledger, records
  <1>0. ASSUME UNCHANGED clusterVars PROVE ClusterTypeOK' /\ VersionsDrawn' /\ Forward
    BY <1>0 DEF clusterVars, ClusterTypeOK, VersionsDrawn, Forward, NoNewer
  <1>a. pc # "idle" => holder \in Runs
    BY DEF MutexHeld
  <1>b. obj \in [Resources -> Object] /\ pods \in SUBSET PodStates
    BY DEF ClusterTypeOK
  <1>1. CASE ClusterNext /\ UNCHANGED runVars
    <2>1. ClusterTypeOK' /\ VersionsDrawn' /\ Forward
      BY <1>1, ClusterForward
    <2> QED
      BY <1>1, <2>1 DEF runVars, stepVars
  <1>2. ASSUME NEW w \in Runs, NEW k \in Kinds, Start(w, k)
        PROVE  TypeOK' /\ VersionsDrawn' /\ Forward
    BY <1>0, <1>2, Names, KindsAssumption, AttemptsAssumption DEF Start, Steps
  <1>3. CASE Stop
    <2>1. Cleared
      BY <1>3 DEF Stop, End
    <2>2. holder \in Runs
      BY <1>3 DEF Stop
    <2> QED
      BY <1>0, <1>3, <2>1, <2>2, NothingTyped, NoneRead, Names, AttemptsAssumption
         DEF Stop, End, Cleared, Steps
  <1>4. CASE BaselineStep
    <2>1. /\ base' \in [Resources -> Object] /\ pointerRead' \in Nat /\ receiptRead' \in Receipt
          /\ pc' \in Steps /\ target' \in Resources
      BY <1>b, <1>4, Names
         DEF BaselineStep, ReadApplication, ReadDeployment, ReadRoot, ReadPointer,
             ReadReceipt, AcceptBaseline, Observe, BaselineUnchanged, ReadingUnchanged, Steps
    <2>2. baseline' \in Baseline
      <3>1. CASE ReadPointer
        <4>1. [a \in Applications |-> obj[a].uid] \in [Applications -> Nat]
          BY <1>b, Names DEF Object
        <4> QED
          BY <3>1, <4>1 DEF ReadPointer, Baseline
      <3>2. CASE ~ReadPointer
        BY <1>4, <3>2
           DEF BaselineStep, ReadApplication, ReadDeployment, ReadRoot, ReadReceipt,
               AcceptBaseline, BaselineUnchanged
      <3> QED
        BY <3>1, <3>2
    <2> QED
      BY <1>0, <1>4, <2>1, <2>2, BaselineStepKeeps
  <1>5. CASE Guard
    BY <1>0, <1>b, <1>5 DEF Guard, Steps
  <1>6. CASE Patch
    BY <1>0, <1>a, <1>6 DEF Patch, Steps, Request
  <1>7. ASSUME NEW q \in requests, NEW again \in BOOLEAN, Commit(q, again)
        PROVE  TypeOK' /\ VersionsDrawn' /\ Forward
    <2>1. q \in Request /\ obj[q.res] \in Object
      BY <1>b DEF Request
    <2>2. obj[q.res].rest \in Rests
      BY <2>1 DEF Object
    <2>3. /\ obj' \in [Resources -> Object] /\ rev' \in Nat
          /\ VersionsDrawn' /\ Forward
      BY <1>7, <2>1, <2>2, SpecifyForward DEF Commit, Request
    <2>4. ClusterTypeOK'
      BY <1>7, <2>3 DEF Commit, ClusterTypeOK
    <2>5. commits' \in SUBSET Committed /\ requests' \in SUBSET Request
      BY <1>7, <2>1 DEF Commit, Committed, Request
    <2>6. pc' \in Steps /\ target' \in Resources /\ attempt' \in 0..Attempts
      BY <1>7, <2>1, Names, AttemptsAssumption DEF Commit, Respond, Request, Steps
    <2> QED
      BY <1>7, <2>3, <2>4, <2>5, <2>6 DEF Commit
  <1>8. ASSUME NEW q \in requests, Discard(q)
        PROVE  TypeOK' /\ VersionsDrawn' /\ Forward
    BY <1>0, <1>8 DEF Discard, stepVars
  <1>9. CASE Collect \/ ListPods \/ Recollect
    <2>1. CASE Collect
      BY <1>0, <1>b, <2>1, Names DEF Collect, Steps
    <2>2. CASE ListPods
      BY <1>0, <1>b, <2>2, Names DEF ListPods, Steps
    <2>3. CASE Recollect
      BY <1>0, <1>b, <2>3, Names DEF Recollect, Steps
    <2> QED
      BY <1>9, <2>1, <2>2, <2>3
  <1>10. CASE Publish
    <2>1. checkpoints' \in SUBSET Checkpoint
      <3>1. holder \in Runs
        BY <1>a, <1>10 DEF Publish
      <3>2. [r \in Resources |-> Identity(before[r])] \in [Resources -> Nat \X Nat]
        BY DEF Identity, Object
      <3> QED
        BY <1>10, <3>1, <3>2 DEF Publish, Checkpoint
    <2>2. Cleared /\ UNCHANGED <<clusterVars, ledger, requests, commits>>
      BY <1>10 DEF Publish, End
    <2>3. /\ outcome' \in [Runs -> {"pending", "running", "succeeded", "failed"}]
          /\ holder' \in Runs \cup {NoRun}
      BY <1>10 DEF Publish, End
    <2> QED
      BY <1>0, <2>1, <2>2, <2>3, NothingTyped, NoneRead, Names, AttemptsAssumption
         DEF Cleared, Steps
  <1>11. CASE Retry
    BY <1>0, <1>11, NothingTyped, NoneRead, Names, AttemptsAssumption DEF Retry, Steps
  <1>12. CASE UNCHANGED vars
    BY <1>0, <1>12 DEF vars, runVars, stepVars
  <1>13. CASE LedgerWrite
    <2>1. UNCHANGED obj /\ UNCHANGED pods /\ rev' = rev + 1
      BY <1>13, LedgerWriteKeeps
    <2>2. meddled' \in 0..MaxMeddling
      BY <1>13, MeddlingAssumption DEF LedgerWrite, Meddle, ClusterTypeOK
    <2>3. ClusterTypeOK' /\ VersionsDrawn' /\ Forward
      <3>1. rev \in Nat /\ \A r \in Resources : obj[r].rv \in Nat
        BY <1>b DEF ClusterTypeOK, Object
      <3> QED
        BY <2>1, <2>2, <3>1 DEF ClusterTypeOK, VersionsDrawn, Forward, NoNewer
    <2>4. receipts' \in SUBSET Receipt /\ pointers' \in SUBSET Nat
      <3>1. rev + 1 \in Nat /\ \A a \in Applications : obj[a].uid \in Nat
        BY <1>b, Names DEF ClusterTypeOK, Object
      <3>2. \A r \in receipts : r.uid \in Nat
        BY DEF Receipt
      <3>3. \A u \in {0, obj["root"].uid} :
                [uid |-> rev + 1, adopted |-> [a \in Applications |->
                    IF a = "root" THEN u ELSE obj["child"].uid]] \in Receipt
        BY <3>1 DEF Receipt, Applications
      <3>4. receipts' \in SUBSET Receipt
        BY <1>13, <3>3 DEF LedgerWrite
      <3>5. pointers' \in SUBSET Nat
        <4>1. CASE UNCHANGED pointers
          BY <4>1
        <4>2. CASE pointers' \in {{}} \cup {{u} : u \in {0} \cup {r.uid : r \in receipts}}
          BY <3>2, <4>2
        <4> QED
          BY <1>13, <4>1, <4>2 DEF LedgerWrite
      <3> QED
        BY <3>4, <3>5
    <2> QED
      BY <1>13, <2>3, <2>4, LedgerWriteKeeps
  <1> QED
    BY <1>1, <1>2, <1>3, <1>4, <1>5, <1>6, <1>7, <1>8, <1>9, <1>10, <1>11, <1>12, <1>13
       DEF Next, RunStep, BaselineStep
-----------------------------------------------------------------------------
(* The mutex. *)

LEMMA NextMutexHeld ==
    ASSUME TypeOK, MutexHeld, [Next]_vars
    PROVE  MutexHeld'
  <1> USE DEF MutexHeld, Goto
  <1>1. CASE ClusterNext /\ UNCHANGED runVars
    BY <1>1 DEF runVars, stepVars
  <1>2. ASSUME NEW w \in Runs, NEW k \in Kinds, Start(w, k) PROVE MutexHeld'
    BY <1>2, NoRunAssumption DEF Start, TypeOK
  <1>3. CASE Stop
    BY <1>3, NoRunAssumption DEF Stop, End, Cleared, TypeOK
  <1>4. CASE BaselineStep
    BY <1>4, BaselineStepKeeps DEF BaselineSteps
  <1>5. CASE Guard
    BY <1>5 DEF Guard
  <1>6. CASE Patch
    BY <1>6 DEF Patch, TypeOK
  <1>7. ASSUME NEW q \in requests, NEW again \in BOOLEAN, Commit(q, again)
        PROVE  MutexHeld'
    <2>1. \A p \in requests' \cup commits' : outcome'[p.run] # "pending"
      BY <1>7 DEF Commit
    <2>2. /\ pc' = "idle" <=> pc = "idle"
          /\ pc' \in {"application", "deployment", "root", "pointer", "receipt",
                      "root-after", "guard", "pause", "wait"} => kind = "pause"
      BY <1>7 DEF Commit, Respond
    <2> QED
      BY <1>7, <2>1, <2>2 DEF Commit
  <1>8. ASSUME NEW q \in requests, Discard(q) PROVE MutexHeld'
    BY <1>8 DEF Discard, stepVars
  <1>9. CASE Collect \/ ListPods \/ Recollect
    BY <1>9 DEF Collect, ListPods, Recollect
  <1>10. CASE Publish
    BY <1>10, NoRunAssumption DEF Publish, End, Cleared, TypeOK
  <1>11. CASE Retry
    BY <1>11 DEF Retry
  <1>12. CASE UNCHANGED vars
    BY <1>12 DEF vars, runVars, stepVars
  <1>13. CASE LedgerWrite
    BY <1>13, LedgerWriteKeeps
  <1> QED
    BY <1>1, <1>2, <1>3, <1>4, <1>5, <1>6, <1>7, <1>8, <1>9, <1>10, <1>11, <1>12, <1>13
       DEF Next, RunStep, BaselineStep

-----------------------------------------------------------------------------
(* Readings, and what a checkpoint says of them. *)

LEMMA NextReadingsOrdered ==
    ASSUME TypeOK, VersionsDrawn, Forward, TypeOK', VersionsDrawn', ReadingsOrdered, [Next]_vars
    PROVE  ReadingsOrdered'
  <1> USE DEF Goto
  <1>1. \A r \in Resources : /\ obj[r] \in Object /\ obj'[r] \in Object
                             /\ before[r] \in Object /\ instant[r] \in Object
                             /\ after[r] \in Object
                             /\ 0 < obj[r].rv /\ 0 < obj'[r].rv
    BY DEF TypeOK, ClusterTypeOK, VersionsDrawn
  <1>2. \A r \in Resources : NoNewer(before[r], obj'[r]) /\ NoNewer(instant[r], obj'[r])
    BY <1>1, NoNewerTransitive DEF ReadingsOrdered, Forward
  <1>3. \A r \in Resources : NoNewer(Nothing[r], obj'[r])
    BY <1>1, NothingTyped DEF NoNewer
  <1>4. ASSUME UNCHANGED <<before, instant, after>>,
               \/ UNCHANGED <<pc, target>>
               \/ pc' \notin {"recollect", "verify"}
        PROVE  ReadingsOrdered'
    BY <1>2, <1>4 DEF ReadingsOrdered
  <1>5. ASSUME Cleared PROVE ReadingsOrdered'
    BY <1>3, <1>5 DEF Cleared, ReadingsOrdered
  <1>6. CASE ClusterNext /\ UNCHANGED runVars
    BY <1>4, <1>6 DEF runVars, stepVars
  <1>7. ASSUME NEW w \in Runs, NEW k \in Kinds, Start(w, k) PROVE ReadingsOrdered'
    BY <1>4, <1>7 DEF Start
  <1>8. CASE Stop \/ Publish
    BY <1>5, <1>8 DEF Stop, Publish, End
  <1>9. CASE BaselineStep
    BY <1>4, <1>9, BaselineStepKeeps DEF BaselineSteps
  <1>10. CASE Guard \/ Patch
    BY <1>4, <1>10 DEF Guard, Patch
  <1>11. ASSUME NEW q \in requests, NEW again \in BOOLEAN, Commit(q, again)
         PROVE  ReadingsOrdered'
    BY <1>4, <1>11 DEF Commit, Respond
  <1>12. ASSUME NEW q \in requests, Discard(q) PROVE ReadingsOrdered'
    BY <1>4, <1>12 DEF Discard, stepVars
  <1>13. CASE Collect
    <2>1. \A r \in Resources : before'[r] = IF r = target THEN obj[r] ELSE before[r]
      BY <1>13 DEF Collect, TypeOK
    <2> QED
      BY <1>2, <1>13, <2>1 DEF Collect, ReadingsOrdered, NoNewer, clusterVars
  <1>14. CASE ListPods
    BY <1>2, <1>14 DEF ListPods, ReadingsOrdered, NoNewer, clusterVars, Precedes
  <1>15. CASE Recollect
    <2>1. \A r \in Resources : after'[r] = IF r = target THEN obj[r] ELSE after[r]
      BY <1>15 DEF Recollect, TypeOK
    <2>2. \A r \in Resources :
             pc' = "verify" \/ (pc' = "recollect" /\ Precedes(r, target'))
                 => r = target \/ Precedes(r, target)
      BY <1>15, Names DEF Recollect, TypeOK, Precedes, Following
    <2>3. \A r \in Resources :
             pc' = "verify" \/ (pc' = "recollect" /\ Precedes(r, target'))
                 => NoNewer(instant[r], after'[r])
      BY <1>15, <2>1, <2>2 DEF Recollect, ReadingsOrdered
    <2> QED
      BY <1>2, <1>15, <2>3 DEF Recollect, ReadingsOrdered
  <1>16. CASE Retry
    BY <1>3, <1>16 DEF Retry, ReadingsOrdered, Precedes
  <1>17. CASE UNCHANGED vars
    BY <1>4, <1>17 DEF vars, runVars, stepVars
  <1>18. CASE LedgerWrite
    BY <1>4, <1>18, LedgerWriteKeeps
  <1> QED
    BY <1>6, <1>7, <1>8, <1>9, <1>10, <1>11, <1>12, <1>13, <1>14, <1>15, <1>16, <1>17,
       <1>18
       DEF Next, RunStep, BaselineStep

\* The double collect: identities that agree in the first and second readings
\* pin every reading in between.
LEMMA NextCheckpointSound ==
    ASSUME TypeOK, ReadingsOrdered, CheckpointSound, [Next]_vars
    PROVE  CheckpointSound'
  <1>1. CASE Publish
    <2>1. /\ pc = "verify" /\ Quiet(before, podList)
          /\ \A r \in Resources : Identity(after[r]) = Identity(before[r])
      BY <1>1 DEF Publish, Verified
    <2>2. \A r \in Resources : instant[r] = before[r]
      <3> TAKE r \in Resources
      <3>1. before[r].rv \in Nat /\ instant[r].rv \in Nat /\ after[r].rv = before[r].rv
        BY <2>1 DEF TypeOK, Object, Identity
      <3>2. NoNewer(before[r], instant[r]) /\ NoNewer(instant[r], after[r])
        BY <2>1 DEF ReadingsOrdered
      <3> QED
        BY <3>1, <3>2 DEF NoNewer
    <2>3. Quiet(instant, podList)
      BY <2>1, <2>2, Names DEF Quiet
    <2> QED
      BY <1>1, <2>2, <2>3 DEF Publish, CheckpointSound
  <1>2. CASE ~Publish
    <2>1. checkpoints' = checkpoints
      BY <1>2, OnlyPublishPublishes
    <2> QED
      BY <2>1 DEF CheckpointSound
  <1> QED
    BY <1>1, <1>2

-----------------------------------------------------------------------------
(* Patches. *)

\* All the actions that neither send nor commit a patch leave the requests that
\* are under way and the commits as they are, or drop a request.
QuietStep == requests' \subseteq requests /\ commits' = commits

LEMMA NextPatchesGuarded ==
    ASSUME TypeOK, TypeOK', Forward, PatchesGuarded, [Next]_vars
    PROVE  PatchesGuarded'
  <1> USE DEF Goto
  <1>1. \A r \in Resources : obj[r] \in Object /\ obj'[r] \in Object
    BY DEF TypeOK, ClusterTypeOK
  <1>2. \A q \in requests : q.res \in Resources /\ q.seen \in Object
    BY DEF TypeOK, Request
  <1>3. \A q \in requests : NoNewer(q.seen, obj'[q.res])
    BY <1>1, <1>2, NoNewerTransitive DEF PatchesGuarded, Forward
  <1>4. pc = "pause" => NoNewer(seen, obj'[target])
    BY <1>1, NoNewerTransitive DEF PatchesGuarded, Forward, TypeOK
  <1>5. ASSUME QuietStep, pc' # "pause" \/ UNCHANGED <<pc, target, seen, base>>
        PROVE  PatchesGuarded'
    BY <1>3, <1>4, <1>5 DEF PatchesGuarded, QuietStep
  <1>6. CASE ClusterNext /\ UNCHANGED runVars
    BY <1>5, <1>6 DEF QuietStep, runVars, stepVars
  <1>7. ASSUME NEW w \in Runs, NEW k \in Kinds, Start(w, k) PROVE PatchesGuarded'
    BY <1>5, <1>7 DEF QuietStep, Start
  <1>8. CASE Stop \/ Publish
    BY <1>5, <1>8 DEF QuietStep, Stop, Publish, End, Cleared
  <1>9. CASE BaselineStep
    BY <1>5, <1>9, BaselineStepKeeps DEF QuietStep, BaselineSteps
  <1>10. CASE Guard
    BY <1>3, <1>10 DEF Guard, PatchesGuarded, NoNewer, clusterVars
  <1>11. CASE Patch
    <2> DEFINE sent == [run |-> holder, res |-> target, seen |-> seen,
                        snapshot |-> base[target], baseline |-> baseline]
    <2>1. NoNewer(sent.seen, obj'[sent.res]) /\ Guarded(sent.res, sent.seen, sent.snapshot)
      BY <1>4, <1>11 DEF Patch, PatchesGuarded
    <2>2. requests' = requests \cup {sent} /\ pc' = "wait"
      BY <1>11 DEF Patch
    <2> HIDE DEF sent
    <2> QED
      BY <1>3, <2>1, <2>2 DEF PatchesGuarded
  <1>12. ASSUME NEW q \in requests, NEW again \in BOOLEAN, Commit(q, again)
         PROVE  PatchesGuarded'
    <2>1. requests' \subseteq requests /\ UNCHANGED <<seen, base>>
      BY <1>12 DEF Commit
    <2>2. pc' # "pause" \/ UNCHANGED <<pc, target>>
      BY <1>12 DEF Commit, Respond
    <2> QED
      BY <1>3, <1>4, <2>1, <2>2 DEF PatchesGuarded
  <1>13. ASSUME NEW q \in requests, Discard(q) PROVE PatchesGuarded'
    BY <1>5, <1>13 DEF QuietStep, Discard, stepVars
  <1>14. CASE Collect \/ ListPods \/ Recollect \/ Retry
    BY <1>5, <1>14 DEF QuietStep, Collect, ListPods, Recollect, Retry
  <1>15. CASE UNCHANGED vars
    BY <1>5, <1>15 DEF QuietStep, vars, runVars, stepVars
  <1>16. CASE LedgerWrite
    BY <1>5, <1>16, LedgerWriteKeeps DEF QuietStep
  <1> QED
    BY <1>6, <1>7, <1>8, <1>9, <1>10, <1>11, <1>12, <1>13, <1>14, <1>15, <1>16
       DEF Next, RunStep, BaselineStep

\* Only Commit adds to commits, and what it adds met the object its guard read.
LEMMA CommitMeetsSeen ==
    ASSUME TypeOK, PatchesGuarded, [Next]_vars,
           NEW c \in commits', c \notin commits
    PROVE  \E q \in requests, again \in BOOLEAN :
               /\ Commit(q, again)
               /\ c = [run |-> q.run, res |-> q.res, seen |-> q.seen,
                       snapshot |-> q.snapshot, baseline |-> q.baseline,
                       met |-> q.seen]
               /\ obj[q.res] = q.seen
  <1>1. commits' # commits
    OBVIOUS
  <1>2. PICK q \in requests, again \in BOOLEAN : Commit(q, again)
    BY <1>1, OnlyCommitCommits
  <1>3. c = [run |-> q.run, res |-> q.res, seen |-> q.seen,
             snapshot |-> q.snapshot, baseline |-> q.baseline,
             met |-> obj[q.res]]
    BY <1>2 DEF Commit
  <1>4. obj[q.res] = q.seen
    <2>1. q.res \in Resources /\ q.seen \in Object
      BY DEF TypeOK, Request
    <2>2. obj[q.res] \in Object
      BY <2>1 DEF TypeOK, ClusterTypeOK
    <2>3. obj[q.res].rv = q.seen.rv /\ NoNewer(q.seen, obj[q.res])
      BY <1>2 DEF Commit, TestsPass, PatchesGuarded
    <2> QED
      BY <2>1, <2>2, <2>3 DEF NoNewer, Object
  <1> QED
    BY <1>2, <1>3, <1>4

LEMMA NextPatchLandsOnGuarded ==
    ASSUME TypeOK, PatchesGuarded, PatchLandsOnGuarded, [Next]_vars
    PROVE  PatchLandsOnGuarded'
  <1> SUFFICES ASSUME NEW c \in commits'
               PROVE  c.met = c.seen /\ Guarded(c.res, c.met, c.snapshot)
    BY DEF PatchLandsOnGuarded
  <1>1. CASE c \in commits
    BY <1>1 DEF PatchLandsOnGuarded
  <1>2. CASE c \notin commits
    <2>1. PICK q \in requests :
              c = [run |-> q.run, res |-> q.res, seen |-> q.seen,
                   snapshot |-> q.snapshot, baseline |-> q.baseline,
                   met |-> q.seen]
      BY <1>2, CommitMeetsSeen
    <2> QED
      BY <2>1 DEF PatchesGuarded
  <1> QED
    BY <1>1, <1>2

-----------------------------------------------------------------------------
(* The adopted incarnations. *)

\* Whoever writes, UIDs are drawn once and no incarnation comes back.
LEMMA NextUIDsDrawn ==
    ASSUME TypeOK, UIDsDrawn, [Next]_vars
    PROVE  UIDsDrawn' /\ Renewed
  <1>0. /\ obj \in [Resources -> Object] /\ rev \in Nat /\ ClusterTypeOK
        /\ \A r \in Resources : obj[r].uid \in Nat
        /\ \A r \in receipts : r.uid \in Nat
    BY DEF TypeOK, ClusterTypeOK, Object, Receipt
  <1>1. ASSUME UNCHANGED ledger, IncarnationsDrawn', Renewed, rev <= rev', rev' \in Nat
        PROVE  UIDsDrawn' /\ Renewed
    BY <1>0, <1>1 DEF UIDsDrawn, ledger, TypeOK
  <1>2. ASSUME UNCHANGED <<obj, rev, ledger>> PROVE UIDsDrawn' /\ Renewed
    BY <1>0, <1>2 DEF UIDsDrawn, IncarnationsDrawn, Renewed, ledger
  <1>3. CASE ClusterNext /\ UNCHANGED runVars
    <2>1. IncarnationsDrawn' /\ Renewed /\ rev <= rev' /\ rev' \in Nat
      BY <1>0, <1>3, ClusterRenews, RevisionGrows DEF UIDsDrawn
    <2>2. UNCHANGED ledger
      BY <1>3 DEF runVars
    <2> QED
      BY <1>1, <2>1, <2>2
  <1>4. ASSUME NEW q \in requests, NEW again \in BOOLEAN, Commit(q, again)
        PROVE  UIDsDrawn' /\ Renewed
    <2>1. q.res \in Resources
      BY DEF TypeOK, Request
    <2>2. obj[q.res].rest \in Rests
      BY <1>0, <2>1 DEF Object
    <2>3. Specify(q.res, "off", obj[q.res].rest) /\ UNCHANGED ledger
      BY <1>4 DEF Commit
    <2>4. rev <= rev' /\ rev' \in Nat
      BY <1>0, <2>3 DEF Specify, Store
    <2> QED
      BY <1>0, <1>1, <2>1, <2>2, <2>3, <2>4, SpecifyRenews DEF UIDsDrawn
  <1>5. CASE LedgerWrite
    <2>1. obj' = obj /\ rev' = rev + 1
      BY <1>5, LedgerWriteKeeps
    <2>2. IncarnationsDrawn' /\ Renewed
      BY <1>0, <2>1 DEF UIDsDrawn, IncarnationsDrawn, Renewed
    <2>3. \A r \in receipts' : r.uid <= rev'
      BY <1>0, <1>5, <2>1 DEF LedgerWrite, UIDsDrawn
    <2>4. \A u \in pointers' : u <= rev'
      <3>1. \A u \in pointers : u <= rev + 1
        BY <1>0 DEF UIDsDrawn, TypeOK
      <3>2. pointers' = pointers \/ \A u \in pointers' : u \in {0} \cup {r.uid : r \in receipts}
        BY <1>5 DEF LedgerWrite
      <3> QED
        BY <1>0, <2>1, <3>1, <3>2 DEF UIDsDrawn
    <2> QED
      BY <2>2, <2>3, <2>4 DEF UIDsDrawn
  <1>6. CASE BaselineStep
    BY <1>2, <1>6, BaselineStepKeeps DEF clusterVars
  <1>7. ASSUME UNCHANGED <<clusterVars, ledger>> PROVE UIDsDrawn' /\ Renewed
    BY <1>2, <1>7 DEF clusterVars
  <1>8. CASE Stop \/ Publish \/ Guard \/ Patch \/ Collect \/ ListPods \/ Recollect \/ Retry
    BY <1>7, <1>8 DEF Stop, Publish, Guard, Patch, Collect, ListPods, Recollect, Retry
  <1>9. ASSUME NEW w \in Runs, NEW k \in Kinds, Start(w, k) PROVE UIDsDrawn' /\ Renewed
    BY <1>7, <1>9 DEF Start
  <1>10. ASSUME NEW q \in requests, Discard(q) PROVE UIDsDrawn' /\ Renewed
    BY <1>7, <1>10 DEF Discard
  <1>11. CASE UNCHANGED vars
    BY <1>7, <1>11 DEF vars, runVars
  <1> QED
    BY <1>3, <1>4, <1>5, <1>6, <1>8, <1>9, <1>10, <1>11 DEF Next, RunStep, BaselineStep

\* What is behind the reading of the pointer.
AfterPointer == {"receipt", "root-after", "guard", "pause", "wait"}

LEMMA NextIncarnationsOrdered ==
    ASSUME TypeOK, TypeOK', UIDsDrawn, IncarnationsOrdered, [Next]_vars
    PROVE  IncarnationsOrdered'
  <1> USE DEF Goto
  <1>0. Renewed
    BY NextUIDsDrawn
  <1>1. /\ \A r \in Resources : /\ obj[r].uid \in Nat /\ obj'[r].uid \in Nat
                                /\ base[r].uid \in Nat
                                /\ obj[r].uid <= obj'[r].uid
        /\ \A a \in Applications : baseline.uids[a] \in Nat
        /\ \A q \in requests : /\ q.snapshot.uid \in Nat /\ q.res \in Resources
                               /\ \A a \in Applications : q.baseline.uids[a] \in Nat
    BY <1>0 DEF Renewed, TypeOK, ClusterTypeOK, Object, Baseline, Request
  <1>2. \A q \in requests : q.res \in Applications =>
            /\ q.snapshot.uid <= q.baseline.uids[q.res]
            /\ q.baseline.uids[q.res] <= obj'[q.res].uid
    BY <1>1 DEF IncarnationsOrdered
  <1>3. ASSUME requests' \subseteq requests,
               \/ pc' \notin {"deployment", "root", "pointer"} \cup AfterPointer
               \/ UNCHANGED <<pc, base, baseline>>
               \/ /\ UNCHANGED <<base, baseline>>
                  /\ pc \in AfterPointer /\ pc' \in AfterPointer
        PROVE  IncarnationsOrdered'
    BY <1>1, <1>2, <1>3, Names DEF IncarnationsOrdered, AfterPointer
  <1>4. CASE ClusterNext /\ UNCHANGED runVars
    BY <1>3, <1>4 DEF runVars, stepVars, records
  <1>5. ASSUME NEW w \in Runs, NEW k \in Kinds, Start(w, k) PROVE IncarnationsOrdered'
    BY <1>3, <1>5 DEF Start, AfterPointer
  <1>6. CASE Stop \/ Publish
    BY <1>3, <1>6 DEF Stop, Publish, End, Cleared, AfterPointer
  <1>7. CASE ReadApplication \/ ReadDeployment \/ ReadRoot
    <2>1. /\ requests' = requests /\ obj' = obj
          /\ pc' \in {"deployment", "root", "pointer"}
          /\ pc' = "pointer" => base'["root"] = obj["root"]
          /\ \/ base'["child"] = obj["child"]
             \/ pc \in {"deployment", "root"} /\ base'["child"] = base["child"]
      BY <1>7, Names
         DEF ReadApplication, ReadDeployment, ReadRoot, Observe, BaselineUnchanged,
             ReadingUnchanged, TypeOK, clusterVars
    <2> QED
      BY <1>1, <1>2, <2>1, Names DEF IncarnationsOrdered
  <1>8. CASE ReadPointer
    <2>1. /\ requests' = requests /\ obj' = obj /\ base' = base
          /\ pc = "pointer" /\ pc' = "receipt"
          /\ \A a \in Applications : baseline'.uids[a] = obj[a].uid
      BY <1>8 DEF ReadPointer, ReadingUnchanged, clusterVars
    <2>2. \A a \in Applications : base[a].uid <= obj[a].uid
      BY <2>1 DEF IncarnationsOrdered, Applications
    <2> QED
      BY <1>1, <1>2, <2>1, <2>2, Names DEF IncarnationsOrdered
  <1>9. CASE ReadReceipt
    BY <1>3, <1>9 DEF ReadReceipt, ReadingUnchanged, AfterPointer
  <1>10. CASE AcceptBaseline
    <2>1. /\ requests' = requests /\ obj' = obj /\ baseline' = baseline
          /\ pc = "root-after" /\ pc' = "guard"
          /\ base'["child"] = base["child"] /\ base'["root"] = obj["root"]
      BY <1>10, Names
         DEF AcceptBaseline, Observe, BaselineUnchanged, ReadingUnchanged, TypeOK,
             clusterVars, records
    <2>2. base["root"].uid = obj["root"].uid
      BY <1>10, Names DEF AcceptBaseline, SameSample, TypeOK, ClusterTypeOK, Object
    <2>3. \A a \in Applications : base'[a].uid = base[a].uid
      BY <2>1, <2>2 DEF Applications
    <2> QED
      BY <1>1, <1>2, <2>1, <2>3, Names DEF IncarnationsOrdered
  <1>11. CASE Guard
    BY <1>3, <1>11 DEF Guard, records, AfterPointer
  <1>12. CASE Patch
    <2> DEFINE sent == [run |-> holder, res |-> target, seen |-> seen,
                        snapshot |-> base[target], baseline |-> baseline]
    <2>1. /\ requests' = requests \cup {sent} /\ UNCHANGED <<obj, base, baseline>>
          /\ pc = "pause" /\ pc' = "wait"
      BY <1>12 DEF Patch, records, clusterVars
    <2>2. sent.res \in Applications =>
              /\ sent.snapshot.uid <= sent.baseline.uids[sent.res]
              /\ sent.baseline.uids[sent.res] <= obj'[sent.res].uid
      BY <2>1 DEF IncarnationsOrdered
    <2> HIDE DEF sent
    <2> QED
      BY <1>1, <1>2, <2>1, <2>2, Names DEF IncarnationsOrdered
  <1>13. ASSUME NEW q \in requests, NEW again \in BOOLEAN, Commit(q, again)
         PROVE  IncarnationsOrdered'
    <2>1. /\ requests' \subseteq requests /\ UNCHANGED <<base, baseline>>
          /\ \/ UNCHANGED pc
             \/ pc \in AfterPointer /\ pc' \in AfterPointer
             \/ pc' = "collect"
      BY <1>13 DEF Commit, Respond, records, AfterPointer
    <2> QED
      BY <1>3, <2>1 DEF AfterPointer
  <1>14. ASSUME NEW q \in requests, Discard(q) PROVE IncarnationsOrdered'
    BY <1>3, <1>14 DEF Discard, stepVars, records
  <1>15. CASE Collect \/ ListPods \/ Recollect \/ Retry
    BY <1>3, <1>15 DEF Collect, ListPods, Recollect, Retry, AfterPointer
  <1>16. CASE LedgerWrite
    BY <1>3, <1>16, LedgerWriteKeeps
  <1>17. CASE UNCHANGED vars
    BY <1>3, <1>17 DEF vars, runVars, stepVars, records
  <1> QED
    BY <1>4, <1>5, <1>6, <1>7, <1>8, <1>9, <1>10, <1>11, <1>12, <1>13, <1>14, <1>15, <1>16,
       <1>17
       DEF Next, RunStep

LEMMA NextReceiptsOlder ==
    ASSUME TypeOK, UIDsDrawn, ReceiptsOlder, [Next]_vars
    PROVE  ReceiptsOlder'
  <1> USE DEF Goto
  <1> DEFINE Later == {"root-after", "guard", "pause", "wait"}
  <1>0. rev \in Nat /\ pointerRead \in Nat /\ \A r \in receipts : r.uid \in Nat
    BY DEF TypeOK, ClusterTypeOK, Receipt
  <1>1. ASSUME UNCHANGED <<records, receipts>>, rev <= rev', rev' \in Nat,
               \/ pc' = pc
               \/ pc' \notin {"receipt"} \cup Later
               \/ pc \in Later /\ pc' \in Later
        PROVE  ReceiptsOlder'
    BY <1>0, <1>1 DEF ReceiptsOlder, records
  <1>2. ASSUME pc' \notin {"receipt"} \cup Later PROVE ReceiptsOlder'
    BY <1>2 DEF ReceiptsOlder
  <1>3. ASSUME UNCHANGED <<clusterVars, ledger, records>>,
               pc' = pc \/ (pc \in Later /\ pc' \in Later)
        PROVE  ReceiptsOlder'
    BY <1>0, <1>1, <1>3 DEF clusterVars, ledger
  <1>4. CASE ClusterNext /\ UNCHANGED runVars
    <2>1. rev <= rev' /\ rev' \in Nat
      BY <1>4, RevisionGrows DEF TypeOK
    <2> QED
      BY <1>1, <1>4, <2>1 DEF runVars, stepVars, ledger
  <1>5. ASSUME NEW w \in Runs, NEW k \in Kinds, Start(w, k) PROVE ReceiptsOlder'
    BY <1>2, <1>5 DEF Start
  <1>6. CASE Stop \/ Publish
    BY <1>2, <1>6 DEF Stop, Publish, End, Cleared
  <1>7. CASE ReadApplication \/ ReadDeployment \/ ReadRoot
    BY <1>2, <1>7 DEF ReadApplication, ReadDeployment, ReadRoot
  <1>8. CASE ReadPointer
    <2>1. /\ pc' = "receipt" /\ UNCHANGED <<rev, receipts>>
          /\ pointerRead' \in pointers
          /\ baseline'.pointers = pointers /\ baseline'.receipts = receipts
      BY <1>8 DEF ReadPointer, ReadingUnchanged, clusterVars, ledger
    <2> QED
      BY <2>1 DEF ReceiptsOlder, UIDsDrawn
  <1>9. CASE ReadReceipt
    BY <1>9 DEF ReadReceipt, ReceiptsOlder
  <1>10. CASE AcceptBaseline
    BY <1>3, <1>10 DEF AcceptBaseline, BaselineUnchanged, ReadingUnchanged
  <1>11. CASE Guard \/ Patch
    BY <1>3, <1>11 DEF Guard, Patch
  <1>12. ASSUME NEW q \in requests, NEW again \in BOOLEAN, Commit(q, again)
         PROVE  ReceiptsOlder'
    <2>1. rev <= rev' /\ rev' \in Nat /\ UNCHANGED <<records, receipts>>
      BY <1>0, <1>12 DEF Commit, Specify, Store, ledger
    <2>2. pc' = pc \/ pc' = "collect" \/ (pc \in Later /\ pc' \in Later)
      BY <1>12 DEF Commit, Respond
    <2> QED
      BY <1>1, <1>2, <2>1, <2>2
  <1>13. ASSUME NEW q \in requests, Discard(q) PROVE ReceiptsOlder'
    BY <1>3, <1>13 DEF Discard, stepVars
  <1>14. CASE Collect \/ ListPods \/ Recollect \/ Retry
    BY <1>2, <1>14 DEF Collect, ListPods, Recollect, Retry
  <1>15. CASE LedgerWrite
    <2>1. UNCHANGED <<pc, pointerRead, receiptRead, baseline>> /\ rev' = rev + 1
      BY <1>15, LedgerWriteKeeps
    <2>2. \A r \in receipts' : r \in receipts \/ r.uid = rev + 1
      BY <1>15 DEF LedgerWrite
    <2> QED
      BY <1>0, <2>1, <2>2 DEF ReceiptsOlder
  <1>16. CASE UNCHANGED vars
    BY <1>3, <1>16 DEF vars, runVars, stepVars
  <1> QED
    BY <1>4, <1>5, <1>6, <1>7, <1>8, <1>9, <1>10, <1>11, <1>12, <1>13, <1>14, <1>15, <1>16
       DEF Next, RunStep

LEMMA NextSnapshotsAdopted ==
    ASSUME TypeOK, ReceiptsOlder, SnapshotsAdopted, [Next]_vars
    PROVE  SnapshotsAdopted'
  <1> USE DEF Goto
  <1> DEFINE Behind == {"guard", "pause", "wait"}
  <1>2. ASSUME requests' \subseteq requests,
               \/ pc' \notin Behind
               \/ pc \in Behind /\ UNCHANGED <<base, pointerRead, receiptRead>>
        PROVE  SnapshotsAdopted'
    BY <1>2 DEF SnapshotsAdopted, Adopted
  <1>3. CASE ClusterNext /\ UNCHANGED runVars
    BY <1>2, <1>3 DEF runVars, stepVars, records
  <1>4. ASSUME NEW w \in Runs, NEW k \in Kinds, Start(w, k) PROVE SnapshotsAdopted'
    BY <1>2, <1>4 DEF Start
  <1>5. CASE Stop \/ Publish
    BY <1>2, <1>5 DEF Stop, Publish, End, Cleared
  <1>6. CASE BaselineStep /\ pc' # "guard"
    BY <1>2, <1>6, BaselineStepKeeps DEF BaselineSteps
  <1>7. CASE AcceptBaseline
    <2>1. /\ base'["child"] = base["child"] /\ base'["root"] = obj["root"]
          /\ Adopted(base["root"], base["child"])
          /\ UNCHANGED <<requests, pointerRead, receiptRead>>
      BY <1>7, Names
         DEF AcceptBaseline, Observe, BaselineUnchanged, ReadingUnchanged, TypeOK, records
    <2>2. base["root"].uid = obj["root"].uid
      BY <1>7, Names DEF AcceptBaseline, SameSample, TypeOK, ClusterTypeOK, Object
    <2>3. Adopted(base["root"], base["child"])'
      BY <2>1, <2>2 DEF Adopted, Records
    <2> QED
      BY <2>1, <2>3 DEF SnapshotsAdopted
  <1>8. CASE Guard
    BY <1>2, <1>8 DEF Guard, records
  <1>9. CASE Patch
    <2> DEFINE sent == [run |-> holder, res |-> target, seen |-> seen,
                        snapshot |-> base[target], baseline |-> baseline]
    <2>1. /\ requests' = requests \cup {sent} /\ pc = "pause"
          /\ UNCHANGED <<base, pointerRead, receiptRead>>
      BY <1>9 DEF Patch, records
    <2>2. Adopted(base["root"], base["child"])
      BY <2>1 DEF SnapshotsAdopted
    <2>3. receiptRead \in baseline.receipts /\ receiptRead.uid \in baseline.pointers
      BY <2>1, <2>2 DEF ReceiptsOlder, Adopted
    <2>4. target \in Applications => receiptRead.adopted[target] = base[target].uid
      BY <2>2 DEF Adopted, Records, Applications
    <2>5. AdoptedIn(sent.baseline, sent.res, sent.snapshot.uid)
      BY <2>3, <2>4 DEF AdoptedIn
    <2>6. Adopted(base["root"], base["child"])'
      BY <2>1, <2>2 DEF Adopted
    <2> HIDE DEF sent
    <2> QED
      BY <2>1, <2>5, <2>6 DEF SnapshotsAdopted
  <1>10. ASSUME NEW q \in requests, NEW again \in BOOLEAN, Commit(q, again)
         PROVE  SnapshotsAdopted'
    BY <1>2, <1>10 DEF Commit, Respond, records
  <1>11. ASSUME NEW q \in requests, Discard(q) PROVE SnapshotsAdopted'
    BY <1>2, <1>11 DEF Discard, stepVars, records
  <1>12. CASE Collect \/ ListPods \/ Recollect \/ Retry
    BY <1>2, <1>12 DEF Collect, ListPods, Recollect, Retry
  <1>13. CASE UNCHANGED vars
    BY <1>2, <1>13 DEF vars, runVars, stepVars, records
  <1>14. CASE LedgerWrite
    BY <1>2, <1>14, LedgerWriteKeeps
  <1>15. ASSUME BaselineStep, pc' = "guard" PROVE AcceptBaseline
    BY <1>15
       DEF BaselineStep, ReadApplication, ReadDeployment, ReadRoot, ReadPointer, ReadReceipt
  <1> QED
    BY <1>3, <1>4, <1>5, <1>6, <1>7, <1>8, <1>9, <1>10, <1>11, <1>12, <1>13, <1>14, <1>15
       DEF Next, RunStep, BaselineStep

\* The incarnation a patch meets lies, by its guard, between the snapshot's and
\* the live one's, and the one at the reading of the pointer is between them too.
LEMMA NextOnlyAdoptedPatched ==
    ASSUME TypeOK, PatchesGuarded, IncarnationsOrdered, SnapshotsAdopted,
           OnlyAdoptedPatched, [Next]_vars
    PROVE  OnlyAdoptedPatched'
  <1> SUFFICES ASSUME NEW c \in commits'
               PROVE  /\ AdoptedIn(c.baseline, c.res, c.met.uid)
                      /\ c.res \in Applications => c.baseline.uids[c.res] = c.met.uid
    BY DEF OnlyAdoptedPatched
  <1>1. CASE c \in commits
    BY <1>1 DEF OnlyAdoptedPatched
  <1>2. CASE c \notin commits
    <2>1. PICK q \in requests, again \in BOOLEAN :
              /\ c = [run |-> q.run, res |-> q.res, seen |-> q.seen,
                      snapshot |-> q.snapshot, baseline |-> q.baseline, met |-> q.seen]
              /\ obj[q.res] = q.seen
      BY <1>2, CommitMeetsSeen
    <2>2. q.seen.uid = q.snapshot.uid
      BY DEF PatchesGuarded, Guarded
    <2>3. q.res \in Applications => q.baseline.uids[q.res] = q.seen.uid
      <3>1. q.res \in Applications =>
                /\ q.snapshot.uid <= q.baseline.uids[q.res]
                /\ q.baseline.uids[q.res] <= q.seen.uid
        BY <2>1 DEF IncarnationsOrdered
      <3>2. /\ q.seen.uid \in Nat
            /\ \A a \in Applications : q.baseline.uids[a] \in Nat
        BY DEF TypeOK, Request, Baseline, Object
      <3> QED
        BY <2>2, <3>1, <3>2
    <2>4. AdoptedIn(q.baseline, q.res, q.seen.uid)
      BY <2>2 DEF SnapshotsAdopted
    <2> QED
      BY <2>1, <2>3, <2>4
  <1> QED
    BY <1>1, <1>2

-----------------------------------------------------------------------------
(* The order of the patches. *)

LEMMA NextPatchesFollow ==
    ASSUME TypeOK, MutexHeld, PatchesFollow, [Next]_vars
    PROVE  PatchesFollow'
  <1> USE DEF Goto
  <1>1. \A r \in Resources, w \in Runs : Effective(w, r) /\ commits \subseteq commits'
            => Effective(w, r)'
    BY DEF Effective
  <1>2. pc # "idle" => holder \in Runs
    BY DEF MutexHeld, TypeOK
  <1>3. \A q \in requests \cup commits : q.run \in Runs /\ q.res \in Resources
    BY DEF TypeOK, Request, Committed
  <1>4. ASSUME QuietStep,
               pc' \notin {"guard", "pause", "wait"} \/ UNCHANGED <<holder, target>>,
               \/ pc' \in {"guard", "pause", "wait"} /\ pc \in {"guard", "pause", "wait"}
               \/ /\ kind' = kind /\ holder' = holder
                  /\ pc \in {"collect", "pods", "recollect", "verify"}
                  /\ pc' \in {"collect", "pods", "recollect", "verify"}
               \/ pc' \in {"collect", "pods", "recollect", "verify"} /\ kind' # "pause"
               \/ pc' \notin {"guard", "pause", "wait", "collect", "pods", "recollect",
                              "verify"}
        PROVE  PatchesFollow'
    <2>1. /\ requests' \cup commits' \subseteq requests \cup commits
          /\ commits' = commits
      BY <1>4 DEF QuietStep
    <2>2. \A q \in requests' \cup commits' :
              \A r \in Resources : Precedes(r, q.res) => Effective(q.run, r)'
      BY <2>1 DEF PatchesFollow, Effective
    <2>3. pc' \in {"guard", "pause", "wait"} =>
              \A r \in Resources : Precedes(r, target') => Effective(holder, r)'
      BY <1>4, <2>1 DEF PatchesFollow, Effective
    <2>4. kind' = "pause" /\ pc' \in {"collect", "pods", "recollect", "verify"} =>
              \A r \in Resources : Effective(holder, r)'
      BY <1>4, <2>1 DEF PatchesFollow, Effective
    <2> QED
      BY <2>2, <2>3, <2>4 DEF PatchesFollow
  <1>5. CASE ClusterNext /\ UNCHANGED runVars
    BY <1>5 DEF PatchesFollow, Effective, runVars, stepVars
  <1>6. ASSUME NEW w \in Runs, NEW k \in Kinds, Start(w, k) PROVE PatchesFollow'
    <2>1. QuietStep
      BY <1>6 DEF QuietStep, Start
    <2> QED
      BY <1>4, <1>6, <2>1 DEF Start
  <1>7. CASE Stop \/ Publish
    <2>1. QuietStep
      BY <1>7 DEF QuietStep, Stop, Publish
    <2>2. pc' = "idle"
      BY <1>7 DEF Stop, Publish, End, Cleared
    <2> QED
      BY <1>4, <2>1, <2>2
  <1>8. CASE BaselineStep /\ pc' # "guard"
    <2>1. QuietStep
      BY <1>8, BaselineStepKeeps DEF QuietStep
    <2> QED
      BY <1>4, <1>8, <2>1, BaselineStepKeeps DEF BaselineSteps
  <1>9. CASE BaselineStep /\ pc' = "guard"
    BY <1>9, BaselineStepKeeps DEF PatchesFollow, Effective, Precedes
  <1>10. CASE Guard
    <2>1. QuietStep
      BY <1>10 DEF QuietStep, Guard
    <2> QED
      BY <1>4, <1>10, <2>1 DEF Guard
  <1>11. CASE Patch
    <2> DEFINE sent == [run |-> holder, res |-> target, seen |-> seen,
                        snapshot |-> base[target], baseline |-> baseline]
    <2>1. /\ requests' = requests \cup {sent} /\ commits' = commits
          /\ pc = "pause" /\ pc' = "wait" /\ target' = target /\ holder' = holder
      BY <1>11 DEF Patch
    <2>2. sent.run = holder /\ sent.res = target
      OBVIOUS
    <2> HIDE DEF sent
    <2> QED
      BY <2>1, <2>2 DEF PatchesFollow, Effective
  <1>12. ASSUME NEW q \in requests, NEW again \in BOOLEAN, Commit(q, again)
         PROVE  PatchesFollow'
    <2> DEFINE c == [run |-> q.run, res |-> q.res, seen |-> q.seen,
                     snapshot |-> q.snapshot, baseline |-> q.baseline,
                     met |-> obj[q.res]]
    <2>1. /\ requests' \subseteq requests /\ commits' = commits \cup {c}
          /\ holder' = holder /\ kind' = kind
      BY <1>12 DEF Commit
    <2>2. c.run = q.run /\ c.res = q.res
      OBVIOUS
    <2> HIDE DEF c
    <2>3. \A r \in Resources, w \in Runs : Effective(w, r) => Effective(w, r)'
      BY <1>1, <2>1
    <2>4. Effective(q.run, q.res)'
      BY <2>1, <2>2 DEF Effective
    <2>5. \A p \in requests' \cup commits' :
              \A r \in Resources : Precedes(r, p.res) => Effective(p.run, r)'
      BY <1>3, <2>1, <2>2, <2>3 DEF PatchesFollow
    <2>6. CASE UNCHANGED <<pc, target>>
      BY <1>2, <2>1, <2>3, <2>5, <2>6 DEF PatchesFollow
    <2>7. CASE Respond(q)
      <3>1. /\ holder = q.run /\ pc = "wait" /\ target = q.res
            /\ IF q.res = "deployment" THEN pc' = "collect"
               ELSE pc' = "guard" /\ target' = Following[q.res]
        BY <2>7 DEF Respond
      <3>2. \A r \in Resources : Precedes(r, q.res) => Effective(q.run, r)'
        BY <1>3, <2>3 DEF PatchesFollow
      <3>3. CASE q.res = "deployment"
        <4>1. \A r \in Resources : Effective(q.run, r)'
          BY <2>4, <3>2, <3>3, Names DEF Precedes
        <4> QED
          BY <2>1, <2>5, <3>1, <3>3, <4>1 DEF PatchesFollow
      <3>4. CASE q.res # "deployment"
        <4>1. \A r \in Resources : Precedes(r, Following[q.res]) =>
                  r = q.res \/ Precedes(r, q.res)
          BY <1>3, <3>4, Names DEF Precedes
        <4> QED
          BY <2>1, <2>4, <2>5, <3>1, <3>2, <3>4, <4>1 DEF PatchesFollow
      <3> QED
        BY <3>3, <3>4
    <2> QED
      BY <1>12, <2>6, <2>7 DEF Commit
  <1>13. ASSUME NEW q \in requests, Discard(q) PROVE PatchesFollow'
    BY <1>13 DEF Discard, PatchesFollow, Effective, stepVars
  <1>14. CASE Collect \/ ListPods \/ Recollect \/ Retry
    <2>1. QuietStep
      BY <1>14 DEF QuietStep, Collect, ListPods, Recollect, Retry
    <2> QED
      BY <1>4, <1>14, <2>1 DEF Collect, ListPods, Recollect, Retry
  <1>15. CASE UNCHANGED vars
    BY <1>15 DEF PatchesFollow, Effective, vars, runVars, stepVars
  <1>16. CASE LedgerWrite
    BY <1>16, LedgerWriteKeeps DEF PatchesFollow, Effective
  <1> QED
    BY <1>5, <1>6, <1>7, <1>8, <1>9, <1>10, <1>11, <1>12, <1>13, <1>14, <1>15, <1>16
       DEF Next, RunStep, BaselineStep

LEMMA NextPauseComplete ==
    ASSUME TypeOK, MutexHeld, PatchesFollow, PauseComplete, [Next]_vars
    PROVE  PauseComplete'
  <1> SUFFICES ASSUME NEW c \in checkpoints', c.kind = "pause"
               PROVE  {d.res : d \in {e \in commits' : e.run = c.run}} = Resources
    BY DEF PauseComplete
  <1>1. commits \subseteq commits'
    BY OnlyCommitCommits DEF Commit
  <1>2. \A e \in commits' : e.res \in Resources
    <2>1. \A e \in commits : e.res \in Resources
      BY DEF TypeOK, Committed
    <2>2. \A q \in requests : q.res \in Resources
      BY DEF TypeOK, Request
    <2>3. ASSUME NEW e \in commits', e \notin commits
          PROVE  \E q \in requests : e.res = q.res
      <3>1. commits' # commits
        BY <2>3
      <3>2. PICK q \in requests, again \in BOOLEAN : Commit(q, again)
        BY <3>1, OnlyCommitCommits
      <3> QED
        BY <2>3, <3>2 DEF Commit
    <2> QED
      BY <2>1, <2>2, <2>3
  <1>3. ASSUME c \in checkpoints
        PROVE  {d.res : d \in {e \in commits' : e.run = c.run}} = Resources
    <2>1. {d.res : d \in {e \in commits : e.run = c.run}} = Resources
      BY <1>3 DEF PauseComplete
    <2>2. \A r \in Resources : \E d \in commits : d.run = c.run /\ d.res = r
      BY <2>1
    <2> QED
      BY <1>1, <1>2, <2>2
  <1>4. ASSUME c \notin checkpoints
        PROVE  {d.res : d \in {e \in commits' : e.run = c.run}} = Resources
    <2>1. Publish
      <3>1. checkpoints' # checkpoints
        BY <1>4
      <3> QED
        BY <3>1, OnlyPublishPublishes
    <2>2. c.run = holder /\ c.kind = kind /\ pc = "verify"
      BY <1>4, <2>1 DEF Publish
    <2>3. \A r \in Resources : \E d \in commits : d.run = c.run /\ d.res = r
      BY <2>2 DEF PatchesFollow, Effective
    <2> QED
      BY <1>1, <1>2, <2>3
  <1> QED
    BY <1>3, <1>4

-----------------------------------------------------------------------------
(* One patch per run and object. *)

\* A version that has been used up stays used up.
LEMMA UsedUp ==
    ASSUME TypeOK, TypeOK', Forward,
           NEW c \in commits,
           \/ c.seen.rv < obj[c.res].rv
           \/ c.seen = obj[c.res] /\ c.seen.switch = "off"
    PROVE  \/ c.seen.rv < obj'[c.res].rv
           \/ c.seen = obj'[c.res] /\ c.seen.switch = "off"
  <1>1. c.res \in Resources /\ c.seen \in Object
    BY DEF TypeOK, Committed
  <1>2. obj[c.res] \in Object /\ obj'[c.res] \in Object /\ NoNewer(obj[c.res], obj'[c.res])
    BY <1>1 DEF TypeOK, ClusterTypeOK, Forward
  <1>3. c.seen.rv \in Nat /\ obj[c.res].rv \in Nat /\ obj'[c.res].rv \in Nat
    BY <1>1, <1>2 DEF Object
  <1> QED
    BY <1>2, <1>3 DEF NoNewer

LEMMA NextPatchedOnce ==
    ASSUME TypeOK, TypeOK', VersionsDrawn, MutexHeld, Forward,
           PatchesGuarded, PatchedOnce, [Next]_vars
    PROVE  PatchedOnce'
  <1> USE DEF Goto
  <1> DEFINE Sent == requests \cup commits
             OneEach(S) == \A q, p \in S : q.run = p.run /\ q.res = p.res => q.seen = p.seen
             Used == \A c \in commits : \/ c.seen.rv < obj[c.res].rv
                                        \/ c.seen = obj[c.res] /\ c.seen.switch = "off"
  <1>1. \A c \in commits : \/ c.seen.rv < obj'[c.res].rv
                           \/ c.seen = obj'[c.res] /\ c.seen.switch = "off"
    BY UsedUp DEF PatchedOnce
  <1>2. \A q \in Sent : q.run \in Runs /\ q.res \in Resources
    BY DEF TypeOK, Request, Committed
  <1>3. ASSUME QuietStep,
               \/ pc' \in {"idle", "collect", "pods", "recollect", "verify"}
               \/ UNCHANGED <<holder, pc, target>>
               \/ /\ holder' = holder
                  /\ pc \in BaselineSteps /\ pc' \in BaselineSteps \cup {"guard"}
               \/ /\ UNCHANGED <<holder, target>> /\ pc = "guard" /\ pc' = "pause"
        PROVE  PatchedOnce'
    <2>1. requests' \cup commits' \subseteq Sent /\ commits' = commits
      BY <1>3 DEF QuietStep
    <2> QED
      BY <1>1, <1>3, <2>1 DEF PatchedOnce, BaselineSteps
  <1>4. CASE ClusterNext /\ UNCHANGED runVars
    <2>1. QuietStep
      BY <1>4 DEF QuietStep, runVars
    <2> QED
      BY <1>3, <1>4, <2>1 DEF runVars, stepVars
  <1>5. ASSUME NEW w \in Runs, NEW k \in Kinds, Start(w, k) PROVE PatchedOnce'
    <2>1. /\ requests' = requests /\ commits' = commits /\ holder' = w
          /\ pc' \in {"application", "collect"} /\ outcome[w] = "pending"
      BY <1>5 DEF Start
    <2>2. \A q \in Sent : q.run # w
      BY <2>1 DEF MutexHeld
    <2> QED
      BY <1>1, <2>1, <2>2 DEF PatchedOnce
  <1>6. CASE Stop \/ Publish
    <2>1. QuietStep
      BY <1>6 DEF QuietStep, Stop, Publish
    <2>2. pc' = "idle"
      BY <1>6 DEF Stop, Publish, End, Cleared
    <2> QED
      BY <1>3, <2>1, <2>2
  <1>7. CASE BaselineStep
    BY <1>3, <1>7, BaselineStepKeeps DEF QuietStep
  <1>8. CASE Guard
    <2>1. QuietStep
      BY <1>8 DEF QuietStep, Guard
    <2> QED
      BY <1>3, <1>8, <2>1 DEF Guard
  <1>9. CASE Patch
    <2> DEFINE sent == [run |-> holder, res |-> target, seen |-> seen,
                        snapshot |-> base[target], baseline |-> baseline]
    <2>1. /\ requests' = requests \cup {sent} /\ commits' = commits
          /\ pc = "pause" /\ pc' = "wait" /\ target' = target /\ holder' = holder
      BY <1>9 DEF Patch
    <2>2. sent.run = holder /\ sent.res = target
      OBVIOUS
    <2>3. \A q \in Sent : q.run = holder => Precedes(q.res, target)
      BY <2>1 DEF PatchedOnce
    <2>4. ~Precedes(target, target)
      BY DEF Precedes
    <2> HIDE DEF sent
    <2>5. OneEach(requests' \cup commits')
      BY <2>1, <2>2, <2>3, <2>4 DEF PatchedOnce
    <2> QED
      BY <1>1, <2>1, <2>2, <2>3, <2>5 DEF PatchedOnce
  <1>10. ASSUME NEW q \in requests, NEW again \in BOOLEAN, Commit(q, again)
         PROVE  PatchedOnce'
    <2> DEFINE c == [run |-> q.run, res |-> q.res, seen |-> q.seen,
                     snapshot |-> q.snapshot, baseline |-> q.baseline,
                     met |-> obj[q.res]]
    <2>1. /\ requests' \subseteq requests /\ commits' = commits \cup {c}
          /\ holder' = holder
      BY <1>10 DEF Commit
    <2>2. c.run = q.run /\ c.res = q.res /\ c.seen = q.seen
      OBVIOUS
    <2> HIDE DEF c
    <2>3. OneEach(requests' \cup commits')
      BY <2>1, <2>2 DEF PatchedOnce
    <2>4. \A p \in requests' \cup commits' :
              \E o \in Sent : p.run = o.run /\ p.res = o.res
      BY <2>1, <2>2
    <2>5. \/ c.seen.rv < obj'[c.res].rv
          \/ c.seen = obj'[c.res] /\ c.seen.switch = "off"
      <3>1. q.res \in Resources /\ q.seen \in Object /\ obj[q.res] \in Object
        BY DEF TypeOK, Request, ClusterTypeOK
      <3>2. obj[q.res] = q.seen
        <4>1. obj[q.res].rv = q.seen.rv /\ NoNewer(q.seen, obj[q.res])
          BY <1>10 DEF Commit, TestsPass, PatchesGuarded
        <4> QED
          BY <3>1, <4>1 DEF NoNewer, Object
      <3>3. obj[q.res].rest \in Rests
        BY <3>1 DEF Object
      <3>4. \/ obj[q.res].rv < obj'[q.res].rv
            \/ obj[q.res].switch = "off" /\ obj'[q.res] = obj[q.res]
        BY <1>10, <3>1, <3>3, SpecifyForward DEF Commit, TypeOK
      <3> QED
        BY <2>2, <3>2, <3>4
    <2>6. \A d \in commits' : \/ d.seen.rv < obj'[d.res].rv
                              \/ d.seen = obj'[d.res] /\ d.seen.switch = "off"
      BY <1>1, <2>1, <2>5
    <2>7. CASE UNCHANGED <<pc, target>>
      BY <2>1, <2>3, <2>4, <2>6, <2>7 DEF PatchedOnce
    <2>8. CASE Respond(q)
      <3>1. /\ holder = q.run /\ pc = "wait" /\ target = q.res
            /\ IF q.res = "deployment" THEN pc' = "collect"
               ELSE pc' = "guard" /\ target' = Following[q.res]
        BY <2>8 DEF Respond
      <3>2. \A p \in requests' \cup commits' :
                p.run = holder => p.res = q.res \/ Precedes(p.res, q.res)
        BY <2>4, <3>1 DEF PatchedOnce
      <3>3. q.res # "deployment" =>
                \A r \in Resources :
                    r = q.res \/ Precedes(r, q.res) => Precedes(r, Following[q.res])
        BY <1>2, Names DEF Precedes
      <3>4. \A p \in requests' \cup commits' : p.res \in Resources
        BY <1>2, <2>4
      <3>5. q.res # "deployment" =>
                \A p \in requests' \cup commits' : p.run = holder' => Precedes(p.res, target')
        BY <2>1, <3>1, <3>2, <3>3, <3>4
      <3> QED
        BY <2>3, <2>6, <3>1, <3>5 DEF PatchedOnce
    <2> QED
      BY <1>10, <2>7, <2>8 DEF Commit
  <1>11. ASSUME NEW q \in requests, Discard(q) PROVE PatchedOnce'
    <2>1. QuietStep
      BY <1>11 DEF QuietStep, Discard
    <2> QED
      BY <1>3, <1>11, <2>1 DEF Discard, stepVars
  <1>12. CASE Collect \/ ListPods \/ Recollect \/ Retry
    <2>1. QuietStep
      BY <1>12 DEF QuietStep, Collect, ListPods, Recollect, Retry
    <2> QED
      BY <1>3, <1>12, <2>1 DEF Collect, ListPods, Recollect, Retry
  <1>13. CASE UNCHANGED vars
    <2>1. QuietStep
      BY <1>13 DEF QuietStep, vars, runVars
    <2> QED
      BY <1>3, <1>13, <2>1 DEF vars, runVars, stepVars
  <1>14. CASE LedgerWrite
    BY <1>3, <1>14, LedgerWriteKeeps DEF QuietStep
  <1> QED
    BY <1>4, <1>5, <1>6, <1>7, <1>8, <1>9, <1>10, <1>11, <1>12, <1>13, <1>14
       DEF Next, RunStep, BaselineStep

-----------------------------------------------------------------------------
(* The theorems. *)

LEMMA InitIInv == Init => IInv
  <1> SUFFICES ASSUME Init PROVE IInv
    OBVIOUS
  <1>1. TypeOK /\ VersionsDrawn
    BY InitTyped
  <1>2. MutexHeld
    BY NoRunAssumption DEF Init, MutexHeld
  <1>3. ReadingsOrdered
    <2>1. \A r \in Resources : NoNewer(Nothing[r], obj[r])
      BY <1>1, NothingTyped DEF NoNewer, VersionsDrawn
    <2> QED
      BY <2>1 DEF Init, ReadingsOrdered
  <1>4. CheckpointSound /\ PauseComplete
    BY DEF Init, CheckpointSound, PauseComplete
  <1>5. PatchesGuarded /\ PatchLandsOnGuarded
    BY DEF Init, PatchesGuarded, PatchLandsOnGuarded
  <1>6. SnapshotsAdopted /\ OnlyAdoptedPatched
    BY DEF Init, SnapshotsAdopted, OnlyAdoptedPatched
  <1>7. UIDsDrawn /\ IncarnationsOrdered /\ ReceiptsOlder
    BY DEF Init, ClusterInit, UIDsDrawn, IncarnationsDrawn, IncarnationsOrdered, ReceiptsOlder
  <1>8. PatchesFollow /\ PatchedOnce
    BY DEF Init, PatchesFollow, PatchedOnce
  <1> QED
    BY <1>1, <1>2, <1>3, <1>4, <1>5, <1>6, <1>7, <1>8 DEF IInv

LEMMA NextIInv == IInv /\ [Next]_vars => IInv'
  <1> SUFFICES ASSUME IInv, [Next]_vars PROVE IInv'
    OBVIOUS
  <1> USE DEF IInv
  <1>1. TypeOK' /\ VersionsDrawn' /\ Forward
    BY NextTyped
  <1>2. MutexHeld'
    BY NextMutexHeld
  <1>3. ReadingsOrdered' /\ CheckpointSound'
    BY <1>1, NextReadingsOrdered, NextCheckpointSound
  <1>4. PatchesGuarded' /\ PatchLandsOnGuarded'
    BY <1>1, NextPatchesGuarded, NextPatchLandsOnGuarded
  <1>5. SnapshotsAdopted' /\ OnlyAdoptedPatched'
    BY NextSnapshotsAdopted, NextOnlyAdoptedPatched
  <1>6. UIDsDrawn' /\ IncarnationsOrdered' /\ ReceiptsOlder'
    BY <1>1, NextUIDsDrawn, NextIncarnationsOrdered, NextReceiptsOlder
  <1>7. PatchesFollow' /\ PauseComplete'
    BY NextPatchesFollow, NextPauseComplete
  <1>8. PatchedOnce'
    BY <1>1, NextPatchedOnce
  <1> QED
    BY <1>1, <1>2, <1>3, <1>4, <1>5, <1>6, <1>7, <1>8

\* IInv holds in every reachable state.
THEOREM Invariance == Spec => []IInv
  <1>1. Init => IInv
    BY InitIInv
  <1>2. IInv /\ [Next]_vars => IInv'
    BY NextIInv
  <1> QED
    BY <1>1, <1>2, PTL DEF Spec

\* The variables keep their types, and exactly the running workflow holds the
\* mutex.
THEOREM TypeCorrect == Spec => []TypeOK
  <1>1. IInv => TypeOK
    BY DEF IInv
  <1> QED
    BY <1>1, Invariance, PTL

\* A published checkpoint was true of one instant (verify_quiescence).
THEOREM CheckpointsAreSound == Spec => []CheckpointSound
  <1>1. IInv => CheckpointSound
    BY DEF IInv
  <1> QED
    BY <1>1, Invariance, PTL

\* A patch lands only on the version its guard read, which still is the snapshot
\* of the accepted baseline (guard-*, patch-* of maintenance-resources-v1).
THEOREM PatchesLandOnGuarded == Spec => []PatchLandsOnGuarded
  <1>1. IInv => PatchLandsOnGuarded
    BY DEF IInv
  <1> QED
    BY <1>1, Invariance, PTL

\* When a pause run read the pointer, the ledger held the receipt that adopts the
\* incarnations it goes on to patch, and these were live, though receipt, pointer
\* and root are read one after the other while the ledger changes (steps pointer,
\* receipt, root-after and baseline of release-maintenance-pause-v1).
THEOREM OnlyAdoptedArePatched == Spec => []OnlyAdoptedPatched
  <1>1. IInv => OnlyAdoptedPatched
    BY DEF IInv
  <1> QED
    BY <1>1, Invariance, PTL

\* Root, child and Deployment are patched in this order, each after the patch
\* before it took effect (the step order of release-maintenance-pause-v1).
THEOREM PatchesAreOrdered == Spec => []PausedInOrder
  <1>1. IInv => PausedInOrder
    <2> SUFFICES ASSUME IInv, NEW c \in commits, c.res # "root"
                 PROVE  \E d \in commits : /\ d.run = c.run /\ d.res # "deployment"
                                           /\ Following[d.res] = c.res
      BY DEF PausedInOrder
    <2>1. c.res = "child" \/ c.res = "deployment"
      BY Names DEF IInv, TypeOK, Committed
    <2>2. CASE c.res = "child"
      <3>1. Effective(c.run, "root")
        BY <2>2, Names DEF IInv, PatchesFollow, Precedes
      <3> QED
        BY <2>2, <3>1, Names DEF Effective
    <2>3. CASE c.res = "deployment"
      <3>1. Effective(c.run, "child")
        BY <2>3, Names DEF IInv, PatchesFollow, Precedes
      <3> QED
        BY <2>3, <3>1, Names DEF Effective
    <2> QED
      BY <2>1, <2>2, <2>3
  <1> QED
    BY <1>1, Invariance, PTL

\* A pause run that publishes a checkpoint has committed all three patches.
THEOREM PausesAreComplete == Spec => []PauseComplete
  <1>1. IInv => PauseComplete
    BY DEF IInv
  <1> QED
    BY <1>1, Invariance, PTL

\* A second delivery of a patch that took effect is a no-op: the tests on
\* resourceVersion and spec refuse it or meet what it would write.
THEOREM ResentPatchesAreNoOps == Spec => []ResentPatchIsNoOp
  <1>1. IInv => ResentPatchIsNoOp
    <2> SUFFICES ASSUME IInv, NEW q \in requests, NEW c \in commits,
                        c.run = q.run, c.res = q.res, TestsPass(q)
                 PROVE  obj[q.res].switch = "off"
      BY DEF ResentPatchIsNoOp
    <2>1. c.seen = q.seen
      BY DEF IInv, PatchedOnce
    <2>2. \/ q.seen.rv < obj[q.res].rv
          \/ q.seen = obj[q.res] /\ q.seen.switch = "off"
      BY <2>1 DEF IInv, PatchedOnce
    <2>3. q.seen.rv \in Nat /\ obj[q.res].rv = q.seen.rv
      BY DEF IInv, TypeOK, Request, Object, TestsPass
    <2> QED
      BY <2>2, <2>3
  <1> QED
    BY <1>1, Invariance, PTL
=============================================================================
