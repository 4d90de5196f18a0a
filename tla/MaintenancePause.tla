-------------------------- MODULE MaintenancePause --------------------------
(***************************************************************************)
(* The workflows perfeng-release-maintenance-pause-v1 and                  *)
(* perfeng-release-maintenance-checkpoint-v3 over the objects of           *)
(* ControlPlaneObjects.                                                    *)
(*                                                                         *)
(* A submitted run holds the mutex perfeng-local-external-state from its   *)
(* start to its end, so that one set of step outputs is enough.  A pause   *)
(* run snapshots the child, the Deployment and, twice, the root, and       *)
(* between the two samples it reads pointer and receipt of the adopted     *)
(* baseline.  Then, for root, child and Deployment in this order, it reads *)
(* the object again (guard) and patches it (pause).  Either kind of run    *)
(* ends by observing quiescence: the three objects, the Pods, the three    *)
(* objects again.                                                          *)
(*                                                                         *)
(* A patch is a request of its own: the API server may commit it late, the *)
(* executor may send it again, its response may be lost, and the run may   *)
(* be stopped (a refusal, a node or workflow deadline, argo stop) at any   *)
(* step while the request is still under way.                              *)
(***************************************************************************)
EXTENDS ControlPlaneObjects

CONSTANTS
    Runs,       \* submitted workflows
    NoRun,      \* nobody holds the mutex
    Kinds,      \* the workflows submitted: "pause", "checkpoint" or both
    Attempts    \* observations of quiescence a pause run may make

ASSUME NoRunAssumption == NoRun \notin Runs
ASSUME KindsAssumption == Kinds \subseteq {"pause", "checkpoint"}
ASSUME AttemptsAssumption == Attempts \in Nat \ {0}

VARIABLES
    receipts,     \* the request's adoption receipt in the ledger, or none
    pointers,     \* the receipt UID in the current pointer (0 is another request's), or none
    outcome,      \* per run: "pending", "running", "succeeded" or "failed"
    holder,       \* the run that holds the mutex
    kind,         \* what the holder is: "pause" or "checkpoint"
    pc,           \* the holder's next step
    target,       \* the object that step is about
    base,         \* the snapshots on which the baseline was accepted
    pointerRead,  \* the receipt UID in the pointer that was read
    receiptRead,  \* the receipt that was read
    baseline,     \* history: ledger and Application UIDs when the pointer was read
    seen,         \* what the guard read
    before,       \* quiescence: first reading of the objects
    podList,      \* quiescence: the Pods listed
    after,        \* quiescence: second reading
    attempt,      \* quiescence: observations begun
    requests,     \* patches the API server may still receive
    commits,      \* history: patches committed, with the object they met
    instant,      \* history: the objects when the Pods were listed
    checkpoints   \* published checkpoints, each with its instant

ledger == <<receipts, pointers>>
records == <<pointerRead, receiptRead, baseline>>
stepVars == <<kind, pc, target, base, records, seen, before, podList, after, attempt, instant>>
runVars == <<ledger, outcome, holder, stepVars, requests, commits, checkpoints>>
vars == <<clusterVars, runVars>>

Nothing == [r \in Resources |-> [uid |-> 0, rv |-> 0, switch |-> "on", phase |-> "deleting",
                                 rest |-> CHOOSE rest \in Rests : TRUE,
                                 status |-> "progressing"]]

NoReceipt == [uid |-> 0, adopted |-> [a \in Applications |-> 0]]
NoBaseline == [receipts |-> {}, pointers |-> {}, uids |-> [a \in Applications |-> 0]]

Following == [root |-> "child", child |-> "deployment"]

\* The state of the step outputs when no run is active.
Cleared ==
    /\ kind' = "checkpoint" /\ pc' = "idle" /\ target' = "root" /\ attempt' = 0
    /\ base' = Nothing /\ seen' = Nothing["root"]
    /\ pointerRead' = 0 /\ receiptRead' = NoReceipt /\ baseline' = NoBaseline
    /\ before' = Nothing /\ podList' = {} /\ after' = Nothing /\ instant' = Nothing

Init ==
    /\ ClusterInit
    /\ receipts \in {{}, {[uid |-> 1, adopted |-> [a \in Applications |-> 1]]}}
    /\ pointers \in {{}, {1}}
    /\ outcome = [w \in Runs |-> "pending"]
    /\ holder = NoRun
    /\ kind = "checkpoint" /\ pc = "idle" /\ target = "root" /\ attempt = 0
    /\ base = Nothing /\ seen = Nothing["root"]
    /\ pointerRead = 0 /\ receiptRead = NoReceipt /\ baseline = NoBaseline
    /\ before = Nothing /\ podList = {} /\ after = Nothing /\ instant = Nothing
    /\ requests = {} /\ commits = {} /\ checkpoints = {}

Goto(step, r) == pc' = step /\ target' = r

-----------------------------------------------------------------------------
(* Starting and ending a run. *)

Start(w, k) ==
    /\ holder = NoRun /\ outcome[w] = "pending"
    /\ holder' = w /\ kind' = k
    /\ outcome' = [outcome EXCEPT ![w] = "running"]
    /\ IF k = "pause" THEN Goto("application", "child") /\ attempt' = 0
                      ELSE Goto("collect", "root") /\ attempt' = 1
    /\ UNCHANGED <<clusterVars, ledger, base, records, seen, before, podList, after,
                   requests, commits, instant, checkpoints>>

End(result) ==
    /\ outcome' = [outcome EXCEPT ![holder] = result]
    /\ holder' = NoRun
    /\ Cleared

\* A step refuses, times out or loses its response, the workflow's deadline
\* passes or somebody stops it. Requests that were sent stay sent.
Stop ==
    /\ holder # NoRun
    /\ End("failed")
    /\ UNCHANGED <<clusterVars, ledger, requests, commits, checkpoints>>

-----------------------------------------------------------------------------
(* The baseline. *)

Observe(r) == base' = [base EXCEPT ![r] = obj[r]]

ReadingUnchanged == UNCHANGED <<clusterVars, ledger, outcome, holder, kind, seen, before,
                                podList, after, attempt, requests, commits, instant,
                                checkpoints>>
BaselineUnchanged == ReadingUnchanged /\ UNCHANGED records

Converged(o) == ApplicationIdentified(o) /\ o.status = "ready"

\* steps application and deployment, with the readiness they must show
ReadApplication ==
    /\ pc = "application" /\ Converged(obj["child"])
    /\ Observe("child") /\ Goto("deployment", "deployment")
    /\ BaselineUnchanged

ReadDeployment ==
    /\ pc = "deployment"
    /\ Identified(obj["deployment"])
    /\ obj["deployment"].switch = "on" /\ obj["deployment"].status = "ready"
    /\ Observe("deployment") /\ Goto("root", "root")
    /\ BaselineUnchanged

\* step root: the first of two samples
ReadRoot ==
    /\ pc = "root"
    /\ Observe("root") /\ Goto("pointer", "root")
    /\ BaselineUnchanged

\* step pointer; without a pointer the baseline is refused, and the run can only
\* stop
ReadPointer ==
    /\ pc = "pointer"
    /\ \E p \in pointers : pointerRead' = p
    /\ baseline' = [receipts |-> receipts, pointers |-> pointers,
                    uids |-> [a \in Applications |-> obj[a].uid]]
    /\ Goto("receipt", "root")
    /\ UNCHANGED <<base, receiptRead>> /\ ReadingUnchanged

\* step receipt: the record that has this request's name now
ReadReceipt ==
    /\ pc = "receipt"
    /\ \E r \in receipts : receiptRead' = r
    /\ Goto("root-after", "root")
    /\ UNCHANGED <<base, pointerRead, baseline>> /\ ReadingUnchanged

\* Equal but for what a comparison by Argo CD advances.
SameSample(o, p) == o = [p EXCEPT !.rv = o.rv]

\* The receipt records these incarnations.
Records(receipt, root, child) ==
    receipt.adopted = [a \in Applications |-> IF a = "root" THEN root.uid ELSE child.uid]

\* Mutation: a receipt of the request's name is taken for the one that the
\* pointer references.
AdoptedByName(root, child) == Records(receiptRead, root, child)

\* The pointer references the receipt's UID, and that receipt records these
\* incarnations.
Adopted(root, child) ==
    /\ pointerRead = receiptRead.uid
    /\ Records(receiptRead, root, child)

\* steps root-after and baseline: the second sample of the root is the snapshot
\* that the guard is given
AcceptBaseline ==
    /\ pc = "root-after"
    /\ Converged(base["root"]) /\ Converged(obj["root"])
    /\ SameSample(base["root"], obj["root"])
    /\ Adopted(base["root"], base["child"])
    /\ Observe("root") /\ Goto("guard", "root")
    /\ BaselineUnchanged

-----------------------------------------------------------------------------
(* Guarded patches. *)

\* The fresh reading still is the snapshot: identity, spec and metadata, and,
\* for an Application, the verdict too, with no sync operation.
Guarded(r, o, snapshot) ==
    /\ o.uid = snapshot.uid
    /\ o.switch = snapshot.switch /\ o.rest = snapshot.rest
    /\ Identified(o)
    /\ r \in Applications => /\ o.phase = "settled"
                             /\ o.status = snapshot.status

\* steps guard-root, guard-child and guard-deployment
Guard ==
    /\ pc = "guard" /\ Guarded(target, obj[target], base[target])
    /\ seen' = obj[target] /\ Goto("pause", target)
    /\ UNCHANGED <<clusterVars, ledger, outcome, holder, kind, base, records, before,
                   podList, after, attempt, requests, commits, instant, checkpoints>>

\* Mutation: the run goes on without waiting for the response.
PatchWithoutWaiting ==
    /\ pc = "pause"
    /\ requests' = requests \cup
           {[run |-> holder, res |-> target, seen |-> seen, snapshot |-> base[target],
             baseline |-> baseline]}
    /\ IF target = "deployment" THEN Goto("collect", "root") /\ attempt' = 1
       ELSE Goto("guard", Following[target]) /\ UNCHANGED attempt
    /\ UNCHANGED <<clusterVars, ledger, outcome, holder, kind, base, records, seen,
                   before, podList, after, commits, instant, checkpoints>>

\* steps pause-root, pause-child and pause-deployment: the executor sends the
\* patch; what it rests on is kept as history
Patch ==
    /\ pc = "pause"
    /\ requests' = requests \cup
           {[run |-> holder, res |-> target, seen |-> seen, snapshot |-> base[target],
             baseline |-> baseline]}
    /\ Goto("wait", target)
    /\ UNCHANGED <<clusterVars, ledger, outcome, holder, kind, base, records, seen,
                   before, podList, after, attempt, commits, instant, checkpoints>>

\* Mutation: the patch tests identity and spec, and no version.
TestsPassOnSpec(q) ==
    /\ obj[q.res].uid = q.seen.uid
    /\ obj[q.res].rest = q.seen.rest

\* The JSON patch's tests on uid, resourceVersion and spec.
TestsPass(q) ==
    /\ obj[q.res].uid = q.seen.uid
    /\ obj[q.res].rv = q.seen.rv
    /\ obj[q.res].switch = q.seen.switch /\ obj[q.res].rest = q.seen.rest

\* The response of q reaches the run that waits for it, which goes on.
Respond(q) ==
    /\ holder = q.run /\ pc = "wait" /\ target = q.res
    /\ IF q.res = "deployment"
       THEN Goto("collect", "root") /\ attempt' = 1
       ELSE Goto("guard", Following[q.res]) /\ UNCHANGED attempt

\* The API server applies the patch. The response may be lost, and the
\* executor's transport may deliver the request once more.
Commit(q, again) ==
    /\ TestsPass(q)
    /\ Specify(q.res, "off", obj[q.res].rest)
    /\ commits' = commits \cup {[run |-> q.run, res |-> q.res, seen |-> q.seen,
                                 snapshot |-> q.snapshot, baseline |-> q.baseline,
                                 met |-> obj[q.res]]}
    /\ requests' = IF again THEN requests ELSE requests \ {q}
    /\ \/ Respond(q)
       \/ UNCHANGED <<pc, target, attempt>>
    /\ UNCHANGED <<pods, meddled, ledger, outcome, holder, kind, base, records, seen,
                   before, podList, after, instant, checkpoints>>

\* Mutation: the step succeeds although the patch was refused or lost.
DiscardUnnoticed(q) ==
    /\ requests' = requests \ {q}
    /\ Respond(q)
    /\ UNCHANGED <<clusterVars, ledger, outcome, holder, kind, base, records, seen,
                   before, podList, after, instant, commits, checkpoints>>

\* The request is refused by its tests, or never arrives. The run that waits
\* for it can only stop.
Discard(q) ==
    /\ requests' = requests \ {q}
    /\ UNCHANGED <<clusterVars, ledger, outcome, holder, stepVars, commits, checkpoints>>

-----------------------------------------------------------------------------
(* The observation of quiescence (run_quiescence), retried by a pause run. *)

Collect ==
    /\ pc = "collect"
    /\ before' = [before EXCEPT ![target] = obj[target]]
    /\ IF target = "deployment" THEN Goto("pods", "root")
                                ELSE Goto("collect", Following[target])
    /\ UNCHANGED <<clusterVars, ledger, outcome, holder, kind, base, records, seen,
                   podList, after, attempt, requests, commits, instant, checkpoints>>

ListPods ==
    /\ pc = "pods"
    /\ podList' = pods /\ instant' = obj
    /\ Goto("recollect", "root")
    /\ UNCHANGED <<clusterVars, ledger, outcome, holder, kind, base, records, seen,
                   before, after, attempt, requests, commits, checkpoints>>

Recollect ==
    /\ pc = "recollect"
    /\ after' = [after EXCEPT ![target] = obj[target]]
    /\ IF target = "deployment" THEN Goto("verify", "root")
                                ELSE Goto("recollect", Following[target])
    /\ UNCHANGED <<clusterVars, ledger, outcome, holder, kind, base, records, seen,
                   before, podList, attempt, requests, commits, instant, checkpoints>>

\* Mutation: the second readings are compared by content instead of version.
VerifiedByContent ==
    /\ Quiet(before, podList)
    /\ \A r \in Resources : /\ after[r].uid = before[r].uid
                            /\ after[r].switch = before[r].switch
                            /\ after[r].phase = before[r].phase

\* verify_quiescence on the seven readings
Verified ==
    /\ Quiet(before, podList)
    /\ \A r \in Resources : /\ after[r].phase # "deleting"
                            /\ Identity(after[r]) = Identity(before[r])

Publish ==
    /\ pc = "verify" /\ Verified
    /\ checkpoints' = checkpoints \cup
           {[run |-> holder, kind |-> kind, ids |-> [r \in Resources |-> Identity(before[r])],
             objects |-> instant, pods |-> podList]}
    /\ End("succeeded")
    /\ UNCHANGED <<clusterVars, ledger, requests, commits>>

\* Mutation: observations without a limit.
RetryForEver ==
    /\ pc = "verify" /\ ~Verified /\ kind = "pause"
    /\ Goto("collect", "root")
    /\ before' = Nothing /\ podList' = {} /\ after' = Nothing /\ instant' = Nothing
    /\ UNCHANGED <<clusterVars, ledger, outcome, holder, kind, base, records, seen,
                   attempt, requests, commits, checkpoints>>

\* Only the observation is retried, with fresh readings.
Retry ==
    /\ pc = "verify" /\ ~Verified
    /\ kind = "pause" /\ attempt < Attempts
    /\ attempt' = attempt + 1 /\ Goto("collect", "root")
    /\ before' = Nothing /\ podList' = {} /\ after' = Nothing /\ instant' = Nothing
    /\ UNCHANGED <<clusterVars, ledger, outcome, holder, kind, base, records, seen,
                   requests, commits, checkpoints>>

-----------------------------------------------------------------------------
(* Everybody else in the ledger. *)

\* The receipt is removed or created anew (by a late create of an adoption, or
\* by hand), and so is the pointer, which is mutable as well: it may come to
\* reference another request's receipt (0).
LedgerWrite ==
    /\ Meddle /\ rev' = rev + 1
    /\ \/ receipts # {} /\ receipts' = {} /\ UNCHANGED pointers
       \/ /\ receipts = {} /\ UNCHANGED pointers
          /\ \E rootUID \in {0, obj["root"].uid} :
                 receipts' = {[uid |-> rev + 1,
                               adopted |-> [a \in Applications |->
                                               IF a = "root" THEN rootUID
                                                             ELSE obj["child"].uid]]}
       \/ /\ UNCHANGED receipts
          /\ pointers' \in {{}} \cup {{u} : u \in {0} \cup {r.uid : r \in receipts}}
          /\ pointers' # pointers
    /\ UNCHANGED <<obj, pods, outcome, holder, stepVars, requests, commits, checkpoints>>

-----------------------------------------------------------------------------
RunStep ==
    \/ ReadApplication \/ ReadDeployment \/ ReadRoot
    \/ ReadPointer \/ ReadReceipt \/ AcceptBaseline
    \/ Guard \/ Patch
    \/ Collect \/ ListPods \/ Recollect \/ Publish \/ Retry

Next ==
    \/ ClusterNext /\ UNCHANGED runVars
    \/ LedgerWrite
    \/ \E w \in Runs, k \in Kinds : Start(w, k)
    \/ RunStep
    \/ Stop
    \/ \E q \in requests, again \in BOOLEAN : Commit(q, again)
    \/ \E q \in requests : Discard(q)

Spec == Init /\ [][Next]_vars

\* Argo's controller keeps a run going or ends it (a refused step fails the run,
\* and so does its deadline), and starts submissions while the mutex is free.
Fairness ==
    /\ WF_vars(RunStep \/ Stop)
    /\ WF_vars(\E w \in Runs, k \in Kinds : Start(w, k))

FairSpec == Spec /\ Fairness

-----------------------------------------------------------------------------
(* Properties. *)

Receipt == [uid : Nat, adopted : [Applications -> Nat]]
Baseline == [receipts : SUBSET Receipt, pointers : SUBSET Nat, uids : [Applications -> Nat]]
Request == [run : Runs, res : Resources, seen : Object, snapshot : Object,
            baseline : Baseline]
Committed == [run : Runs, res : Resources, seen : Object, snapshot : Object,
              baseline : Baseline, met : Object]
Checkpoint == [run : Runs, kind : {"pause", "checkpoint"}, ids : [Resources -> Nat \X Nat],
               objects : [Resources -> Object], pods : SUBSET PodStates]

Steps == {"idle", "application", "deployment", "root", "pointer", "receipt", "root-after", "guard",
          "pause", "wait", "collect", "pods", "recollect", "verify"}

\* The types of all variables; a pause run observes at most Attempts times.
TypeOK ==
    /\ ClusterTypeOK
    /\ receipts \in SUBSET Receipt /\ pointers \in SUBSET Nat
    /\ outcome \in [Runs -> {"pending", "running", "succeeded", "failed"}]
    /\ holder \in Runs \cup {NoRun}
    /\ kind \in {"pause", "checkpoint"} /\ pc \in Steps /\ target \in Resources
    /\ base \in [Resources -> Object] /\ seen \in Object
    /\ pointerRead \in Nat /\ receiptRead \in Receipt /\ baseline \in Baseline
    /\ before \in [Resources -> Object] /\ podList \in SUBSET PodStates
    /\ after \in [Resources -> Object] /\ instant \in [Resources -> Object]
    /\ attempt \in 0..Attempts
    /\ requests \in SUBSET Request /\ commits \in SUBSET Committed
    /\ checkpoints \in SUBSET Checkpoint

\* A published checkpoint was true of one instant: when its Pods were listed,
\* both Applications were paused and settled, the Deployment was stopped and no
\* Pod was left, all at once and in the versions the checkpoint names - although
\* verify_quiescence only ever sees seven readings taken at different times.
CheckpointSound ==
    \A c \in checkpoints :
        /\ Quiet(c.objects, c.pods)
        /\ \A r \in Resources : c.ids[r] = Identity(c.objects[r])

\* No lost update: whatever delays a patch, it lands only on the very version
\* its guard read, which still is the snapshot of the accepted baseline, and
\* never on an Application that a sync is using.
PatchLandsOnGuarded ==
    \A c \in commits : c.met = c.seen /\ Guarded(c.res, c.met, c.snapshot)

\* The record s of the ledger b adopts the incarnation uid of r.
AdoptedIn(b, r, uid) ==
    \E s \in b.receipts :
        /\ s.uid \in b.pointers
        /\ r \in Applications => s.adopted[r] = uid

\* Pointer, receipt and the two samples of the root are read one after the other
\* while the ledger's records are removed, created anew and edited.  Yet there
\* was one instant - the reading of the pointer - at which the ledger held this
\* request's receipt and a pointer that references it, and at which the
\* Application that a patch meets was live and the one adopted.
OnlyAdoptedPatched ==
    \A c \in commits :
        /\ AdoptedIn(c.baseline, c.res, c.met.uid)
        /\ c.res \in Applications => c.baseline.uids[c.res] = c.met.uid

\* The child is patched only after this run's patch of the root has taken
\* effect, and the Deployment only after the child's: otherwise a reconciler
\* that is not paused yet could undo the later write.
PausedInOrder ==
    \A c \in commits : c.res # "root" =>
        \E d \in commits : d.run = c.run /\ d.res # "deployment" /\ Following[d.res] = c.res

\* A pause run that publishes a checkpoint has committed all three patches,
\* however many responses were lost.
PauseComplete ==
    \A c \in checkpoints : c.kind = "pause" =>
        {d.res : d \in {e \in commits : e.run = c.run}} = Resources

\* A patch that has taken effect once and is delivered again (transport retry)
\* changes nothing: it cannot undo a resumption made since.
ResentPatchIsNoOp ==
    \A q \in requests :
        (/\ \E c \in commits : c.run = q.run /\ c.res = q.res
         /\ TestsPass(q)) => obj[q.res].switch = "off"

\* Every submitted workflow ends, and so gives the mutex back: no wait for a
\* lost response and no retry of the observation lasts for ever.
EverySubmissionEnds ==
    \A w \in Runs : outcome[w] = "pending" ~> outcome[w] \in {"succeeded", "failed"}

-----------------------------------------------------------------------------
(* The inductive invariant behind the safety properties. *)

Precedes(r, s) ==
    <<r, s>> \in {<<"root", "child">>, <<"root", "deployment">>, <<"child", "deployment">>}

\* The patch of r that run w sends has taken effect.
Effective(w, r) == \E c \in commits : c.run = w /\ c.res = r

\* The run that holds the mutex is the running one; nothing is known of a run
\* that has not started.
MutexHeld ==
    /\ holder = NoRun <=> pc = "idle"
    /\ \A w \in Runs : outcome[w] = "running" <=> w = holder
    /\ \A q \in requests \cup commits : outcome[q.run] # "pending"
    /\ pc \in {"application", "deployment", "root", "pointer", "receipt", "root-after", "guard",
              "pause", "wait"} => kind = "pause"

\* Every reading is of the stored version or of an older one, and the three
\* readings of an observation are in their order.
ReadingsOrdered ==
    /\ \A r \in Resources : /\ NoNewer(before[r], obj[r])
                            /\ NoNewer(instant[r], obj[r])
    /\ pc \in {"recollect", "verify"} =>
           \A r \in Resources : NoNewer(before[r], instant[r])
    /\ \A r \in Resources :
           pc = "verify" \/ (pc = "recollect" /\ Precedes(r, target))
               => NoNewer(instant[r], after[r])

\* A patch, once its guard has passed, carries a guarded reading of its object.
PatchesGuarded ==
    /\ pc = "pause" => /\ NoNewer(seen, obj[target])
                       /\ Guarded(target, seen, base[target])
    /\ \A q \in requests : /\ NoNewer(q.seen, obj[q.res])
                           /\ Guarded(q.res, q.seen, q.snapshot)

\* UIDs are drawn once, of Applications as of receipts.
UIDsDrawn ==
    /\ IncarnationsDrawn
    /\ \A r \in receipts : r.uid <= rev
    /\ \A u \in pointers : u <= rev

\* In the run's readings an incarnation was met no earlier than in the reading
\* before: root and child up to the pointer, and from it to now.
IncarnationsOrdered ==
    /\ pc \in {"deployment", "root", "pointer"} => base["child"].uid <= obj["child"].uid
    /\ pc = "pointer" => base["root"].uid <= obj["root"].uid
    /\ pc \in {"receipt", "root-after", "guard", "pause", "wait"} =>
           \A a \in Applications : /\ base[a].uid <= baseline.uids[a]
                                   /\ baseline.uids[a] <= obj[a].uid
    /\ \A q \in requests : q.res \in Applications =>
           /\ q.snapshot.uid <= q.baseline.uids[q.res]
           /\ q.baseline.uids[q.res] <= obj[q.res].uid

\* A receipt with the UID that the pointer named was there when the pointer was
\* read: one that is created later has a fresh UID.
ReceiptsOlder ==
    /\ pc = "receipt" => /\ pointerRead <= rev /\ pointerRead \in baseline.pointers
                         /\ \A r \in receipts :
                                r.uid = pointerRead => r \in baseline.receipts
    /\ pc \in {"root-after", "guard", "pause", "wait"} =>
           /\ pointerRead \in baseline.pointers
           /\ receiptRead.uid = pointerRead => receiptRead \in baseline.receipts

\* Behind the baseline only adopted incarnations are snapshots of a patch.
SnapshotsAdopted ==
    /\ pc \in {"guard", "pause", "wait"} => Adopted(base["root"], base["child"])
    /\ \A q \in requests : AdoptedIn(q.baseline, q.res, q.snapshot.uid)

\* What the holder has patched is told by its step; a request follows the
\* commits of the objects before it.
PatchesFollow ==
    /\ pc \in {"guard", "pause", "wait"} =>
           \A r \in Resources : Precedes(r, target) => Effective(holder, r)
    /\ kind = "pause" /\ pc \in {"collect", "pods", "recollect", "verify"} =>
           \A r \in Resources : Effective(holder, r)
    /\ \A q \in requests \cup commits :
           \A r \in Resources : Precedes(r, q.res) => Effective(q.run, r)

\* A run sends one patch per object, so that a commit and a request of the same
\* run and object are deliveries of one patch, and its first commit has used up
\* the version it tests or changed nothing.
PatchedOnce ==
    /\ pc \in {"application", "deployment", "root", "pointer", "receipt", "root-after"} =>
           \A q \in requests \cup commits : q.run # holder
    /\ pc \in {"guard", "pause"} =>
           \A q \in requests \cup commits : q.run = holder => Precedes(q.res, target)
    /\ pc = "wait" =>
           \A q \in requests \cup commits :
               q.run = holder => q.res = target \/ Precedes(q.res, target)
    /\ \A q, p \in requests \cup commits :
           q.run = p.run /\ q.res = p.res => q.seen = p.seen
    /\ \A c \in commits : \/ c.seen.rv < obj[c.res].rv
                          \/ (c.seen = obj[c.res] /\ c.seen.switch = "off")

IInv ==
    /\ TypeOK /\ VersionsDrawn /\ MutexHeld
    /\ ReadingsOrdered /\ CheckpointSound
    /\ PatchesGuarded /\ PatchLandsOnGuarded
    /\ UIDsDrawn /\ IncarnationsOrdered /\ ReceiptsOlder
    /\ SnapshotsAdopted /\ OnlyAdoptedPatched
    /\ PatchesFollow /\ PauseComplete
    /\ PatchedOnce
=============================================================================
