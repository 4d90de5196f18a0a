---------------------------- MODULE AcceptanceRun ----------------------------
(***************************************************************************)
(* The integration acceptance of Kubernetes benchmarks                     *)
(* (scripts/kubernetes_acceptance): after the cluster has been qualified,  *)
(* one session completes a reference Run and approves its baseline,        *)
(* cancels a second Run and deletes the control-plane Pod while the        *)
(* cleanup of that Run holds the target, and lets a third Run be decided   *)
(* against the baseline by the replacement.                                *)
(*                                                                         *)
(* The control plane, Kubernetes and other operators go on between any two *)
(* requests of the session.  What they must not do they may do MaxFaults   *)
(* times.  A session that is refused, loses an answer, runs out of time or *)
(* is interrupted stops where it is (Fail) and repairs nothing.            *)
(***************************************************************************)
EXTENDS ClusterQualification

CONSTANT MaxFaults     \* bound: misdeeds of the world, the changes before the session included

ASSUME FaultsAssumption == MaxFaults \in Nat

\* The Runs the session submits, one of an earlier session, one of a stranger.
Submitted == {"reference", "cancellation", "decision"}
Runs == Submitted \cup {"earlier", "other"}

VARIABLES
    run,           \* per Run: its state, and the reference its report was made with
    hold,          \* per Run: its reservation of the target
    controller,    \* the control-plane Pod: uid, ready
    client,        \* the session's client Pod
    baseline,      \* the one baseline version of the policy
    session,       \* the acceptance session
    journal,       \* what its journal records
    restartedAt,   \* history: the cancelled Run's hold when the Pod was deleted
    faults

benchmarkVars == <<run, hold>>
acceptanceVars == <<run, hold, controller, client, baseline, session, journal, restartedAt, faults>>
vars == <<qualificationVars, acceptanceVars>>

Terminal == {"COMPLETED", "ABORTED", "FAILED"}
Dispatchable == {"CREATED", "RUNNING"}
Unreleased == {"held", "fenced"}

NoRun == [state |-> "none", report |-> "none"]
NoHold == [state |-> "none", id |-> 0, drained |-> FALSE, left |-> FALSE]
Cleaned == [state |-> "released", id |-> 1, drained |-> TRUE, left |-> FALSE]
NoBaseline == [state |-> "none", source |-> "none", artifact |-> "none", revision |-> 0,
               measured |-> FALSE, by |-> "none"]

AcceptanceInit ==
    /\ \E earlier \in {NoRun, [state |-> "COMPLETED", report |-> "none"]} :
          /\ run = [r \in Runs |-> IF r = "earlier" THEN earlier ELSE NoRun]
          /\ hold = [r \in Runs |-> IF r = "earlier" /\ earlier # NoRun THEN Cleaned ELSE NoHold]
          /\ \/ baseline = NoBaseline
             \/ /\ earlier # NoRun
                /\ \E state \in {"CANDIDATE", "QUALIFIED", "APPROVED"},
                      artifact \in {"earlier", "other"}, measured \in BOOLEAN :
                       baseline = [state |-> state, source |-> "earlier", artifact |-> artifact,
                                   revision |-> 1, measured |-> measured, by |-> "other"]
    /\ controller = [uid |-> 1, ready |-> TRUE] /\ client = "none"
    /\ \E consent \in BOOLEAN, reference \in {"none", "earlier"} :
          session = [step |-> "preflight", phase |-> "reference", consent |-> consent,
                     reference |-> reference, source |-> "none", record |-> NoBaseline,
                     held |-> NoHold, pod |-> 0]
    /\ journal = {} /\ restartedAt = "none" /\ faults = 0

-----------------------------------------------------------------------------
(***************************************************************************)
(* The control plane and Kubernetes                                        *)
(***************************************************************************)
WorldStep == UNCHANGED <<qualificationVars, client, session, journal, restartedAt>>

Lifecycle(r, from, to) ==
    /\ controller.ready /\ run[r].state \in from
    /\ run' = [run EXCEPT ![r].state = to]
    /\ WorldStep /\ UNCHANGED <<controller, baseline, faults>>

Dispatch(r) ==
    /\ Lifecycle(r, {"CREATED"}, "RUNNING")
    /\ hold' = [hold EXCEPT ![r] = [NoHold EXCEPT !.state = "held", !.id = 1]]

ExecutorDone(r) == Lifecycle(r, {"RUNNING"}, "FINISHING") /\ UNCHANGED hold

Cleanup(r, from, next) ==
    /\ controller.ready /\ hold[r].state = from
    /\ run[r].state \in {"FINISHING", "CANCELLING", "FAILED"}
    /\ hold' = [hold EXCEPT ![r] = next]
    /\ WorldStep /\ UNCHANGED <<run, controller, baseline>>

Fence(r) == Cleanup(r, "held", [hold[r] EXCEPT !.state = "fenced"]) /\ UNCHANGED faults

Drain(r) ==
    /\ ~hold[r].drained
    /\ Cleanup(r, "fenced", [hold[r] EXCEPT !.drained = TRUE]) /\ UNCHANGED faults

Release(r) ==
    /\ hold[r].drained
    /\ Cleanup(r, "fenced", [hold[r] EXCEPT !.state = "released"]) /\ UNCHANGED faults

Reference == IF baseline.state = "APPROVED" THEN baseline.source ELSE "none"

CompleteWith(r, report) ==
    /\ controller.ready /\ run[r].state = "FINISHING" /\ hold[r].state = "released"
    /\ run' = [run EXCEPT ![r] = [state |-> "COMPLETED", report |-> report]]
    /\ WorldStep /\ UNCHANGED <<hold, controller, baseline>>

Complete(r) == CompleteWith(r, Reference) /\ UNCHANGED faults

Abort(r) ==
    /\ \/ hold[r].state = "released" \/ hold[r] = NoHold
    /\ Lifecycle(r, {"CANCELLING"}, "ABORTED") /\ UNCHANGED hold

PodReady ==
    /\ ~controller.ready
    /\ controller' = [controller EXCEPT !.ready = TRUE]
    /\ WorldStep /\ UNCHANGED <<benchmarkVars, baseline, faults>>

Fault == faults + changes < MaxFaults /\ faults' = faults + 1

RunFails(r) ==
    /\ Fault /\ run[r].state \in {"CREATED", "RUNNING", "FINISHING", "CANCELLING"}
    /\ run' = [run EXCEPT ![r].state = "FAILED"]
    /\ WorldStep /\ UNCHANGED <<hold, controller, baseline>>

\* The hold is released before its drain boundary, or leaves objects behind.
ReleaseBadly(r) ==
    /\ Fault
    /\ \E drained, left \in BOOLEAN :
          Cleanup(r, "fenced", [hold[r] EXCEPT !.state = "released", !.drained = drained,
                                               !.left = left])

\* A recovering controller reserves the target anew instead of resuming.
ReserveAnew(r) ==
    /\ Fault
    /\ \E from \in Unreleased :
          Cleanup(r, from, [NoHold EXCEPT !.state = "held", !.id = hold[r].id + 1])

\* A report is unusable, or was made with the wrong reference.
MisReport(r) ==
    /\ Fault
    /\ \E report \in {"none", "unusable", "other", "earlier"} : CompleteWith(r, report)

ControllerCrashes ==
    /\ Fault /\ controller.ready
    /\ controller' = [uid |-> controller.uid + 1, ready |-> FALSE]
    /\ WorldStep /\ UNCHANGED <<benchmarkVars, baseline>>

ClientReplaced ==
    /\ Fault /\ client = "own"
    /\ client' = "replaced"
    /\ UNCHANGED <<qualificationVars, benchmarkVars, controller, baseline, session, journal, restartedAt>>

StrangerSubmits ==
    /\ Fault /\ run["other"] = NoRun
    /\ run' = [run EXCEPT !["other"].state = "CREATED"]
    /\ WorldStep /\ UNCHANGED <<hold, controller, baseline>>

Follows == [none |-> {"CANDIDATE"}, CANDIDATE |-> {"QUALIFIED", "RETIRED"},
            QUALIFIED |-> {"APPROVED", "RETIRED"}, APPROVED |-> {"RETIRED"}, RETIRED |-> {}]

StrangerMovesBaseline ==
    /\ Fault
    /\ \E state \in Follows[baseline.state], source \in Runs, measured \in BOOLEAN :
          /\ baseline.state = "none" => run[source].state = "COMPLETED"
          /\ baseline' = IF baseline.state = "none"
                         THEN [state |-> state, source |-> source, artifact |-> source,
                               revision |-> 1, measured |-> FALSE, by |-> "other"]
                         ELSE [baseline EXCEPT !.state = state, !.revision = @ + 1, !.by = "other",
                                  !.measured = IF state = "QUALIFIED" THEN measured ELSE @]
    /\ WorldStep /\ UNCHANGED <<benchmarkVars, controller>>

-----------------------------------------------------------------------------
(***************************************************************************)
(* The session                                                             *)
(***************************************************************************)
At(step) == session.step = step
Go(step) == session' = [session EXCEPT !.step = step]
Proceed(step, phase) == session' = [session EXCEPT !.step = step, !.phase = phase]

Reads == UNCHANGED <<qualificationVars, benchmarkVars, controller, client, baseline, journal,
                     restartedAt, faults>>
Records(event) ==
    /\ journal' = journal \cup {event}
    /\ UNCHANGED <<qualificationVars, benchmarkVars, controller, client, baseline, restartedAt, faults>>

\* Every call of the API or the store goes through a client verified first.
Calls == client = "own"

\* "This is a check, not an inter-operator lock."
Exclusive(allowed) ==
    \A r \in Runs \ allowed : /\ run[r].state \in {"none"} \cup Terminal
                              /\ hold[r].state \notin Unreleased

Preflight ==
    /\ At("preflight") /\ Qualified /\ controller.ready
    /\ Go("first window") /\ Reads

FirstWindow ==
    /\ At("first window") /\ Exclusive({})
    /\ Go("plan") /\ Reads

PlanSession ==
    /\ At("plan") /\ Records("session-planned")
    /\ Go("client")

CreateClient ==
    /\ At("client")
    /\ client' = "own"
    /\ Go("inspection window")
    /\ UNCHANGED <<qualificationVars, benchmarkVars, controller, baseline, journal, restartedAt, faults>>

InspectionWindow ==
    /\ At("inspection window") /\ Exclusive({})
    /\ Go("inspect") /\ Reads

Authorized == baseline.state = "APPROVED" \/ session.consent

SelectSource ==
    IF baseline # NoBaseline THEN baseline.source ELSE session.reference

InspectBaseline ==
    /\ At("inspect") /\ Calls /\ controller.ready /\ Authorized
    /\ baseline # NoBaseline => session.reference \in {"none", baseline.source}
    /\ session' = [session EXCEPT !.record = baseline,
                      !.source = IF SelectSource = "none" THEN "reference" ELSE SelectSource,
                      !.step = IF SelectSource = "none" THEN "intent" ELSE "await"]
    /\ Reads

\* Mutation: the submission is journalled once it has been answered.
NoIntent == Reads

\* Mutation: the intent does not name the phase.
UnnamedIntent == Records("submission-intent")

IntentRecorded == Records(session.phase)

Intend ==
    /\ At("intent") /\ IntentRecorded
    /\ Go("submit")

AfterSubmit == IF session.phase = "cancellation" THEN "executor" ELSE "await"

Submit ==
    /\ At("submit") /\ Calls /\ controller.ready
    /\ run' = [run EXCEPT ![session.phase].state = "CREATED"]
    /\ Go(AfterSubmit)
    /\ UNCHANGED <<qualificationVars, hold, controller, client, baseline, journal, restartedAt, faults>>

\* The Run whose completion and evidence the phase requires.
Subject == IF session.phase = "reference" THEN session.source ELSE session.phase

AwaitCompleted ==
    /\ At("await") /\ Calls /\ controller.ready /\ run[Subject].state = "COMPLETED"
    /\ Go("artifacts") /\ Reads

\* The evidence is complete, eligible and of this Run.
Attested(r) == run[r].report # "unusable"

VerifyArtifacts ==
    /\ At("artifacts") /\ Calls /\ controller.ready /\ Attested(Subject)
    /\ Go("proof") /\ Reads

\* cleanup_proof, and Lifecycle.cleanup's look for what may be left.
CleanupProof(r) == hold[r].state = "released" /\ hold[r].drained /\ ~hold[r].left

AfterProof == IF session.phase = "reference" THEN "qualify" ELSE "decide"

VerifyCleanup ==
    /\ At("proof") /\ CleanupProof(Subject)
    /\ Go(AfterProof) /\ Reads

\* The baseline is approved on the evidence of its source.
SourceQualifies == run[session.source].report = "none"

IntendApproval ==
    /\ At("qualify") /\ SourceQualifies
    /\ Records("approval")
    /\ Go(IF session.record = NoBaseline THEN "create" ELSE "match")

Matches(record) == record.source = session.source /\ record.artifact = session.source

MatchExisting ==
    /\ At("match") /\ Matches(session.record)
    /\ session.record.state = "APPROVED" \/ session.consent
    /\ Go("advance") /\ Reads

CreateBaseline ==
    /\ At("create") /\ Calls /\ controller.ready /\ session.consent /\ baseline = NoBaseline
    /\ baseline' = [state |-> "CANDIDATE", source |-> session.source, artifact |-> session.source,
                    revision |-> 1, measured |-> FALSE, by |-> "session"]
    /\ session' = [session EXCEPT !.record = baseline', !.step = "advance"]
    /\ UNCHANGED <<qualificationVars, benchmarkVars, controller, client, journal, restartedAt, faults>>

\* The server compares the expected revision.
Transition(from, next) ==
    /\ At("advance") /\ Calls /\ controller.ready /\ session.record.state = from
    /\ baseline.revision = session.record.revision
    /\ baseline' = [next EXCEPT !.revision = @ + 1, !.by = "session"]
    /\ session' = [session EXCEPT !.record = baseline']
    /\ UNCHANGED <<qualificationVars, benchmarkVars, controller, client, journal, restartedAt, faults>>

QualifyBaseline ==
    Transition("CANDIDATE", [baseline EXCEPT !.state = "QUALIFIED", !.measured = TRUE])

\* Mutation: a pending qualification is approved as it stands.
AnyQualification(record) == TRUE

QualificationAgrees(record) == record.measured

ApproveBaseline ==
    /\ QualificationAgrees(session.record)
    /\ Transition("QUALIFIED", [baseline EXCEPT !.state = "APPROVED"])

BaselineApproved ==
    /\ At("advance") /\ session.record.state = "APPROVED"
    /\ QualificationAgrees(session.record)
    /\ Go("cancel window") /\ Reads

CancelWindow ==
    /\ At("cancel window") /\ Exclusive({})
    /\ Proceed("intent", "cancellation") /\ Reads

\* The executor Job must be seen before the Run leaves its dispatch window.
SeeExecutor ==
    /\ At("executor") /\ Calls /\ controller.ready
    /\ run["cancellation"].state = "RUNNING"
    /\ Go("cancel") /\ Reads

RequestCancel ==
    /\ At("cancel") /\ Calls /\ controller.ready /\ run["cancellation"].state \in Dispatchable
    /\ run' = [run EXCEPT !["cancellation"].state = "CANCELLING"]
    /\ Go("observe")
    /\ UNCHANGED <<qualificationVars, hold, controller, client, baseline, journal, restartedAt, faults>>

ObserveCancelling ==
    /\ At("observe") /\ Calls /\ controller.ready /\ run["cancellation"].state = "CANCELLING"
    /\ Go("fence") /\ Reads

Held == hold["cancellation"]

AwaitFence ==
    /\ At("fence") /\ Held.state # "released"
    /\ \/ Held.state # "fenced" /\ Go("observe")
       \/ /\ Held.state = "fenced"
          /\ session' = [session EXCEPT !.held = Held, !.step = "checkpoint"]
    /\ Reads

\* Mutation: the checkpoint is left to the record of the replacement.
NoCheckpoint == Reads

CheckpointRecorded == Records("cleanup-held-before-restart")

CheckpointHold ==
    /\ At("checkpoint") /\ CheckpointRecorded
    /\ Go("restart window")

RestartWindow ==
    /\ At("restart window") /\ Exclusive({"cancellation"})
    /\ Go("controller") /\ Reads

ReadController ==
    /\ At("controller") /\ controller.ready
    /\ session' = [session EXCEPT !.pod = controller.uid, !.step = "reread"]
    /\ Reads

\* Mutation: only that the Run still has a hold is compared.
SomeReservation == Held.state # "none"

SameReservation == Held.id = session.held.id

RereadHold ==
    /\ At("reread") /\ SameReservation /\ Held.state \in Unreleased
    /\ Go("delete") /\ Reads

\* The deletion carries the UID and resourceVersion of the Pod that was read.
DeletePod ==
    /\ At("delete") /\ controller.uid = session.pod
    /\ controller' = [uid |-> controller.uid + 1, ready |-> FALSE]
    /\ restartedAt' = Held.state
    /\ Go("replacement")
    /\ UNCHANGED <<qualificationVars, benchmarkVars, client, baseline, journal, faults>>

ReadReplacement ==
    /\ At("replacement") /\ controller.ready /\ controller.uid # session.pod
    /\ Go("recovered hold") /\ Reads

RecoveredHold ==
    /\ At("recovered hold") /\ SameReservation
    /\ Records("controller-replaced")
    /\ Go("aborted")

AwaitAborted ==
    /\ At("aborted") /\ Calls /\ controller.ready /\ run["cancellation"].state = "ABORTED"
    /\ Go("recovered cleanup") /\ Reads

RecoveredCleanup ==
    /\ At("recovered cleanup") /\ CleanupProof("cancellation") /\ SameReservation
    /\ Go("persisted") /\ Reads

BaselinePersisted ==
    /\ At("persisted") /\ Calls /\ controller.ready /\ baseline = session.record
    /\ Go("decision window") /\ Reads

DecisionWindow ==
    /\ At("decision window") /\ Exclusive({})
    /\ Proceed("intent", "decision") /\ Reads

\* Mutation: a report without a reference counts as a decision.
AnyReport == run["decision"].report \in {session.source, "none"}

Decided == run["decision"].report = session.source

Decide ==
    /\ At("decide") /\ Decided
    /\ Go("source again") /\ Reads

SourceAgain ==
    /\ At("source again") /\ Calls /\ controller.ready /\ run[session.source].state = "COMPLETED"
    /\ Go("cancelled again") /\ Reads

CancelledAgain ==
    /\ At("cancelled again") /\ Calls /\ controller.ready /\ run["cancellation"].state = "ABORTED"
    /\ Go("last window") /\ Reads

LastWindow ==
    /\ At("last window") /\ Exclusive({})
    /\ Go("record") /\ Reads

RecordPassed ==
    /\ At("record") /\ Records("acceptance-passed")
    /\ Go("finish")

Finish == At("finish") /\ Go("passed") /\ Reads

Fail ==
    /\ session.step \notin {"passed", "failed"}
    /\ journal' = IF "session-planned" \in journal THEN journal \cup {"incomplete"} ELSE journal
    /\ Go("failed")
    /\ UNCHANGED <<qualificationVars, benchmarkVars, controller, client, baseline, restartedAt, faults>>

WorldNext ==
    \/ \E r \in Runs : \/ Dispatch(r) \/ ExecutorDone(r) \/ Fence(r) \/ Drain(r) \/ Release(r)
                       \/ Complete(r) \/ Abort(r)
                       \/ RunFails(r) \/ ReleaseBadly(r) \/ ReserveAnew(r) \/ MisReport(r)
    \/ PodReady \/ ControllerCrashes \/ ClientReplaced \/ StrangerSubmits \/ StrangerMovesBaseline

SessionNext ==
    \/ Preflight \/ FirstWindow \/ PlanSession \/ CreateClient \/ InspectionWindow
    \/ InspectBaseline
    \/ Intend \/ Submit \/ AwaitCompleted \/ VerifyArtifacts \/ VerifyCleanup
    \/ IntendApproval \/ MatchExisting \/ CreateBaseline \/ QualifyBaseline \/ ApproveBaseline
    \/ BaselineApproved \/ CancelWindow \/ SeeExecutor \/ RequestCancel \/ ObserveCancelling
    \/ AwaitFence \/ CheckpointHold \/ RestartWindow \/ ReadController \/ RereadHold \/ DeletePod
    \/ ReadReplacement \/ RecoveredHold \/ AwaitAborted \/ RecoveredCleanup
    \/ BaselinePersisted \/ DecisionWindow \/ Decide \/ SourceAgain \/ CancelledAgain
    \/ LastWindow \/ RecordPassed \/ Finish \/ Fail

Active == session.step \notin {"preflight", "passed", "failed"}

Init == QualificationInit /\ AcceptanceInit

Next ==
    \/ At("preflight") /\ QualificationNext /\ UNCHANGED acceptanceVars
    \/ Active /\ WorldNext
    \/ SessionNext

Spec == Init /\ [][Next]_vars

-----------------------------------------------------------------------------
(***************************************************************************)
(* Properties                                                              *)
(***************************************************************************)
AcceptanceTypeOK ==
    /\ QualificationTypeOK
    /\ \A r \in Runs :
          /\ run[r].state \in {"none", "CREATED", "RUNNING", "FINISHING", "CANCELLING"} \cup Terminal
          /\ run[r].report \in Runs \cup {"none", "unusable"}
          /\ hold[r].state \in {"none", "released"} \cup Unreleased /\ hold[r].id \in Nat
    /\ controller.uid \in Nat /\ client \in {"none", "own", "replaced"}
    /\ {baseline.state, session.record.state} \subseteq DOMAIN Follows
    /\ session.phase \in Submitted /\ session.source \in Runs \cup {"none"}
    /\ journal \subseteq Submitted \cup
           {"session-planned", "approval", "cleanup-held-before-restart", "controller-replaced",
            "acceptance-passed", "incomplete"}
    /\ faults \in 0..MaxFaults

Passed == At("passed")

\* Workflow.cancel_and_recover and lifecycle.same_reservation: an acceptance
\* passes only if the reservation that was drained and released, with nothing
\* left behind, is the very one the session saw fenced before it deleted the
\* Pod, never taken anew in between, its Run was aborted, and the Pod it read
\* before the deletion is gone.  That the Run was aborted after the deletion is
\* not said: see RestartDuringHold.
PassedMeansRecovered ==
    Passed =>
        /\ run["cancellation"].state = "ABORTED"
        /\ CleanupProof("cancellation") /\ Held.id = session.held.id
        /\ session.held.state = "fenced"
        /\ controller.uid # session.pod /\ restartedAt # "none"

\* evidence.decision and baseline.match: an acceptance passes only if its last
\* Run was decided against the source of the baseline it had approved, which
\* carries the qualification and the result of that source, itself completed,
\* cleaned up and made without a reference - whatever other operators did to
\* the baseline meanwhile.
PassedMeansDecided ==
    Passed =>
        /\ run["decision"].state = "COMPLETED" /\ run["decision"].report = session.source
        /\ session.record.state = "APPROVED" /\ session.record.measured
        /\ Matches(session.record)
        /\ run[session.source].state = "COMPLETED" /\ CleanupProof(session.source)
        /\ run[session.source].report = "none"

\* baseline.approve: a baseline this session has approved carries the measured
\* qualification and the result of a completed Run, although it may have been
\* created, or moved, by somebody else before.
ApprovedOnEvidence ==
    baseline.state = "APPROVED" /\ baseline.by = "session" =>
        /\ baseline.measured /\ baseline.artifact = baseline.source
        /\ run[baseline.source].state = "COMPLETED" /\ CleanupProof(baseline.source)
        /\ session.consent

\* "Keep safe identities before writes" (journal.py:19): wherever a session is
\* interrupted, the journal names the client Pod it may have created, every Run
\* it may have submitted, the approval it may have begun and the hold during
\* which it may have deleted the Pod, and so does what it leaves to be inspected.
JournalCoversWrites ==
    /\ client # "none" => "session-planned" \in journal
    /\ \A r \in Submitted : run[r] # NoRun => r \in journal
    /\ baseline.by = "session" => "approval" \in journal
    /\ restartedAt # "none" => "cleanup-held-before-restart" \in journal

\* "Restart during durable cancellation cleanup and prove that exact hold
\* recovers" (workflow.py:110): an acceptance that passes has deleted the Pod
\* while the cancelled Run's hold was not yet released.  It need not have:
\* the hold is last read before the deletion is sent (lifecycle.py:239), and
\* nothing read later tells when it was released.
RestartDuringHold == Passed => restartedAt \in Unreleased

-----------------------------------------------------------------------------
(***************************************************************************)
(* The inductive invariant                                                 *)
(***************************************************************************)
Opening == {"preflight", "first window", "plan", "client", "inspection window", "inspect"}

\* The steps that are taken, or repeated, in each phase.
StepsOf ==
    [reference |-> Opening \cup {"intent", "submit", "await", "artifacts", "proof", "qualify",
                                 "create", "match", "advance", "cancel window"},
     cancellation |-> {"intent", "submit", "executor", "cancel", "observe", "fence",
                       "checkpoint", "restart window", "controller", "reread", "delete",
                       "replacement", "recovered hold", "aborted", "recovered cleanup",
                       "persisted", "decision window"},
     decision |-> {"intent", "submit", "await", "artifacts", "proof", "decide", "source again",
                   "cancelled again", "last window", "record", "finish", "passed"}]

RunStates == {"none", "CREATED", "RUNNING", "FINISHING", "CANCELLING"} \cup Terminal
HoldRecords == [state : {"none", "released"} \cup Unreleased, id : Nat, drained : BOOLEAN,
                left : BOOLEAN]
BaselineRecords == [state : DOMAIN Follows, source : Runs \cup {"none"},
                    artifact : Runs \cup {"none"}, revision : Nat, measured : BOOLEAN,
                    by : {"none", "other", "session"}]

RecordsTyped ==
    /\ run \in [Runs -> [state : RunStates, report : Runs \cup {"none", "unusable"}]]
    /\ hold \in [Runs -> HoldRecords]
    /\ controller \in [uid : Nat, ready : BOOLEAN]
    /\ baseline \in BaselineRecords
    /\ DOMAIN session = {"step", "phase", "consent", "reference", "source", "record", "held", "pod"}
    /\ session.phase \in Submitted /\ session.consent \in BOOLEAN
    /\ session.reference \in {"none", "earlier"}
    /\ session.source \in Runs \cup {"none"} /\ session.record \in BaselineRecords
    /\ session.held \in HoldRecords /\ session.pod \in Nat

\* A Run that was never submitted holds nothing, and one that has ended well
\* no longer does.
HoldsFollowRuns ==
    \A r \in Runs :
        /\ run[r].state = "none" => run[r] = NoRun
        /\ run[r].state \in {"none", "CREATED"} => hold[r] = NoHold
        /\ run[r].report # "none" => run[r].state = "COMPLETED"

\* A Run of a session is submitted in its phase, once, after its intent.
IntentsInOrder ==
    /\ session.step \in StepsOf[session.phase] \cup {"failed"}
    /\ "reference" \in journal =>
           session.phase # "reference" \/ session.step \notin Opening \cup {"intent"}
    /\ "cancellation" \in journal =>
           session.phase = "decision" \/ (session.phase = "cancellation" /\ ~At("intent"))
    /\ "decision" \in journal => session.phase = "decision" /\ ~At("intent")
    /\ At("submit") => session.phase \in journal /\ run[session.phase] = NoRun
    /\ session.phase # "reference" /\ session.step \notin {"intent", "failed"} =>
           session.phase \in journal

\* A revision of the baseline is never changed, so the record the session
\* keeps is the baseline as long as the revisions agree.
RevisionsIdentify ==
    /\ baseline.state = "none" => baseline = NoBaseline
    /\ baseline # NoBaseline => baseline.source \in Runs
    /\ session.record.revision <= baseline.revision
    /\ session.record.revision = baseline.revision => session.record = baseline

\* What a session can establish of its source and of its baseline, ...
SubjectCompleted == Subject \in Runs /\ run[Subject].state = "COMPLETED"
SourceProved == session.source \in Runs /\ run[session.source].state = "COMPLETED"
                /\ CleanupProof(session.source)
Approvable ==
    /\ session.record # NoBaseline /\ Matches(session.record)
    /\ session.record.state = "APPROVED" \/ session.consent
Approved ==
    /\ session.record.state = "APPROVED" /\ session.record.measured
    /\ Matches(session.record)

\* ... of the Run it cancels and the Pod it replaces, ...
FenceSeen == Held.state # "none"
Restarted == restartedAt # "none"
Replaced == session.pod < controller.uid
Aborted == run["cancellation"].state = "ABORTED"
Recovered == Aborted /\ CleanupProof("cancellation") /\ SameReservation /\ Replaced /\ Restarted

\* ... and of the Run that is decided.
DecisionCompleted == run["decision"].state = "COMPLETED"

\* What it has established when it comes to a step. None of it is undone.
BaselineEstablished ==
    /\ session.step \notin Opening \cup {"failed"} => session.source \in Runs
    /\ session.step \in {"artifacts", "proof"} => SubjectCompleted
    /\ session.phase # "reference" \/ session.step \in {"qualify", "create", "match", "advance",
                                                      "cancel window"} => SourceProved
    /\ session.phase # "reference" \/ session.step \in {"create", "match", "advance",
                                                      "cancel window"} => SourceQualifies
    /\ session.step \in {"create", "match", "advance"} => "approval" \in journal
    /\ At("advance") => Approvable
    /\ session.phase # "reference" \/ At("cancel window") => Approved

RecoveryEstablished ==
    /\ session.step \in {"checkpoint", "restart window", "controller", "reread", "delete"} =>
           FenceSeen
    /\ session.step \in {"replacement", "recovered hold", "aborted", "recovered cleanup"} =>
           Restarted
    /\ session.step \in {"recovered hold", "aborted", "recovered cleanup"} => Replaced
    /\ At("recovered cleanup") => Aborted
    /\ session.phase = "decision" \/ session.step \in {"persisted", "decision window"} =>
           Recovered

DecisionEstablished ==
    /\ session.step \in {"decide", "source again", "cancelled again", "last window", "record",
                         "finish", "passed"} => DecisionCompleted
    /\ session.step \in {"source again", "cancelled again", "last window", "record", "finish",
                         "passed"} => Decided

\* What is journalled before the client and the restart, and the hold seen since.
Restarting == {"restart window", "controller", "reread", "delete"}
Holding == {"checkpoint", "replacement", "recovered hold", "aborted", "recovered cleanup",
            "persisted", "decision window"} \cup Restarting

CheckpointsInOrder ==
    /\ At("client") => "session-planned" \in journal
    /\ session.step \in Restarting => "cleanup-held-before-restart" \in journal
    /\ session.phase = "decision" \/ session.step \in Holding => session.held.state = "fenced"

Established ==
    /\ IntentsInOrder /\ BaselineEstablished /\ RecoveryEstablished /\ DecisionEstablished
    /\ session.pod <= controller.uid

AcceptanceInv ==
    /\ QualificationInv /\ RecordsTyped /\ HoldsFollowRuns /\ RevisionsIdentify /\ Established
    /\ AcceptanceTypeOK /\ ApprovedOnEvidence /\ JournalCoversWrites /\ CheckpointsInOrder
=============================================================================
