------------------------ MODULE DatabasePreparation ------------------------
(***************************************************************************)
(* The database workflows perfeng-release-schema-migration-v2,             *)
(* perfeng-release-schema-qualification-v1, perfeng-release-runtime-       *)
(* grants-v2 and perfeng-release-database-prepare-v1, which runs the three *)
(* one after the other, over the objects of ControlPlaneObjects.           *)
(*                                                                         *)
(* Each task reads the ledger's pointer and the receipt it names, observes *)
(* quiescence, reads the receipt again and then the pointer again, binds   *)
(* the observation to the receipt, creates a Kubernetes Job and watches    *)
(* it.  The Job's Pod works on PostgreSQL in one transaction; migration    *)
(* and grants serialise on an advisory lock.                               *)
(*                                                                         *)
(* The observation of quiescence is one step here: CheckpointSound of      *)
(* MaintenancePause says that the seven readings it is made of were true   *)
(* of one instant.  The mutex is given back when a run is stopped, but its *)
(* create may still be under way, its Job still run, and the Job's         *)
(* transaction still commit.                                               *)
(***************************************************************************)
EXTENDS ControlPlaneObjects, Sequences

CONSTANTS
    Runs,      \* submitted workflows
    NoRun,     \* nobody holds the mutex
    Kinds      \* the workflows submitted

ASSUME NoRunAssumption == NoRun \notin Runs

\* The tasks of each workflow.
Plan == [migration |-> <<"migrate">>, qualification |-> <<"qualify">>, grants |-> <<"grant">>,
         preparation |-> <<"migrate", "qualify", "grant">>]

ASSUME KindsAssumption == Kinds \subseteq DOMAIN Plan

VARIABLES
    receipts,      \* the stored receipt of the expected baseline, if any
    pointers,      \* the stored pointer, if any
    manual,        \* history: writes by people to the control-plane objects
    outcome,       \* per run: "pending", "running", "succeeded" or "failed"
    holder,        \* the run that holds the mutex
    kind,          \* the holder's workflow
    done,          \* tasks it has completed
    pc,            \* its next step
    pointerRead,   \* output of step pointer
    receiptRead,   \* output of step receipt
    checkpoint,    \* history: what was true when quiescence was observed
    requests,      \* creates of Jobs the API server may still receive
    jobs,          \* Jobs created
    schema,        \* the database: "absent", "older" or "selected"
    granted,       \* the schema whose grants the runtime role has, or "none"
    prepared       \* preparations that have succeeded

ledgerVars == <<receipts, pointers>>
stepVars == <<kind, done, pc, pointerRead, receiptRead, checkpoint>>
runVars == <<outcome, holder, stepVars, prepared>>
databaseVars == <<schema, granted>>
vars == <<clusterVars, manual, ledgerVars, runVars, requests, jobs, databaseVars>>

\* The UIDs that a receipt recorded; what the pointer names.
Receipt == [uid : Nat, root : Nat, child : Nat]
Pointer == [uid : Nat, receipt : Nat]

\* What the ledger held, which Applications were observed, and how often
\* people had written, at the instant of an observation.
Observation == [receipts : SUBSET Receipt, pointers : SUBSET Pointer,
                uids : [Applications -> Nat], manual : Nat]

Tasks == {"migrate", "qualify", "grant"}
Schemas == {"absent", "older", "selected"}

Request == [run : Runs, task : Tasks, receipt : Receipt, pointer : Pointer,
            checkpoint : Observation]

\* work is the transaction of the Job's Pod, base the schema it found.
Job == [request : Request, state : {"created", "succeeded", "failed"},
        work : {"none", "open", "committed", "rolled back"}, base : Schemas]

NoReceipt == [uid |-> 0, root |-> 0, child |-> 0]
NoPointer == [uid |-> 0, receipt |-> 0]
NoObservation == [receipts |-> {}, pointers |-> {}, uids |-> [a \in Applications |-> 0],
                  manual |-> 0]

Init ==
    /\ ClusterInit /\ manual = 0
    /\ \/ /\ receipts = {[uid |-> 1, root |-> 1, child |-> 1]}
          /\ pointers = {[uid |-> 1, receipt |-> 1]}
       \/ receipts = {} /\ pointers = {}
    /\ outcome = [w \in Runs |-> "pending"] /\ holder = NoRun
    /\ kind = "preparation" /\ done = 0 /\ pc = "idle"
    /\ pointerRead = NoPointer /\ receiptRead = NoReceipt /\ checkpoint = NoObservation
    /\ requests = {} /\ jobs = {} /\ prepared = {}
    /\ schema \in Schemas
    /\ granted \in {"none", "older", "selected"}
    /\ schema = "absent" => granted = "none"
    /\ granted = "selected" => schema = "selected"

-----------------------------------------------------------------------------
(* Starting and ending a run. *)

Cleared ==
    /\ kind' = "preparation" /\ done' = 0 /\ pc' = "idle"
    /\ pointerRead' = NoPointer /\ receiptRead' = NoReceipt /\ checkpoint' = NoObservation

Start(w, k) ==
    /\ holder = NoRun /\ outcome[w] = "pending"
    /\ holder' = w /\ kind' = k /\ pc' = "pointer"
    /\ outcome' = [outcome EXCEPT ![w] = "running"]
    /\ UNCHANGED <<clusterVars, manual, ledgerVars, done, pointerRead, receiptRead, checkpoint,
                   requests, jobs, databaseVars, prepared>>

End(result) ==
    /\ outcome' = [outcome EXCEPT ![holder] = result]
    /\ holder' = NoRun
    /\ Cleared

\* A step refuses or times out, the Job has failed, the workflow's deadline
\* passes or somebody stops it. What was sent or created stays.
Stop ==
    /\ holder # NoRun
    /\ End("failed")
    /\ UNCHANGED <<clusterVars, manual, ledgerVars, requests, jobs, databaseVars, prepared>>

-----------------------------------------------------------------------------
(* Retained-baseline admission. *)

ReadPointer ==
    /\ pc = "pointer"
    /\ pointerRead' \in pointers
    /\ pc' = "receipt"
    /\ UNCHANGED <<clusterVars, manual, ledgerVars, outcome, holder, kind, done, receiptRead,
                   checkpoint, requests, jobs, databaseVars, prepared>>

\* steps receipt and accepted-bytes
ReadReceipt ==
    /\ pc = "receipt"
    /\ receiptRead' \in {r \in receipts : r.uid = pointerRead.receipt}
    /\ pc' = "quiescence"
    /\ UNCHANGED <<clusterVars, manual, ledgerVars, outcome, holder, kind, done, pointerRead,
                   checkpoint, requests, jobs, databaseVars, prepared>>

ObserveQuiescence ==
    /\ pc = "quiescence"
    /\ Quiet(obj, pods)
    /\ checkpoint' = [receipts |-> receipts, pointers |-> pointers, manual |-> manual,
                      uids |-> [a \in Applications |-> obj[a].uid]]
    /\ pc' = "receipt-stable"
    /\ UNCHANGED <<clusterVars, manual, ledgerVars, outcome, holder, kind, done, pointerRead,
                   receiptRead, requests, jobs, databaseVars, prepared>>

\* Mutation: the receipt is not read a second time.
SkipReceiptStable ==
    /\ pc = "receipt-stable"
    /\ pc' = "admission"
    /\ UNCHANGED <<clusterVars, manual, ledgerVars, outcome, holder, kind, done, pointerRead,
                   receiptRead, checkpoint, requests, jobs, databaseVars, prepared>>

ReceiptStable ==
    /\ pc = "receipt-stable"
    /\ receiptRead \in receipts
    /\ pc' = "admission"
    /\ UNCHANGED <<clusterVars, manual, ledgerVars, outcome, holder, kind, done, pointerRead,
                   receiptRead, checkpoint, requests, jobs, databaseVars, prepared>>

\* The observation is of the Applications that the receipt recorded.
Bound(observation, r) ==
    observation.uids["root"] = r.root /\ observation.uids["child"] = r.child

\* The pointer is the same incarnation with the same data.
Admit ==
    /\ pc = "admission"
    /\ pointerRead \in pointers
    /\ Bound(checkpoint, receiptRead)
    /\ pc' = "create"
    /\ UNCHANGED <<clusterVars, manual, ledgerVars, outcome, holder, kind, done, pointerRead,
                   receiptRead, checkpoint, requests, jobs, databaseVars, prepared>>

-----------------------------------------------------------------------------
(* Jobs. *)

\* The step's template creates the Job; receipt, pointer and checkpoint are kept
\* as history.
CreateJob ==
    /\ pc = "create"
    /\ requests' = requests \cup {[run |-> holder, task |-> Plan[kind][done + 1],
                                   receipt |-> receiptRead, pointer |-> pointerRead,
                                   checkpoint |-> checkpoint]}
    /\ pc' = "wait"
    /\ UNCHANGED <<clusterVars, manual, ledgerVars, outcome, holder, kind, done, pointerRead,
                   receiptRead, checkpoint, jobs, databaseVars, prepared>>

\* A Job is named by its task and the workflow's UID.
Named(w, task) == {j \in jobs : j.request.run = w /\ j.request.task = task}

\* The API server creates the Job; the response may be lost, and the executor's
\* transport may deliver the request once more.
CommitJob(q, again) ==
    /\ Named(q.run, q.task) = {}
    /\ jobs' = jobs \cup {[request |-> q, state |-> "created", work |-> "none",
                           base |-> "absent"]}
    /\ requests' = IF again THEN requests ELSE requests \ {q}
    /\ \/ holder = q.run /\ pc = "wait" /\ pc' = "watch"
       \/ UNCHANGED pc
    /\ UNCHANGED <<clusterVars, manual, ledgerVars, outcome, holder, kind, done, pointerRead,
                   receiptRead, checkpoint, databaseVars, prepared>>

\* The create meets a Job of that name, is refused, or never arrives. The run
\* that waits for it can only stop.
DiscardJob(q) ==
    /\ requests' = requests \ {q}
    /\ UNCHANGED <<clusterVars, manual, ledgerVars, runVars, jobs, databaseVars>>

\* Mutation: the step succeeds as soon as the Job exists.
Exists(w, task) == Named(w, task) # {}

\* successCondition status.succeeded > 0
Succeeded(w, task) == \E j \in Named(w, task) : j.state = "succeeded"

\* A step succeeds and another task follows, with an admission of its own.
NextTask ==
    /\ pc = "watch" /\ Succeeded(holder, Plan[kind][done + 1])
    /\ done + 1 < Len(Plan[kind])
    /\ done' = done + 1 /\ pc' = "pointer"
    /\ pointerRead' = NoPointer /\ receiptRead' = NoReceipt /\ checkpoint' = NoObservation
    /\ UNCHANGED <<clusterVars, manual, ledgerVars, outcome, holder, kind, requests, jobs,
                   databaseVars, prepared>>

Finish ==
    /\ pc = "watch" /\ Succeeded(holder, Plan[kind][done + 1])
    /\ done + 1 = Len(Plan[kind])
    /\ prepared' = IF kind = "preparation" THEN prepared \cup {holder} ELSE prepared
    /\ End("succeeded")
    /\ UNCHANGED <<clusterVars, manual, ledgerVars, requests, jobs, databaseVars>>

-----------------------------------------------------------------------------
(* The Job's Pod and PostgreSQL. *)

Turn(j, new) == jobs' = (jobs \ {j}) \cup {new}

Locked == \E j \in jobs : j.work = "open" /\ j.request.task # "qualify"

\* Mutation: nothing serialises migration and grants.
AdmitsUnlocked(task) ==
    /\ task = "grant" => schema # "absent"
    /\ task = "qualify" => schema = "selected"

\* Migration and grants take the advisory lock; grants need the required tables,
\* qualification exactly the selected migrations.
Admits(task) ==
    /\ task # "qualify" => ~Locked
    /\ task = "grant" => schema # "absent"
    /\ task = "qualify" => schema = "selected"

\* A Pod that is being killed may still get as far as this.
Begin(j) ==
    /\ j.state # "succeeded" /\ j.work = "none"
    /\ Admits(j.request.task)
    /\ Turn(j, [j EXCEPT !.work = "open", !.base = schema])
    /\ UNCHANGED <<clusterVars, manual, ledgerVars, runVars, requests, databaseVars>>

\* The transaction commits, maybe after its Job was declared failed.
CommitWork(j) ==
    /\ j.work = "open"
    /\ Turn(j, [j EXCEPT !.work = "committed"])
    /\ schema' = IF j.request.task = "migrate" THEN "selected" ELSE schema
    /\ granted' = IF j.request.task = "grant" THEN j.base ELSE granted
    /\ UNCHANGED <<clusterVars, manual, ledgerVars, runVars, requests>>

\* It is rolled back: an error, a timeout, a lost connection.
RollBack(j) ==
    /\ j.work = "open"
    /\ Turn(j, [j EXCEPT !.work = "rolled back", !.state = "failed"])
    /\ UNCHANGED <<clusterVars, manual, ledgerVars, runVars, requests, databaseVars>>

JobSucceeds(j) ==
    /\ j.state = "created" /\ j.work = "committed"
    /\ Turn(j, [j EXCEPT !.state = "succeeded"])
    /\ UNCHANGED <<clusterVars, manual, ledgerVars, runVars, requests, databaseVars>>

\* The Pod fails, is killed or passes the Job's deadline, before or after its
\* transaction; with backoffLimit 0 there is no second Pod.
JobFails(j) ==
    /\ j.state = "created"
    /\ Turn(j, [j EXCEPT !.state = "failed"])
    /\ UNCHANGED <<clusterVars, manual, ledgerVars, runVars, requests, databaseVars>>

-----------------------------------------------------------------------------
(* Everybody else. *)

Automation ==
    /\ Controllers \/ ArgoCD
    /\ UNCHANGED <<manual, ledgerVars, runVars, requests, jobs, databaseVars>>

Intervention ==
    /\ People
    /\ manual' = manual + 1
    /\ UNCHANGED <<ledgerVars, runVars, requests, jobs, databaseVars>>

\* Records of the ledger are removed, created anew (by a late create of an
\* adoption, or by hand) or, the pointer only, edited.
LedgerWrite ==
    /\ Meddle /\ rev' = rev + 1
    /\ \/ receipts # {} /\ receipts' = {} /\ UNCHANGED pointers
       \/ /\ receipts = {} /\ UNCHANGED pointers
          /\ \E rootUID \in {0, obj["root"].uid} :
                 receipts' = {[uid |-> rev + 1, root |-> rootUID, child |-> obj["child"].uid]}
       \/ pointers # {} /\ pointers' = {} /\ UNCHANGED receipts
       \/ /\ pointers = {} /\ UNCHANGED receipts
          /\ \E r \in receipts : pointers' = {[uid |-> rev + 1, receipt |-> r.uid]}
       \/ /\ UNCHANGED receipts
          /\ \E p \in pointers, u \in {0} \cup {r.uid : r \in receipts} :
                 pointers' = {[p EXCEPT !.receipt = u]}
    /\ UNCHANGED <<obj, pods, manual, runVars, requests, jobs, databaseVars>>

-----------------------------------------------------------------------------
RunStep ==
    \/ ReadPointer \/ ReadReceipt \/ ObserveQuiescence \/ ReceiptStable \/ Admit
    \/ CreateJob \/ NextTask \/ Finish

Database ==
    \E j \in jobs : Begin(j) \/ CommitWork(j) \/ RollBack(j) \/ JobSucceeds(j) \/ JobFails(j)

Next ==
    \/ \E w \in Runs, k \in Kinds : Start(w, k)
    \/ RunStep
    \/ Stop
    \/ \E q \in requests, again \in BOOLEAN : CommitJob(q, again)
    \/ \E q \in requests : DiscardJob(q)
    \/ Database
    \/ Automation \/ Intervention \/ LedgerWrite

Spec == Init /\ [][Next]_vars

-----------------------------------------------------------------------------
(* Properties. *)

Steps == {"idle", "pointer", "receipt", "quiescence", "receipt-stable", "admission", "create",
          "wait", "watch"}

\* The types of all variables; a run has always a task of its workflow to do.
TypeOK ==
    /\ ClusterTypeOK /\ manual \in Nat
    /\ receipts \in SUBSET Receipt /\ pointers \in SUBSET Pointer
    /\ outcome \in [Runs -> {"pending", "running", "succeeded", "failed"}]
    /\ holder \in Runs \cup {NoRun}
    /\ kind \in DOMAIN Plan /\ done \in 0..2 /\ done < Len(Plan[kind])
    /\ pc \in Steps
    /\ pointerRead \in Pointer /\ receiptRead \in Receipt /\ checkpoint \in Observation
    /\ requests \in SUBSET Request /\ jobs \in SUBSET Job
    /\ schema \in Schemas /\ granted \in {"none", "older", "selected"}
    /\ prepared \in SUBSET Runs

\* At the instant of the observation c the ledger held the receipt r and an
\* incarnation of the pointer p, and c is of the Applications that r recorded.
Retained(r, p, c) ==
    /\ r \in c.receipts
    /\ \E q \in c.pointers : q.uid = p.uid
    /\ p.receipt = r.uid
    /\ Bound(c, r)

\* No Job is created on behalf of a baseline that was not there: at the instant
\* at which quiescence was observed, the ledger held the very receipt that the
\* task relies on and an incarnation of the pointer that still named it when the
\* task was admitted, and the Applications observed were those the receipt
\* recorded - although the four records are read one after the other.
AdmittedUnderBaseline ==
    \A j \in jobs : Retained(j.request.receipt, j.request.pointer, j.request.checkpoint)

\* Unless people have written to the control-plane objects since the observation
\* c, they are quiet, and the same incarnations.
QuietSince(c) ==
    c.manual = manual => /\ Quiet(obj, pods)
                         /\ \A a \in Applications : obj[a].uid = c.uids[a]

\* Only people end the maintenance under a Job: as long as nobody has written to
\* the control-plane objects by hand since quiescence was observed, Argo CD and
\* the controllers leave them quiet - also when the run was stopped long ago, and
\* the Job or its transaction lives on.
OnlyPeopleInterrupt == \A j \in jobs : QuietSince(j.request.checkpoint)

\* The workflows, their Jobs and transactions implement DatabaseUpgrade: the schema
\* never goes back, grants are never made for a schema that has changed
\* meanwhile, and a preparation succeeds only on the selected schema with its
\* grants in force, whatever other runs have left under way.
Upgrade == INSTANCE DatabaseUpgrade
UpgradeSpec == Upgrade!Spec

-----------------------------------------------------------------------------
(* The inductive invariant behind the properties. *)

Requested == requests \cup {j.request : j \in jobs}

\* Steps are those of the running workflow, which holds the mutex, and a run that
\* has not started has sent nothing.
MutexHeld ==
    /\ holder = NoRun <=> pc = "idle"
    /\ holder = NoRun => done = 0
    /\ holder # NoRun => outcome[holder] = "running"
    /\ \A q \in Requested : outcome[q.run] # "pending"

\* The ledger's UIDs are drawn from the store's revisions.
UIDsDrawn ==
    /\ \A r \in receipts \cup {receiptRead} : r.uid <= rev
    /\ \A p \in pointers \cup {pointerRead} : p.uid <= rev

\* Admission, step by step: a record that is still stored when it is read again was
\* stored when quiescence was observed, for a new one has a new UID.
Admission ==
    /\ pc \in {"quiescence", "receipt-stable", "admission", "create"} =>
           pointerRead.receipt = receiptRead.uid
    /\ pc = "receipt-stable" /\ receiptRead \in receipts =>
           receiptRead \in checkpoint.receipts
    /\ pc = "admission" => receiptRead \in checkpoint.receipts
    /\ pc \in {"receipt-stable", "admission"} /\ (\E p \in pointers : p.uid = pointerRead.uid)
           => \E p \in checkpoint.pointers : p.uid = pointerRead.uid
    /\ pc = "create" => Retained(receiptRead, pointerRead, checkpoint)
    /\ \A q \in Requested : Retained(q.receipt, q.pointer, q.checkpoint)

\* The observations on which something may still be done.
Observations ==
    {q.checkpoint : q \in Requested} \cup
    IF pc \in {"receipt-stable", "admission", "create"} THEN {checkpoint} ELSE {}

Maintained == \A c \in Observations : c.manual <= manual /\ QuietSince(c)

\* What the Jobs have done can be told from the database.
Transactions ==
    /\ granted = "selected" => schema = "selected"
    /\ \A i, j \in jobs :
           /\ i.work = "open" /\ i.request.task # "qualify"
           /\ j.work = "open" /\ j.request.task # "qualify"
           => i = j
    /\ \A j \in jobs :
           /\ j.state = "succeeded" => j.work = "committed"
           /\ j.base = "selected" => schema = "selected"
           /\ j.request.task = "migrate" /\ j.work = "committed" => schema = "selected"
           /\ j.request.task = "grant" /\ j.work = "open" => j.base = schema /\ schema # "absent"
           /\ j.request.task = "grant" /\ j.work = "committed" /\ j.base = "selected"
                  => granted = "selected"

\* A preparation asks for grants only after its own migration, and a database that
\* is prepared remains so.
PreparedInOrder ==
    /\ kind = "preparation" /\ done > 0 => schema = "selected"
    /\ \A q \in Requested :
           q.run = holder /\ kind = "preparation" /\ q.task = "grant" => done = 2
    /\ \A j \in jobs :
           /\ j.request.run = holder /\ kind = "preparation" /\ j.request.task = "grant"
           /\ j.work # "none"
           => j.base = "selected"
    /\ prepared # {} => schema = "selected" /\ granted = "selected"

DatabaseInv ==
    /\ TypeOK /\ VersionsDrawn /\ MutexHeld /\ UIDsDrawn
    /\ Admission /\ AdmittedUnderBaseline
    /\ Maintained /\ OnlyPeopleInterrupt
    /\ Transactions /\ PreparedInOrder
=============================================================================
