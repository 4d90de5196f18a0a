--------------------- MODULE DatabasePreparation_proofs ---------------------
(***************************************************************************)
(* DatabaseInv is an inductive invariant of DatabasePreparation for any    *)
(* runs, any workflows and any writes by others, and the module implements *)
(* DatabaseUpgrade.                                                        *)
(***************************************************************************)
EXTENDS DatabasePreparation, ControlPlaneObjects_proofs

-----------------------------------------------------------------------------
(* Facts about plans, requests and Jobs. *)

\* A workflow has one task, or is a preparation with its three in this order.
LEMMA PlanFacts ==
    /\ DOMAIN Plan = {"migration", "qualification", "grants", "preparation"}
    /\ Len(Plan["preparation"]) = 3
    /\ Plan["preparation"][1] = "migrate" /\ Plan["preparation"][2] = "qualify"
    /\ Plan["preparation"][3] = "grant"
    /\ \A k \in DOMAIN Plan : k # "preparation" => Len(Plan[k]) = 1 /\ Plan[k][1] \in Tasks
  BY DEF Plan, Tasks

LEMMA PlanLengths ==
    ASSUME NEW k \in DOMAIN Plan
    PROVE  Len(Plan[k]) \in Nat /\ 0 < Len(Plan[k]) /\ Len(Plan[k]) <= 3
  <1>1. CASE k = "preparation"
    BY <1>1, PlanFacts
  <1>2. CASE k # "preparation"
    <2>1. Len(Plan[k]) = 1
      BY <1>2, PlanFacts
    <2> QED
      BY <2>1
  <1> QED
    BY <1>1, <1>2

\* The step that a run is at belongs to a task.
LEMMA TaskTyped ==
    ASSUME TypeOK
    PROVE  Plan[kind][done + 1] \in Tasks
  <1>1. CASE kind = "preparation"
    BY <1>1, PlanFacts DEF TypeOK, Tasks
  <1>2. CASE kind # "preparation"
    <2>1. kind \in DOMAIN Plan /\ done \in 0..2 /\ done < Len(Plan[kind])
      BY DEF TypeOK
    <2>2. Len(Plan[kind]) = 1 /\ Plan[kind][1] \in Tasks
      BY <1>2, <2>1, PlanFacts
    <2>3. done = 0
      BY <2>1, <2>2
    <2> QED
      BY <2>2, <2>3
  <1> QED
    BY <1>1, <1>2

\* A Job in another state is still the Job of its request.
LEMMA Turned ==
    ASSUME jobs \in SUBSET Job, NEW j \in jobs, NEW new \in Job, new.request = j.request,
           Turn(j, new)
    PROVE  /\ jobs' \in SUBSET Job
           /\ {i.request : i \in jobs'} = {i.request : i \in jobs}
           /\ \A i \in jobs' : i = new \/ i \in jobs
  BY DEF Turn

\* The create that step CreateJob sends.
Sent == [run |-> holder, task |-> Plan[kind][done + 1], receipt |-> receiptRead,
         pointer |-> pointerRead, checkpoint |-> checkpoint]

\* What the Pods and PostgreSQL do to a Job concerns its state and transaction, and
\* the database, alone.
LEMMA DatabaseFrame ==
    ASSUME TypeOK, Transactions, Database
    PROVE  /\ UNCHANGED <<clusterVars, manual, ledgerVars, runVars, requests>>
           /\ jobs' \in SUBSET Job
           /\ {i.request : i \in jobs'} = {i.request : i \in jobs}
           /\ schema' \in Schemas /\ granted' \in {"none", "older", "selected"}
  <1> USE DEF TypeOK
  <1> DEFINE Framed == /\ jobs' \in SUBSET Job
                       /\ {i.request : i \in jobs'} = {i.request : i \in jobs}
  <1>1. ASSUME NEW j \in jobs, Begin(j) PROVE Framed
    <2> DEFINE new == [j EXCEPT !.work = "open", !.base = schema]
    <2>1. new \in Job /\ new.request = j.request /\ Turn(j, new)
      BY <1>1 DEF Job, Begin
    <2> HIDE DEF new
    <2> QED
      BY <2>1, Turned
  <1>2. ASSUME NEW j \in jobs, CommitWork(j)
        PROVE  Framed /\ schema' \in Schemas /\ granted' \in {"none", "older", "selected"}
    <2> DEFINE new == [j EXCEPT !.work = "committed"]
    <2>1. new \in Job /\ new.request = j.request /\ Turn(j, new)
      BY <1>2 DEF Job, CommitWork
    <2> HIDE DEF new
    <2>2. Framed
      BY <2>1, Turned
    <2>3. j.request.task = "grant" => j.base \in {"older", "selected"}
      BY <1>2 DEF CommitWork, Transactions, Schemas
    <2> QED
      BY <1>2, <2>2, <2>3 DEF CommitWork, Schemas
  <1>3. ASSUME NEW j \in jobs, RollBack(j) PROVE Framed
    <2> DEFINE new == [j EXCEPT !.work = "rolled back", !.state = "failed"]
    <2>1. new \in Job /\ new.request = j.request /\ Turn(j, new)
      BY <1>3 DEF Job, RollBack
    <2> HIDE DEF new
    <2> QED
      BY <2>1, Turned
  <1>4. ASSUME NEW j \in jobs, NEW result \in {"succeeded", "failed"},
               Turn(j, [j EXCEPT !.state = result])
        PROVE  Framed
    <2> DEFINE new == [j EXCEPT !.state = result]
    <2>1. new \in Job /\ new.request = j.request /\ Turn(j, new)
      BY <1>4 DEF Job
    <2> HIDE DEF new
    <2> QED
      BY <2>1, Turned
  <1>5. UNCHANGED <<clusterVars, manual, ledgerVars, runVars, requests>>
    BY DEF Database, Begin, CommitWork, RollBack, JobSucceeds, JobFails
  <1>6. ASSUME NEW j \in jobs, JobSucceeds(j) \/ JobFails(j) PROVE Framed
    BY <1>4, <1>6 DEF JobSucceeds, JobFails
  <1>7. ASSUME NEW j \in jobs, Begin(j) \/ RollBack(j) \/ JobSucceeds(j) \/ JobFails(j)
        PROVE  UNCHANGED databaseVars
    BY <1>7 DEF Begin, RollBack, JobSucceeds, JobFails
  <1> QED
    BY <1>1, <1>2, <1>3, <1>5, <1>6, <1>7 DEF Database, databaseVars

\* Only CreateJob requests anything new.
LEMMA RequestedStep ==
    ASSUME TypeOK, Transactions, [Next]_vars
    PROVE  \/ Requested' \subseteq Requested
           \/ CreateJob /\ Requested' = Requested \cup {Sent}
  <1>1. CASE UNCHANGED <<requests, jobs>>
    BY <1>1 DEF Requested
  <1>2. CASE Database
    <2>1. UNCHANGED requests /\ {i.request : i \in jobs'} = {i.request : i \in jobs}
      BY <1>2, DatabaseFrame
    <2> QED
      BY <2>1 DEF Requested
  <1>3. CASE CreateJob
    <2>1. requests' = requests \cup {Sent} /\ jobs' = jobs
      BY <1>3 DEF CreateJob, Sent
    <2> QED
      BY <1>3, <2>1 DEF Requested
  <1>4. ASSUME NEW q \in requests, NEW again \in BOOLEAN, CommitJob(q, again)
        PROVE  Requested' \subseteq Requested
    <2> DEFINE new == [request |-> q, state |-> "created", work |-> "none", base |-> "absent"]
    <2>1. jobs' = jobs \cup {new} /\ requests' \subseteq requests /\ new.request = q
      BY <1>4 DEF CommitJob
    <2> HIDE DEF new
    <2> QED
      BY <2>1 DEF Requested
  <1>5. ASSUME NEW q \in requests, DiscardJob(q) PROVE Requested' \subseteq Requested
    BY <1>5 DEF DiscardJob, Requested
  <1> QED
    BY <1>1, <1>2, <1>3, <1>4, <1>5
       DEF Next, RunStep, Start, Stop, ReadPointer, ReadReceipt, ObserveQuiescence,
           ReceiptStable, Admit, NextTask, Finish, Automation, Intervention, LedgerWrite, vars

-----------------------------------------------------------------------------
(* Types. *)

LEMMA InitTyped == Init => TypeOK /\ VersionsDrawn
  <1> SUFFICES ASSUME Init PROVE TypeOK /\ VersionsDrawn
    OBVIOUS
  <1>1. ClusterTypeOK /\ VersionsDrawn
    BY RestsAssumption, MeddlingAssumption
       DEF Init, ClusterInit, ClusterTypeOK, VersionsDrawn, Object, PodStates
  <1>2. kind \in DOMAIN Plan /\ done \in 0..2 /\ done < Len(Plan[kind])
    BY PlanFacts DEF Init
  <1>3. receipts \in SUBSET Receipt /\ pointers \in SUBSET Pointer
    BY DEF Init, Receipt, Pointer
  <1>4. pointerRead \in Pointer /\ receiptRead \in Receipt /\ checkpoint \in Observation
    BY DEF Init, Pointer, Receipt, Observation, NoPointer, NoReceipt, NoObservation
  <1> QED
    BY <1>1, <1>2, <1>3, <1>4 DEF Init, TypeOK, Steps

LEMMA ClearedTyped ==
    ASSUME Cleared
    PROVE  /\ kind' \in DOMAIN Plan /\ done' \in 0..2 /\ done' < Len(Plan[kind'])
           /\ pc' \in Steps
           /\ pointerRead' \in Pointer /\ receiptRead' \in Receipt /\ checkpoint' \in Observation
  <1>1. kind' = "preparation" /\ done' = 0
    BY DEF Cleared
  <1> QED
    BY <1>1, PlanFacts
       DEF Cleared, Steps, Pointer, Receipt, Observation, NoPointer, NoReceipt, NoObservation

LEMMA NextTyped ==
    ASSUME TypeOK, VersionsDrawn, MutexHeld, Transactions, [Next]_vars
    PROVE  TypeOK' /\ VersionsDrawn'
  <1> USE DEF TypeOK
  <1>a. pc # "idle" => holder \in Runs
    BY DEF MutexHeld
  <1>b. UNCHANGED clusterVars => ClusterTypeOK' /\ VersionsDrawn'
    BY DEF clusterVars, ClusterTypeOK, VersionsDrawn
  <1>1. ASSUME NEW w \in Runs, NEW k \in Kinds, Start(w, k) PROVE TypeOK' /\ VersionsDrawn'
    <2>1. k \in DOMAIN Plan /\ kind' = k /\ done' = done
      BY <1>1, KindsAssumption DEF Start
    <2>2. done = 0 /\ 0 < Len(Plan[k])
      BY <1>1, <2>1, PlanLengths DEF Start, MutexHeld
    <2> QED
      BY <1>1, <1>b, <2>1, <2>2 DEF Start, ledgerVars, databaseVars, Steps
  <1>2. CASE Stop
    BY <1>2, <1>b, ClearedTyped DEF Stop, End, ledgerVars, databaseVars
  <1>3. CASE ReadPointer \/ ReadReceipt \/ ReceiptStable \/ Admit
    BY <1>3, <1>b
       DEF ReadPointer, ReadReceipt, ReceiptStable, Admit, ledgerVars, databaseVars, Steps
  <1>4. CASE ObserveQuiescence
    <2>1. \A a \in Applications : obj[a].uid \in Nat
      BY DEF ClusterTypeOK, Resources, Object
    <2>2. checkpoint' \in Observation
      BY <1>4, <2>1 DEF ObserveQuiescence, Observation
    <2> QED
      BY <1>4, <1>b, <2>2 DEF ObserveQuiescence, ledgerVars, databaseVars, Steps
  <1>5. CASE CreateJob
    <2>1. Sent \in Request
      BY <1>5, <1>a, TaskTyped DEF CreateJob, Sent, Request
    <2>2. requests' = requests \cup {Sent}
      BY <1>5 DEF CreateJob, Sent
    <2> QED
      BY <1>5, <1>b, <2>1, <2>2 DEF CreateJob, ledgerVars, databaseVars, Steps
  <1>6. CASE NextTask
    <2>1. done' \in 0..2 /\ done' < Len(Plan[kind])
      <3>1. Len(Plan[kind]) \in Nat /\ Len(Plan[kind]) <= 3 /\ done \in 0..2
        BY PlanLengths
      <3>2. done' = done + 1 /\ done + 1 < Len(Plan[kind])
        BY <1>6 DEF NextTask
      <3> QED
        BY <3>1, <3>2
    <2> QED
      BY <1>6, <1>b, <2>1
         DEF NextTask, ledgerVars, databaseVars, Steps, Pointer, Receipt, Observation,
             NoPointer, NoReceipt, NoObservation
  <1>7. CASE Finish
    BY <1>7, <1>a, <1>b, ClearedTyped DEF Finish, End, ledgerVars, databaseVars
  <1>8. ASSUME NEW q \in requests, NEW again \in BOOLEAN, CommitJob(q, again)
        PROVE  TypeOK' /\ VersionsDrawn'
    <2>1. [request |-> q, state |-> "created", work |-> "none", base |-> "absent"] \in Job
      BY DEF Job, Schemas
    <2>2. jobs' \in SUBSET Job /\ requests' \in SUBSET Request
      BY <1>8, <2>1 DEF CommitJob
    <2> QED
      BY <1>8, <1>b, <2>2 DEF CommitJob, ledgerVars, databaseVars, Steps
  <1>9. ASSUME NEW q \in requests, DiscardJob(q) PROVE TypeOK' /\ VersionsDrawn'
    BY <1>9, <1>b DEF DiscardJob, ledgerVars, databaseVars, runVars, stepVars
  <1>10. CASE Database
    BY <1>10, <1>b, DatabaseFrame DEF ledgerVars, runVars, stepVars
  <1>11. CASE Automation \/ Intervention
    <2>1. ClusterNext
      BY <1>11 DEF Automation, Intervention, ClusterNext
    <2>2. ClusterTypeOK' /\ VersionsDrawn' /\ manual' \in Nat
      BY <1>11, <2>1, ClusterForward DEF Automation, Intervention
    <2> QED
      BY <1>11, <2>2
         DEF Automation, Intervention, ledgerVars, runVars, stepVars, databaseVars
  <1>12. CASE LedgerWrite
    <2>1. obj \in [Resources -> Object] /\ rev \in Nat
      BY DEF ClusterTypeOK
    <2>2. ClusterTypeOK' /\ VersionsDrawn'
      <3>1. obj' = obj /\ pods' = pods /\ rev' = rev + 1 /\ meddled' \in 0..MaxMeddling
        BY <1>12, MeddlingAssumption DEF LedgerWrite, Meddle, ClusterTypeOK
      <3>2. \A r \in Resources : obj[r].rv \in Nat
        BY <2>1 DEF Object
      <3> QED
        BY <2>1, <3>1, <3>2 DEF ClusterTypeOK, VersionsDrawn
    <2>3. receipts' \in SUBSET Receipt
      <3>1. \A rootUID \in {0, obj["root"].uid} :
                [uid |-> rev + 1, root |-> rootUID, child |-> obj["child"].uid] \in Receipt
        BY <2>1 DEF Receipt, Resources, Applications, Object
      <3> QED
        BY <1>12, <3>1 DEF LedgerWrite
    <2>4. pointers' \in SUBSET Pointer
      <3>1. \A r \in receipts : [uid |-> rev + 1, receipt |-> r.uid] \in Pointer
        BY <2>1 DEF Pointer, Receipt
      <3>2. \A p \in pointers, u \in {0} \cup {r.uid : r \in receipts} :
                [p EXCEPT !.receipt = u] \in Pointer
        BY DEF Pointer, Receipt
      <3>3. \/ pointers' = pointers \/ pointers' = {}
            \/ \E r \in receipts : pointers' = {[uid |-> rev + 1, receipt |-> r.uid]}
            \/ \E p \in pointers, u \in {0} \cup {r.uid : r \in receipts} :
                   pointers' = {[p EXCEPT !.receipt = u]}
        BY <1>12 DEF LedgerWrite
      <3>4. ASSUME NEW p \in pointers, NEW u \in {0} \cup {r.uid : r \in receipts},
                   pointers' = {[p EXCEPT !.receipt = u]}
            PROVE  pointers' \in SUBSET Pointer
        BY <3>2, <3>4
      <3>5. ASSUME NEW r \in receipts, pointers' = {[uid |-> rev + 1, receipt |-> r.uid]}
            PROVE  pointers' \in SUBSET Pointer
        BY <3>1, <3>5
      <3>6. pointers \in SUBSET Pointer
        BY DEF TypeOK
      <3> QED
        BY <3>3, <3>4, <3>5, <3>6
    <2> QED
      BY <1>12, <2>2, <2>3, <2>4 DEF LedgerWrite, runVars, stepVars, databaseVars
  <1>13. CASE UNCHANGED vars
    BY <1>13, <1>b DEF vars, ledgerVars, runVars, stepVars, databaseVars
  <1> QED
    BY <1>1, <1>2, <1>3, <1>4, <1>5, <1>6, <1>7, <1>8, <1>9, <1>10, <1>11, <1>12, <1>13
       DEF Next, RunStep

-----------------------------------------------------------------------------
(* The mutex. *)

LEMMA NextMutexHeld ==
    ASSUME TypeOK, MutexHeld, Transactions, [Next]_vars
    PROVE  MutexHeld'
  <1> USE DEF TypeOK
  <1> DEFINE Holding == /\ holder = NoRun <=> pc = "idle"
                        /\ holder = NoRun => done = 0
                        /\ holder # NoRun => outcome[holder] = "running"
  <1> DEFINE Started == \A w \in Runs : outcome'[w] = "pending" => outcome[w] = "pending"
  <1>0. Holding /\ (holder = NoRun \/ holder \in Runs)
    BY DEF MutexHeld
  <1>1. Holding' /\ Started
    <2>1. ASSUME NEW w \in Runs, NEW k \in Kinds, Start(w, k) PROVE Holding' /\ Started
      BY <1>0, <2>1, NoRunAssumption DEF Start
    <2>2. CASE Stop
      BY <1>0, <2>2 DEF Stop, End, Cleared
    <2>3. CASE Finish
      <3>1. holder \in Runs
        BY <1>0, <2>3 DEF Finish
      <3> QED
        BY <2>3, <3>1 DEF Finish, End, Cleared
    <2>4. CASE ReadPointer \/ ReadReceipt \/ ObserveQuiescence \/ ReceiptStable \/ Admit
      BY <1>0, <2>4 DEF ReadPointer, ReadReceipt, ObserveQuiescence, ReceiptStable, Admit
    <2>5. CASE CreateJob \/ NextTask
      BY <1>0, <2>5 DEF CreateJob, NextTask
    <2>6. ASSUME NEW q \in requests, NEW again \in BOOLEAN, CommitJob(q, again)
          PROVE  Holding' /\ Started
      BY <1>0, <2>6 DEF CommitJob
    <2>7. CASE UNCHANGED runVars
      BY <1>0, <2>7 DEF runVars, stepVars
    <2>8. CASE Database
      <3>1. UNCHANGED runVars
        BY <2>8, DatabaseFrame
      <3> QED
        BY <2>7, <3>1
    <2> QED
      BY <2>1, <2>2, <2>3, <2>4, <2>5, <2>6, <2>7, <2>8
         DEF Next, RunStep, DiscardJob, Automation, Intervention, LedgerWrite, vars
  <1>2. \A q \in Requested' : outcome'[q.run] # "pending"
    <2>1. \A q \in Requested : q.run \in Runs /\ outcome'[q.run] # "pending"
      BY <1>1 DEF MutexHeld, Requested, Request, Job
    <2>2. CASE Requested' \subseteq Requested
      BY <2>1, <2>2
    <2>3. CASE CreateJob /\ Requested' = Requested \cup {Sent}
      <3>1. Sent.run = holder /\ outcome' = outcome /\ outcome[holder] = "running"
        BY <1>0, <2>3 DEF CreateJob, Sent
      <3> QED
        BY <2>1, <2>3, <3>1
    <2> QED
      BY <2>2, <2>3, RequestedStep
  <1> QED
    BY <1>1, <1>2 DEF MutexHeld

-----------------------------------------------------------------------------
(* The ledger's UIDs. *)

\* What a run has read was stored once, and new records have new UIDs.
LEMMA NextUIDsDrawn ==
    ASSUME TypeOK, UIDsDrawn, Transactions, [Next]_vars
    PROVE  UIDsDrawn'
  <1> USE DEF TypeOK
  <1>0. rev \in Nat /\ NoReceipt.uid <= rev /\ NoPointer.uid <= rev
    BY DEF ClusterTypeOK, NoReceipt, NoPointer
  <1>1. \A r \in receipts \cup {receiptRead} : r.uid \in Nat /\ r.uid <= rev
    BY DEF UIDsDrawn, Receipt
  <1>2. \A p \in pointers \cup {pointerRead} : p.uid \in Nat /\ p.uid <= rev
    BY DEF UIDsDrawn, Pointer
  <1>3. CASE Automation \/ Intervention
    <2>1. rev <= rev' /\ rev' \in Nat
      BY <1>3, RevisionGrows DEF Automation, Intervention, ClusterNext
    <2>2. UNCHANGED <<receipts, pointers, receiptRead, pointerRead>>
      BY <1>3 DEF Automation, Intervention, ledgerVars, runVars, stepVars
    <2> QED
      BY <1>0, <1>1, <1>2, <2>1, <2>2 DEF UIDsDrawn
  <1>4. CASE LedgerWrite
    <2>1. rev' = rev + 1 /\ UNCHANGED <<receiptRead, pointerRead>>
      BY <1>4 DEF LedgerWrite, runVars, stepVars
    <2>2. \A r \in receipts' : r \in receipts \/ r.uid = rev + 1
      BY <1>4 DEF LedgerWrite
    <2>3. \A p \in pointers' : p.uid = rev + 1 \/ \E q \in pointers : p.uid = q.uid
      BY <1>4 DEF LedgerWrite, Pointer
    <2>4. \A r \in receipts' \cup {receiptRead} : r.uid <= rev + 1
      BY <1>0, <1>1, <2>2
    <2>5. \A p \in pointers' \cup {pointerRead} : p.uid <= rev + 1
      BY <1>0, <1>2, <2>3
    <2> QED
      BY <2>1, <2>4, <2>5 DEF UIDsDrawn
  <1>5. CASE /\ UNCHANGED <<rev, receipts, pointers>>
             /\ receiptRead' \in receipts \cup {receiptRead, NoReceipt}
             /\ pointerRead' \in pointers \cup {pointerRead, NoPointer}
    BY <1>0, <1>1, <1>2, <1>5 DEF UIDsDrawn
  <1>6. ASSUME NEW w \in Runs, NEW k \in Kinds, Start(w, k)
        PROVE  UNCHANGED <<rev, receipts, pointers, receiptRead, pointerRead>>
    BY <1>6 DEF Start, clusterVars, ledgerVars
  <1>7. CASE Stop \/ Finish \/ NextTask
    BY <1>5, <1>7 DEF Stop, Finish, NextTask, End, Cleared, clusterVars, ledgerVars
  <1>8. CASE ReadPointer \/ ReadReceipt
    BY <1>5, <1>8 DEF ReadPointer, ReadReceipt, clusterVars, ledgerVars
  <1>9. CASE ObserveQuiescence \/ ReceiptStable \/ Admit \/ CreateJob
    BY <1>5, <1>9 DEF ObserveQuiescence, ReceiptStable, Admit, CreateJob, clusterVars, ledgerVars
  <1>10. ASSUME NEW q \in requests, NEW again \in BOOLEAN, CommitJob(q, again) \/ DiscardJob(q)
         PROVE  UNCHANGED <<rev, receipts, pointers, receiptRead, pointerRead>>
    BY <1>10 DEF CommitJob, DiscardJob, clusterVars, ledgerVars, runVars, stepVars
  <1>11. CASE Database
    BY <1>5, <1>11, DatabaseFrame DEF clusterVars, ledgerVars, runVars, stepVars
  <1>12. CASE UNCHANGED vars
    BY <1>5, <1>12 DEF vars, clusterVars, ledgerVars, runVars, stepVars
  <1> QED
    BY <1>3, <1>4, <1>5, <1>6, <1>7, <1>8, <1>9, <1>10, <1>11, <1>12 DEF Next, RunStep

-----------------------------------------------------------------------------
(* Admission. *)

LEMMA NextAdmission ==
    ASSUME TypeOK, UIDsDrawn, Admission, Transactions, [Next]_vars
    PROVE  Admission'
  <1> DEFINE Admitting ==
        /\ pc \in {"quiescence", "receipt-stable", "admission", "create"} =>
               pointerRead.receipt = receiptRead.uid
        /\ pc = "receipt-stable" /\ receiptRead \in receipts =>
               receiptRead \in checkpoint.receipts
        /\ pc = "admission" => receiptRead \in checkpoint.receipts
        /\ pc \in {"receipt-stable", "admission"}
           /\ (\E p \in pointers : p.uid = pointerRead.uid)
               => \E p \in checkpoint.pointers : p.uid = pointerRead.uid
        /\ pc = "create" => Retained(receiptRead, pointerRead, checkpoint)
  <1>0. Admitting
    BY DEF Admission
  <1>1. Admitting'
    <2>1. CASE pc' \in {"idle", "pointer", "receipt", "wait", "watch"}
      BY <2>1
    <2>2. CASE UNCHANGED <<ledgerVars, stepVars>>
      BY <1>0, <2>2 DEF ledgerVars, stepVars, Retained, Bound
    <2>3. CASE ReadReceipt
      BY <2>3 DEF ReadReceipt
    <2>4. CASE ObserveQuiescence
      BY <1>0, <2>4 DEF ObserveQuiescence, ledgerVars
    <2>5. CASE ReceiptStable
      BY <1>0, <2>5 DEF ReceiptStable, ledgerVars
    <2>6. CASE Admit
      BY <1>0, <2>6 DEF Admit, Retained, Bound
    <2>7. CASE LedgerWrite
      <3>1. rev \in Nat /\ receiptRead.uid \in Nat /\ receiptRead.uid <= rev
            /\ pointerRead.uid \in Nat /\ pointerRead.uid <= rev
        BY DEF TypeOK, ClusterTypeOK, UIDsDrawn, Receipt, Pointer
      <3>2. \A r \in receipts' : r \in receipts \/ r.uid = rev + 1
        BY <2>7 DEF LedgerWrite
      <3>3. \A p \in pointers' : p.uid = rev + 1 \/ \E q \in pointers : p.uid = q.uid
        BY <2>7 DEF LedgerWrite, TypeOK, Pointer
      <3>4. receiptRead \in receipts' => receiptRead \in receipts
        BY <3>1, <3>2
      <3>5. (\E p \in pointers' : p.uid = pointerRead.uid) =>
                \E p \in pointers : p.uid = pointerRead.uid
        BY <3>1, <3>3
      <3> QED
        BY <1>0, <2>7, <3>4, <3>5 DEF LedgerWrite, runVars, stepVars, Retained, Bound
    <2>8. ASSUME NEW q \in requests, NEW again \in BOOLEAN, CommitJob(q, again)
          PROVE  pc' = "watch" \/ UNCHANGED <<ledgerVars, stepVars>>
      BY <2>8 DEF CommitJob, stepVars
    <2>9. CASE Database
      BY <2>2, <2>9, DatabaseFrame DEF runVars
    <2>10. CASE \/ \E w \in Runs, k \in Kinds : Start(w, k)
                \/ Stop \/ ReadPointer \/ CreateJob \/ NextTask \/ Finish
      BY <2>1, <2>10 DEF Start, Stop, ReadPointer, CreateJob, NextTask, Finish, End, Cleared
    <2>11. CASE \/ \E q \in requests : DiscardJob(q)
                \/ Automation \/ Intervention \/ UNCHANGED vars
      BY <2>2, <2>11 DEF DiscardJob, Automation, Intervention, vars, runVars
    <2> QED
      BY <2>1, <2>2, <2>3, <2>4, <2>5, <2>6, <2>7, <2>8, <2>9, <2>10, <2>11 DEF Next, RunStep
  <1>2. \A q \in Requested' : Retained(q.receipt, q.pointer, q.checkpoint)
    <2>1. \A q \in Requested : Retained(q.receipt, q.pointer, q.checkpoint)
      BY DEF Admission
    <2>2. CreateJob => Retained(Sent.receipt, Sent.pointer, Sent.checkpoint)
      BY <1>0 DEF CreateJob, Sent
    <2> QED
      BY <2>1, <2>2, RequestedStep
  <1> QED
    BY <1>1, <1>2 DEF Admission, Requested

\* Every Job was requested.
LEMMA JobsRequested == \A j \in jobs : j.request \in Requested
  BY DEF Requested

LEMMA AdmittedWhenCreated == Admission => AdmittedUnderBaseline
  BY JobsRequested DEF Admission, AdmittedUnderBaseline

-----------------------------------------------------------------------------
(* Maintenance. *)

LEMMA NextMaintained ==
    ASSUME TypeOK, Maintained, Transactions, [Next]_vars
    PROVE  Maintained'
  <1> DEFINE Fresh == [receipts |-> receipts, pointers |-> pointers, manual |-> manual,
                       uids |-> [a \in Applications |-> obj[a].uid]]
  <1>1. \A c \in Observations' : c \in Observations \/ (ObserveQuiescence /\ c = Fresh)
    <2> SUFFICES ASSUME NEW c \in Observations', c \notin Observations
                 PROVE  ObserveQuiescence /\ c = Fresh
      OBVIOUS
    <2>1. \A q \in Requested' : q.checkpoint \in Observations
      <3>1. \A q \in Requested : q.checkpoint \in Observations
        BY DEF Observations
      <3>2. CreateJob => Sent.checkpoint \in Observations
        BY DEF CreateJob, Sent, Observations
      <3> QED
        BY <3>1, <3>2, RequestedStep
    <2>2. pc' \in {"receipt-stable", "admission", "create"} /\ c = checkpoint'
      BY <2>1 DEF Observations
    <2>3. pc \in {"receipt-stable", "admission", "create"} => checkpoint' # checkpoint
      BY <2>2 DEF Observations
    <2>4. ~ UNCHANGED stepVars
      BY <2>2, <2>3 DEF stepVars
    <2>5. ~ Database
      BY <2>4, DatabaseFrame DEF runVars
    <2>6. CASE ObserveQuiescence
      BY <2>2, <2>6 DEF ObserveQuiescence
    <2> QED
      BY <2>2, <2>3, <2>4, <2>5, <2>6
         DEF Next, RunStep, Start, Stop, ReadPointer, ReadReceipt, ReceiptStable, Admit,
             CreateJob, NextTask, Finish, End, Cleared, CommitJob, DiscardJob, Automation,
             Intervention, LedgerWrite, vars, runVars, stepVars
  <1>2. \A c \in Observations : c \in Observation
    <2>1. \A q \in Requested : q \in Request
      BY DEF TypeOK, Requested, Job
    <2>2. \A q \in Requested : q.checkpoint \in Observation
      BY <2>1 DEF Request
    <2> QED
      BY <2>2 DEF TypeOK, Observations
  <1>3. ASSUME NEW c, c = Fresh, ObserveQuiescence PROVE c.manual <= manual' /\ QuietSince(c)'
    <2>1. UNCHANGED <<obj, pods, manual>> /\ Quiet(obj, pods) /\ manual \in Nat
      BY <1>3 DEF ObserveQuiescence, clusterVars, TypeOK
    <2>2. c.manual = manual /\ \A a \in Applications : c.uids[a] = obj[a].uid
      BY <1>3
    <2> HIDE DEF Fresh
    <2> QED
      BY <2>1, <2>2 DEF QuietSince, Quiet
  <1>4. ASSUME NEW c \in Observations PROVE c.manual <= manual' /\ QuietSince(c)'
    <2>1. c.manual \in Nat /\ manual \in Nat /\ c.manual <= manual /\ QuietSince(c)
      BY <1>2 DEF TypeOK, Observation, Maintained
    <2>2. CASE UNCHANGED <<obj, pods, manual>>
      BY <2>1, <2>2 DEF QuietSince, Quiet
    <2>3. CASE Automation
      <3>1. manual' = manual /\ (Controllers \/ ArgoCD) /\ ClusterTypeOK
        BY <2>3 DEF Automation, TypeOK
      <3>2. Quiet(obj, pods) =>
                Quiet(obj, pods)' /\ \A a \in Applications : obj'[a].uid = obj[a].uid
        BY <3>1, QuietUntilPeople
      <3> QED
        BY <2>1, <3>1, <3>2 DEF QuietSince
    <2>4. CASE Intervention
      <3>1. manual' = manual + 1
        BY <2>4 DEF Intervention
      <3>2. c.manual <= manual' /\ c.manual # manual'
        BY <2>1, <3>1
      <3> QED
        BY <3>2 DEF QuietSince
    <2>5. CASE Database
      BY <2>2, <2>5, DatabaseFrame DEF clusterVars
    <2> QED
      BY <2>2, <2>3, <2>4, <2>5
         DEF Next, RunStep, Start, Stop, ReadPointer, ReadReceipt, ObserveQuiescence,
             ReceiptStable, Admit, CreateJob, NextTask, Finish, CommitJob, DiscardJob,
             LedgerWrite, vars, clusterVars
  <1> QED
    <2> HIDE DEF Fresh
    <2>1. \A c \in Observations' : c.manual <= manual' /\ QuietSince(c)'
      BY <1>1, <1>3, <1>4
    <2> QED
      BY <2>1 DEF Maintained

LEMMA QuietUnderJobs == Maintained => OnlyPeopleInterrupt
  BY JobsRequested DEF Maintained, Observations, OnlyPeopleInterrupt

-----------------------------------------------------------------------------
(* The database. *)

\* What Transactions says of one Job.
Told(j) ==
    /\ j.state = "succeeded" => j.work = "committed"
    /\ j.base = "selected" => schema = "selected"
    /\ j.request.task = "migrate" /\ j.work = "committed" => schema = "selected"
    /\ j.request.task = "grant" /\ j.work = "open" => j.base = schema /\ schema # "absent"
    /\ j.request.task = "grant" /\ j.work = "committed" /\ j.base = "selected"
           => granted = "selected"

\* A Job whose transaction has the advisory lock.
Holds(j) == j.work = "open" /\ j.request.task # "qualify"

LEMMA TransactionsTold ==
    Transactions <=> /\ granted = "selected" => schema = "selected"
                     /\ \A i, j \in jobs : Holds(i) /\ Holds(j) => i = j
                     /\ \A j \in jobs : Told(j)
  BY DEF Transactions, Told, Holds

\* The schema and its grants never go back.
LEMMA DatabaseForward ==
    ASSUME TypeOK, Transactions, [Next]_vars
    PROVE  /\ schema = "selected" => schema' = "selected"
           /\ schema = "selected" /\ granted = "selected" => granted' = "selected"
  <1>1. CASE UNCHANGED databaseVars
    BY <1>1 DEF databaseVars
  <1>2. ASSUME NEW j \in jobs, CommitWork(j)
        PROVE  /\ schema = "selected" => schema' = "selected"
               /\ schema = "selected" /\ granted = "selected" => granted' = "selected"
    BY <1>2 DEF CommitWork, Transactions
  <1> QED
    BY <1>1, <1>2
       DEF Next, RunStep, Start, Stop, ReadPointer, ReadReceipt, ObserveQuiescence,
           ReceiptStable, Admit, CreateJob, NextTask, Finish, CommitJob, DiscardJob, Database,
           Begin, RollBack, JobSucceeds, JobFails, Automation, Intervention, LedgerWrite, vars

LEMMA NextTransactions ==
    ASSUME TypeOK, Transactions, [Next]_vars
    PROVE  Transactions'
  <1>0. /\ granted = "selected" => schema = "selected"
        /\ \A i, j \in jobs : Holds(i) /\ Holds(j) => i = j
        /\ \A j \in jobs : Told(j)
    BY TransactionsTold
  <1>1. CASE UNCHANGED <<jobs, databaseVars>>
    BY <1>1 DEF Transactions, databaseVars
  <1>2. ASSUME NEW j \in jobs, NEW new, Turn(j, new), UNCHANGED databaseVars,
               Told(new), Holds(new) => Holds(j) \/ ~Locked
        PROVE  Transactions'
    <2>1. \A i \in jobs' : i = new \/ (i \in jobs /\ i # j)
      BY <1>2 DEF Turn
    <2>2. \A i \in jobs' : Told(i)'
      BY <1>0, <1>2, <2>1 DEF Told, databaseVars
    <2>3. \A i, k \in jobs' : Holds(i) /\ Holds(k) => i = k
      BY <1>0, <1>2, <2>1 DEF Locked, Holds
    <2> QED
      BY <1>0, <1>2, <2>2, <2>3 DEF Transactions, Told, Holds, databaseVars
  <1>3. ASSUME NEW j \in jobs, Begin(j) PROVE Transactions'
    <2> DEFINE new == [j EXCEPT !.work = "open", !.base = schema]
    <2>1. new.work = "open" /\ new.base = schema /\ new.state = j.state
          /\ new.request = j.request
      BY DEF TypeOK, Job
    <2>2. Turn(j, new) /\ UNCHANGED databaseVars /\ j.state # "succeeded"
          /\ Admits(j.request.task)
      BY <1>3 DEF Begin
    <2> HIDE DEF new
    <2>3. Told(new)
      BY <2>1, <2>2 DEF Told, Admits
    <2>4. Holds(new) => ~Locked
      BY <2>1, <2>2 DEF Holds, Admits
    <2> QED
      BY <1>2, <2>2, <2>3, <2>4
  <1>4. ASSUME NEW j \in jobs, RollBack(j) PROVE Transactions'
    <2> DEFINE new == [j EXCEPT !.work = "rolled back", !.state = "failed"]
    <2>1. new.work = "rolled back" /\ new.base = j.base /\ new.state = "failed"
          /\ new.request = j.request
      BY DEF TypeOK, Job
    <2>2. Turn(j, new) /\ UNCHANGED databaseVars
      BY <1>4 DEF RollBack
    <2> HIDE DEF new
    <2>3. Told(new) /\ ~Holds(new)
      BY <1>0, <2>1 DEF Told, Holds
    <2> QED
      BY <1>2, <2>2, <2>3
  <1>5. ASSUME NEW j \in jobs, JobSucceeds(j) \/ JobFails(j) PROVE Transactions'
    <2>1. PICK result \in {"succeeded", "failed"} :
              /\ Turn(j, [j EXCEPT !.state = result]) /\ UNCHANGED databaseVars
              /\ result = "succeeded" => j.work = "committed"
      BY <1>5 DEF JobSucceeds, JobFails
    <2> DEFINE new == [j EXCEPT !.state = result]
    <2>2. new.work = j.work /\ new.base = j.base /\ new.state = result
          /\ new.request = j.request
      BY DEF TypeOK, Job
    <2>3. Turn(j, new)
      BY <2>1
    <2> HIDE DEF new
    <2>4. Told(new) /\ (Holds(new) => Holds(j))
      BY <1>0, <2>1, <2>2 DEF Told, Holds
    <2> QED
      BY <1>2, <2>1, <2>3, <2>4
  <1>6. ASSUME NEW j \in jobs, CommitWork(j) PROVE Transactions'
    <2> DEFINE new == [j EXCEPT !.work = "committed"]
    <2>1. new.work = "committed" /\ new.base = j.base /\ new.state = j.state
          /\ new.request = j.request /\ j.request.task \in Tasks
      BY DEF TypeOK, Job, Request
    <2>2. Turn(j, new) /\ j.work = "open"
          /\ schema' = (IF j.request.task = "migrate" THEN "selected" ELSE schema)
          /\ granted' = (IF j.request.task = "grant" THEN j.base ELSE granted)
      BY <1>6 DEF CommitWork
    <2> HIDE DEF new
    <2>3. \A i \in jobs' : i = new \/ (i \in jobs /\ i # j)
      BY <2>2 DEF Turn
    <2>4. \A i, k \in jobs' : Holds(i) /\ Holds(k) => i = k
      BY <1>0, <2>1, <2>3 DEF Holds
    <2>5. Told(j)
      BY <1>0
    <2>6. granted' = "selected" => schema' = "selected"
      BY <1>0, <2>2, <2>5 DEF Told
    <2>7. Told(new)'
      BY <1>0, <2>1, <2>2, <2>5 DEF Told
    <2>8. ASSUME NEW i \in jobs, i # j PROVE Told(i)'
      <3>1. Told(i) /\ (Holds(j) => ~Holds(i))
        BY <1>0, <2>8
      <3>2. j.request.task = "qualify" => UNCHANGED <<schema, granted>>
        BY <2>2
      <3>3. j.request.task # "qualify" => Holds(j)
        BY <2>2 DEF Holds
      <3> QED
        BY <2>2, <2>5, <3>1, <3>2, <3>3 DEF Told, Holds
    <2>9. \A i \in jobs' : Told(i)'
      BY <2>3, <2>7, <2>8
    <2> QED
      BY <2>4, <2>6, <2>9 DEF Transactions, Told, Holds
  <1>7. ASSUME NEW q \in requests, NEW again \in BOOLEAN, CommitJob(q, again)
        PROVE  Transactions'
    <2> DEFINE new == [request |-> q, state |-> "created", work |-> "none", base |-> "absent"]
    <2>1. new.request = q /\ new.state = "created" /\ new.work = "none" /\ new.base = "absent"
      OBVIOUS
    <2>2. jobs' = jobs \cup {new} /\ UNCHANGED databaseVars
      BY <1>7 DEF CommitJob
    <2> HIDE DEF new
    <2>3. Told(new) /\ ~Holds(new)
      BY <2>1 DEF Told, Holds
    <2>4. \A i \in jobs' : Told(i)'
      BY <1>0, <2>2, <2>3 DEF Told, databaseVars
    <2>5. \A i, k \in jobs' : Holds(i) /\ Holds(k) => i = k
      BY <1>0, <2>2, <2>3
    <2> QED
      BY <1>0, <2>2, <2>4, <2>5 DEF Transactions, Told, Holds, databaseVars
  <1> QED
    BY <1>1, <1>3, <1>4, <1>5, <1>6, <1>7
       DEF Next, RunStep, Start, Stop, ReadPointer, ReadReceipt, ObserveQuiescence,
           ReceiptStable, Admit, CreateJob, NextTask, Finish, DiscardJob, Database,
           Automation, Intervention, LedgerWrite, vars

-----------------------------------------------------------------------------
(* Preparations. *)

\* The tasks of a preparation, one by one.
LEMMA PreparationTasks ==
    ASSUME kind = "preparation", done \in 0..2
    PROVE  /\ Len(Plan[kind]) = 3
           /\ Plan[kind][done + 1] = "migrate" <=> done = 0
           /\ Plan[kind][done + 1] = "grant" <=> done = 2
  <1>1. done = 0 \/ done = 1 \/ done = 2
    OBVIOUS
  <1> QED
    BY <1>1, PlanFacts

\* A preparation that has come to its end finds the selected schema and the grants
\* for it.
LEMMA FinishPrepared ==
    ASSUME TypeOK, Transactions, PreparedInOrder, Finish, kind = "preparation"
    PROVE  schema = "selected" /\ granted = "selected"
  <1>1. Succeeded(holder, "grant")
    <2>1. done + 1 = 3 /\ done \in 0..2
      BY PreparationTasks DEF Finish, TypeOK
    <2>2. done = 2
      BY <2>1
    <2> QED
      BY <2>2, PreparationTasks DEF Finish
  <1>2. PICK j \in jobs : /\ j.request.run = holder /\ j.request.task = "grant"
                          /\ j.state = "succeeded"
    BY <1>1 DEF Succeeded, Named
  <1>3. j.work = "committed" /\ j.base = "selected"
    BY <1>2 DEF Transactions, PreparedInOrder
  <1> QED
    BY <1>2, <1>3 DEF Transactions

\* A preparation goes on to its next task on the selected schema.
LEMMA NextTaskSelected ==
    ASSUME TypeOK, Transactions, PreparedInOrder, NextTask, kind = "preparation"
    PROVE  schema = "selected"
  <1>1. CASE done > 0
    BY <1>1 DEF PreparedInOrder
  <1>2. CASE done = 0
    <2>1. Succeeded(holder, "migrate")
      BY <1>2, PreparationTasks DEF NextTask, TypeOK
    <2> QED
      BY <2>1 DEF Succeeded, Named, Transactions
  <1> QED
    BY <1>1, <1>2 DEF TypeOK

\* Who holds the mutex, for which workflow and how far changes only when a run
\* starts, goes on to its next task or ends.
LEMMA ProgressFrame ==
    ASSUME TypeOK, Transactions, [Next]_vars
    PROVE  \/ UNCHANGED <<holder, kind, done>>
           \/ \E w \in Runs, k \in Kinds : Start(w, k)
           \/ NextTask
           \/ holder' = NoRun /\ done' = 0 /\ UNCHANGED <<requests, jobs>>
  <1>1. Database => UNCHANGED <<holder, kind, done>>
    BY DatabaseFrame DEF runVars, stepVars
  <1> QED
    BY <1>1
       DEF Next, RunStep, Stop, ReadPointer, ReadReceipt, ObserveQuiescence, ReceiptStable,
           Admit, CreateJob, Finish, End, Cleared, CommitJob, DiscardJob, Automation,
           Intervention, LedgerWrite, vars, runVars, stepVars

LEMMA NextPreparedInOrder ==
    ASSUME TypeOK, MutexHeld, Transactions, PreparedInOrder, [Next]_vars
    PROVE  PreparedInOrder'
  <1>0. /\ \A q \in Requested : q.run \in Runs
        /\ \A j \in jobs : j.request \in Requested
        /\ done \in 0..2
    BY DEF TypeOK, Requested, Request, Job
  <1>a. \A q \in Requested :
            q.run = holder /\ kind = "preparation" /\ q.task = "grant" => done = 2
    BY DEF PreparedInOrder
  <1>b. ASSUME NEW w \in Runs, NEW k \in Kinds, Start(w, k)
        PROVE  /\ holder' = w /\ UNCHANGED <<done, requests, jobs>> /\ done = 0
               /\ \A q \in Requested : q.run # w
    BY <1>b DEF Start, MutexHeld
  <1>1. kind' = "preparation" /\ done' > 0 => schema' = "selected"
    <2>1. NextTask => kind' = kind
      BY DEF NextTask
    <2> QED
      BY <1>b, <2>1, ProgressFrame, NextTaskSelected, DatabaseForward DEF PreparedInOrder
  <1>2. \A q \in Requested' :
            q.run = holder' /\ kind' = "preparation" /\ q.task = "grant" => done' = 2
    <2>1. ASSUME NEW q \in Requested, q.run = holder', kind' = "preparation",
                 q.task = "grant"
          PROVE  done' = 2
      <3>1. CASE UNCHANGED <<holder, kind, done>>
        BY <1>a, <2>1, <3>1
      <3>2. CASE NextTask
        <4>1. done = 2 /\ done + 1 < 3
          BY <1>0, <1>a, <2>1, <3>2, PreparationTasks DEF NextTask
        <4> QED
          BY <4>1
      <3> QED
        BY <1>0, <1>b, <2>1, <3>1, <3>2, ProgressFrame, NoRunAssumption
    <2>2. CreateJob /\ kind' = "preparation" /\ Sent.task = "grant" => done' = 2
      BY <1>0, PreparationTasks DEF CreateJob, Sent
    <2> QED
      BY <2>1, <2>2, RequestedStep
  <1>3. \A j \in jobs' :
            /\ j.request.run = holder' /\ kind' = "preparation" /\ j.request.task = "grant"
            /\ j.work # "none"
            => j.base = "selected"
    <2> DEFINE Based(j) == /\ j.request.run = holder /\ kind = "preparation"
                           /\ j.request.task = "grant" /\ j.work # "none"
                           => j.base = "selected"
    <2>0. \A j \in jobs : Based(j)
      BY DEF PreparedInOrder
    <2>1. CASE UNCHANGED jobs
      <3>1. CASE UNCHANGED <<holder, kind, done>>
        BY <2>0, <2>1, <3>1
      <3>2. CASE NextTask
        BY <2>0, <2>1, <3>2 DEF NextTask
      <3> QED
        BY <1>0, <1>b, <2>1, <3>1, <3>2, ProgressFrame, NoRunAssumption
    <2>2. ASSUME NEW q \in requests, NEW again \in BOOLEAN, CommitJob(q, again)
          PROVE  /\ UNCHANGED <<holder, kind>>
                 /\ \A j \in jobs' : j \in jobs \/ j.work = "none"
      BY <2>2 DEF CommitJob
    <2>3. CASE Database
      <3>1. UNCHANGED <<holder, kind>>
        BY <2>3, DatabaseFrame DEF runVars, stepVars
      <3>2. ASSUME NEW j \in jobs, Begin(j) PROVE \A i \in jobs' : Based(i)
        <4> DEFINE new == [j EXCEPT !.work = "open", !.base = schema]
        <4>1. new.base = schema /\ new.request = j.request /\ Turn(j, new)
          BY <3>2 DEF Begin, TypeOK, Job
        <4> HIDE DEF new
        <4>2. j.request.run = holder /\ kind = "preparation" /\ j.request.task = "grant"
              => schema = "selected"
          BY <1>0, <1>a DEF PreparedInOrder
        <4>3. Based(new)
          BY <4>1, <4>2
        <4>4. \A i \in jobs' : i = new \/ i \in jobs
          BY <4>1 DEF Turn
        <4> QED
          BY <2>0, <4>3, <4>4
      <3>3. ASSUME NEW j \in jobs, NEW new, Turn(j, new), new.request = j.request,
                   new.base = j.base, new.work # "none" => j.work # "none"
            PROVE  \A i \in jobs' : Based(i)
        BY <2>0, <3>3 DEF Turn
      <3>4. ASSUME NEW j \in jobs, CommitWork(j) PROVE \A i \in jobs' : Based(i)
        <4> DEFINE new == [j EXCEPT !.work = "committed"]
        <4>1. Turn(j, new) /\ new.request = j.request /\ new.base = j.base
              /\ j.work # "none"
          BY <3>4 DEF CommitWork, TypeOK, Job
        <4> HIDE DEF new
        <4> QED
          BY <3>3, <4>1
      <3>5. ASSUME NEW j \in jobs, RollBack(j) PROVE \A i \in jobs' : Based(i)
        <4> DEFINE new == [j EXCEPT !.work = "rolled back", !.state = "failed"]
        <4>1. Turn(j, new) /\ new.request = j.request /\ new.base = j.base
              /\ j.work # "none"
          BY <3>5 DEF RollBack, TypeOK, Job
        <4> HIDE DEF new
        <4> QED
          BY <3>3, <4>1
      <3>6. ASSUME NEW j \in jobs, NEW result \in {"succeeded", "failed"},
                   Turn(j, [j EXCEPT !.state = result])
            PROVE  \A i \in jobs' : Based(i)
        <4> DEFINE new == [j EXCEPT !.state = result]
        <4>1. Turn(j, new) /\ new.request = j.request /\ new.base = j.base
              /\ new.work = j.work
          BY <3>6 DEF TypeOK, Job
        <4> HIDE DEF new
        <4> QED
          BY <3>3, <4>1
      <3>7. \A i \in jobs' : Based(i)
        BY <2>3, <3>2, <3>4, <3>5, <3>6 DEF Database, JobSucceeds, JobFails
      <3> QED
        BY <3>1, <3>7
    <2>4. CASE \E q \in requests, again \in BOOLEAN : CommitJob(q, again)
      BY <2>0, <2>2, <2>4
    <2> QED
      BY <2>1, <2>3, <2>4
         DEF Next, RunStep, Start, Stop, ReadPointer, ReadReceipt, ObserveQuiescence,
             ReceiptStable, Admit, CreateJob, NextTask, Finish, DiscardJob, Automation,
             Intervention, LedgerWrite, vars
  <1>4. prepared' # {} => schema' = "selected" /\ granted' = "selected"
    <2>1. CASE UNCHANGED prepared
      BY <2>1, DatabaseForward DEF PreparedInOrder
    <2>2. CASE Finish
      <3>1. kind # "preparation" => UNCHANGED prepared
        BY <2>2 DEF Finish
      <3>2. kind = "preparation" => schema = "selected" /\ granted = "selected"
        BY <2>2, FinishPrepared
      <3> QED
        BY <2>1, <3>1, <3>2, DatabaseForward
    <2>3. Database => UNCHANGED prepared
      BY DatabaseFrame DEF runVars
    <2> QED
      BY <2>1, <2>2, <2>3
         DEF Next, RunStep, Start, Stop, ReadPointer, ReadReceipt, ObserveQuiescence,
             ReceiptStable, Admit, CreateJob, NextTask, CommitJob, DiscardJob, Automation,
             Intervention, LedgerWrite, vars, runVars
  <1> QED
    BY <1>1, <1>2, <1>3, <1>4 DEF PreparedInOrder, Requested

-----------------------------------------------------------------------------
(* The invariant and what follows from it. *)

LEMMA InitInvariant == Init => DatabaseInv
  <1> SUFFICES ASSUME Init PROVE DatabaseInv
    OBVIOUS
  <1>1. TypeOK /\ VersionsDrawn
    BY InitTyped
  <1>2. Requested = {} /\ Observations = {} /\ jobs = {}
    BY DEF Init, Requested, Observations
  <1>3. MutexHeld /\ Transactions /\ PreparedInOrder
    BY <1>2 DEF Init, MutexHeld, Transactions, PreparedInOrder, Requested
  <1>4. UIDsDrawn
    BY DEF Init, ClusterInit, UIDsDrawn, NoReceipt, NoPointer
  <1>5. Admission /\ Maintained
    BY <1>2 DEF Init, Admission, Maintained
  <1> QED
    BY <1>1, <1>3, <1>4, <1>5, AdmittedWhenCreated, QuietUnderJobs DEF DatabaseInv

LEMMA NextInvariant == DatabaseInv /\ [Next]_vars => DatabaseInv'
  <1> SUFFICES ASSUME DatabaseInv, [Next]_vars PROVE DatabaseInv'
    OBVIOUS
  <1> USE DEF DatabaseInv
  <1>1. TypeOK' /\ VersionsDrawn'
    BY NextTyped
  <1>2. MutexHeld' /\ UIDsDrawn'
    BY NextMutexHeld, NextUIDsDrawn
  <1>3. Admission' /\ Maintained'
    BY NextAdmission, NextMaintained
  <1>4. Transactions' /\ PreparedInOrder'
    BY NextTransactions, NextPreparedInOrder
  <1>5. AdmittedUnderBaseline' /\ OnlyPeopleInterrupt'
    BY <1>3, AdmittedWhenCreated, QuietUnderJobs, PTL
  <1> QED
    BY <1>1, <1>2, <1>3, <1>4, <1>5

\* DatabaseInv holds in every reachable state: types, mutex, admission, maintenance
\* and what the transactions have left in the database.
THEOREM Invariance == Spec => []DatabaseInv
  <1> QED
    BY InitInvariant, NextInvariant, PTL DEF Spec

\* Every Job was created under a baseline that the ledger held, and its pointer
\* named, when quiescence was observed (steps pointer to admission of
\* perfeng-release-schema-migration-v2).
THEOREM JobsAreAdmitted == Spec => []AdmittedUnderBaseline
  <1>1. DatabaseInv => AdmittedUnderBaseline
    BY DEF DatabaseInv
  <1> QED
    BY <1>1, Invariance, PTL

\* The control plane stays quiet under every Job and its transaction until people
\* write to it; Argo CD and the controllers never end the maintenance.
THEOREM MaintenanceOutlastsJobs == Spec => []OnlyPeopleInterrupt
  <1>1. DatabaseInv => OnlyPeopleInterrupt
    BY DEF DatabaseInv
  <1> QED
    BY <1>1, Invariance, PTL

\* Every step of the workflows, their Jobs and transactions is a migration, a grant
\* for the schema of that moment, a preparation's success on a prepared database,
\* or changes neither schema nor grants nor the preparations that have succeeded.
THEOREM ImplementsUpgrade == Spec => UpgradeSpec
  <1>1. Init => Upgrade!Init
    BY DEF Init, Upgrade!Init, Schemas
  <1>2. DatabaseInv /\ [Next]_vars => [Upgrade!Next]_(Upgrade!upgradeVars)
    <2> SUFFICES ASSUME DatabaseInv, [Next]_vars
                 PROVE  Upgrade!Next \/ UNCHANGED <<schema, granted, prepared>>
      BY DEF Upgrade!upgradeVars
    <2>0. TypeOK /\ Transactions /\ PreparedInOrder
      BY DEF DatabaseInv
    <2>1. ASSUME NEW j \in jobs, CommitWork(j)
          PROVE  Upgrade!Next \/ UNCHANGED <<schema, granted, prepared>>
      <3>1. UNCHANGED prepared
        BY <2>1 DEF CommitWork, runVars
      <3>2. CASE j.request.task = "grant"
        <4>1. j.base = schema /\ schema # "absent"
          BY <2>0, <2>1, <3>2 DEF CommitWork, Transactions
        <4> QED
          BY <2>1, <3>1, <3>2, <4>1 DEF CommitWork, Upgrade!Next, Upgrade!Grant
      <3>3. CASE j.request.task = "migrate"
        BY <2>1, <3>1, <3>3 DEF CommitWork, Upgrade!Next, Upgrade!Migrate
      <3>4. CASE j.request.task \notin {"grant", "migrate"}
        BY <2>1, <3>1, <3>4 DEF CommitWork
      <3> QED
        BY <3>2, <3>3, <3>4
    <2>2. CASE Finish
      <3>1. UNCHANGED <<schema, granted>>
        BY <2>2 DEF Finish, databaseVars
      <3>2. CASE kind = "preparation"
        <4>1. schema = "selected" /\ granted = "selected" /\ prepared' = prepared \cup {holder}
          BY <2>0, <2>2, <3>2, FinishPrepared DEF Finish
        <4>2. holder \in prepared' /\ Upgrade!Prepare(holder)
          BY <3>1, <4>1 DEF Upgrade!Prepare
        <4> QED
          BY <4>2 DEF Upgrade!Next
      <3>3. CASE kind # "preparation"
        BY <2>2, <3>1, <3>3 DEF Finish
      <3> QED
        BY <3>2, <3>3
    <2> QED
      BY <2>1, <2>2
         DEF Next, RunStep, Start, Stop, ReadPointer, ReadReceipt, ObserveQuiescence,
             ReceiptStable, Admit, CreateJob, NextTask, CommitJob, DiscardJob, Database,
             Begin, RollBack, JobSucceeds, JobFails, Automation, Intervention, LedgerWrite,
             vars, runVars, databaseVars
  <1> QED
    BY <1>1, <1>2, Invariance, PTL DEF Spec, UpgradeSpec, Upgrade!Spec
=============================================================================
