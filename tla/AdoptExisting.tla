--------------------------- MODULE AdoptExisting ---------------------------
(***************************************************************************)
(* The workflow perfeng-release-adopt-existing-v3: it records an existing  *)
(* local selection in the namespace perfeng-release-ledger, as an          *)
(* immutable receipt (a ConfigMap named by the digest of the request) and  *)
(* the initial pointer perfeng-local-current.                              *)
(*                                                                         *)
(* A submitted run holds the mutex perfeng-local-external-state from its   *)
(* start to its end.  Its steps read the child Application (readiness),    *)
(* the root Application, the pointer and the receipt; plan; create the     *)
(* receipt if it was absent; read receipt and root again; plan; create the *)
(* pointer if it was absent at the first reading; read pointer, receipt    *)
(* and root a last time; plan and publish.                                 *)
(*                                                                         *)
(* A reading of a ledger record is a set: empty for "null", else a single  *)
(* record.  A create is a request of its own: it may be committed late,    *)
(* even after the run that sent it was stopped, delivered twice, refused,  *)
(* or lose its response.  Operators, Argo CD and other writers hold no     *)
(* mutex.                                                                  *)
(***************************************************************************)
EXTENDS Integers, FiniteSets

CONSTANTS
    Runs,          \* submitted workflows
    NoRun,         \* nobody holds the mutex; the origin of an outsider's receipt
    Digests,       \* the requests, by the digest of their bytes
    MaxMeddling    \* bound: writes by anybody but the runs

ASSUME NoRunAssumption == NoRun \notin Runs
ASSUME DigestsAssumption == Digests # {}
ASSUME MeddlingAssumption == MaxMeddling \in Nat

VARIABLES
    live,            \* the root and child Applications
    receipts,        \* stored receipts
    pointer,         \* the stored pointer
    uids,            \* UIDs drawn so far, by any object
    meddled,         \* writes by outsiders so far
    outcome,         \* per run: "pending", "running", "succeeded" or "failed"
    holder,          \* the run that holds the mutex
    digest,          \* its request
    pc,              \* its next step
    app,             \* UID of the child Application in the readiness result
    root,            \* output of step root
    receiptRead,     \* latest reading of the receipt
    pointerRead,     \* latest reading of the pointer
    receiptCreates,  \* creates of receipts the API server may still receive
    pointerCreates,  \* creates of the pointer it may still receive
    instant,         \* history: the receipts stored when pointerRead was read
    results          \* published results, with that history and the last root read

worldVars == <<live, receipts, pointer, uids, meddled>>
stepVars == <<digest, pc, app, root, receiptRead, pointerRead, instant>>
runVars == <<outcome, holder, stepVars, receiptCreates, pointerCreates, results>>
vars == <<worldVars, runVars>>

Applications == {"root", "child"}

\* uid is the incarnation; state is "converged" for an owned Application that is
\* Synced and Healthy at the selected revision with no condition and no operation
\* under way; mark stands for every other field that is compared between samples.
Application == [uid : Nat, state : {"converged", "other"}, mark : {0, 1}]

\* The receipt of a request: the UIDs in its payload, and in its annotations the
\* workflow that first created it.
Receipt == [digest : Digests, uid : Nat, root : Nat, app : Nat, origin : Runs \cup {NoRun}]
Pointer == [uid : Nat, digest : Digests, receipt : Nat]

\* The step outputs while no run is active.
NoRequest == CHOOSE d \in Digests : TRUE
NoApplication == [uid |-> 0, state |-> "other", mark |-> 0]

\* A pause or an earlier release has left the ledger empty.
Init ==
    /\ live = [a \in Applications |->
                  [uid |-> IF a = "root" THEN 1 ELSE 2, state |-> "converged", mark |-> 0]]
    /\ receipts = {} /\ pointer = {}
    /\ uids = 2 /\ meddled = 0
    /\ outcome = [w \in Runs |-> "pending"] /\ holder = NoRun
    /\ digest = NoRequest /\ pc = "idle" /\ app = 0 /\ root = NoApplication
    /\ receiptRead = {} /\ pointerRead = {} /\ instant = {}
    /\ receiptCreates = {} /\ pointerCreates = {} /\ results = {}

\* The stored receipt of a request.
Stored(d) == {r \in receipts : r.digest = d}

-----------------------------------------------------------------------------
(* plan_adoption *)

\* Mutation: any two samples that pass the checks count as the same root.
BothConverged(sample, another) == sample.state = another.state

\* Equal but for generation, resourceVersion and reconciledAt, which a refresh
\* by Argo CD advances and Application leaves out.
SameRoot(sample, another) == sample = another

\* Mutation: provenance is compared like the payload.
ExactWithOrigin(r, d, sample) ==
    r.digest = d /\ r.root = sample.uid /\ r.app = app /\ r.origin = holder

\* The immutable payload is that of this request and of these Applications.
Exact(r, d, sample) == r.digest = d /\ r.root = sample.uid /\ r.app = app

\* Mutation: the pointer is matched by the name of the receipt.
NamesByDigest(p, r) == p.digest = r.digest

Names(p, r) == p.digest = r.digest /\ p.receipt = r.uid

\* Mutation: it is enough that there is a receipt to point to.
CompatibleUnlessDangling(samples, receipt, current) ==
    /\ \A s \in samples : s.state = "converged" /\ SameRoot(root, s)
    /\ \A r \in receipt : Exact(r, digest, root)
    /\ current # {} => receipt # {}

\* No refusal: the root converged and the same in every sample, a receipt only
\* with the exact payload, a pointer only to this incarnation of that receipt.
Compatible(samples, receipt, current) ==
    /\ \A s \in samples : s.state = "converged" /\ SameRoot(root, s)
    /\ \A r \in receipt : Exact(r, digest, root)
    /\ \A p \in current : \E r \in receipt : Names(p, r)

-----------------------------------------------------------------------------
(* Starting and ending a run. *)

Cleared ==
    /\ digest' = NoRequest /\ pc' = "idle" /\ app' = 0 /\ root' = NoApplication
    /\ receiptRead' = {} /\ pointerRead' = {} /\ instant' = {}

Start(w, d) ==
    /\ holder = NoRun /\ outcome[w] = "pending"
    /\ holder' = w /\ digest' = d
    /\ outcome' = [outcome EXCEPT ![w] = "running"]
    /\ pc' = "readiness"
    /\ UNCHANGED <<worldVars, app, root, receiptRead, pointerRead, instant, receiptCreates,
                   pointerCreates, results>>

End(result) ==
    /\ outcome' = [outcome EXCEPT ![holder] = result]
    /\ holder' = NoRun
    /\ Cleared

\* A step refuses, times out or loses its response, the workflow's deadline
\* passes or somebody stops it. Creates that were sent stay sent.
Stop ==
    /\ holder # NoRun
    /\ End("failed")
    /\ UNCHANGED <<worldVars, receiptCreates, pointerCreates, results>>

-----------------------------------------------------------------------------
(* The steps of a run. *)

ReadReadiness ==
    /\ pc = "readiness"
    /\ live["child"].state = "converged"
    /\ app' = live["child"].uid /\ pc' = "root"
    /\ UNCHANGED <<worldVars, outcome, holder, digest, root, receiptRead, pointerRead, instant,
                   receiptCreates, pointerCreates, results>>

ReadRoot ==
    /\ pc = "root"
    /\ root' = live["root"] /\ pc' = "current"
    /\ UNCHANGED <<worldVars, outcome, holder, digest, app, receiptRead, pointerRead, instant,
                   receiptCreates, pointerCreates, results>>

\* step current: this reading decides, at pointer-plan, whether a pointer is made
ReadCurrent ==
    /\ pc = "current"
    /\ pointerRead' = pointer /\ pc' = "existing-receipt"
    /\ UNCHANGED <<worldVars, outcome, holder, digest, app, root, receiptRead, instant,
                   receiptCreates, pointerCreates, results>>

\* steps existing-receipt and plan
Plan ==
    /\ pc = "existing-receipt"
    /\ Compatible({root}, Stored(digest), pointerRead)
    /\ receiptRead' = Stored(digest)
    /\ pc' = IF Stored(digest) = {} THEN "create-receipt" ELSE "stored-receipt"
    /\ UNCHANGED <<worldVars, outcome, holder, digest, app, root, pointerRead, instant,
                   receiptCreates, pointerCreates, results>>

CreateReceipt ==
    /\ pc = "create-receipt"
    /\ receiptCreates' = receiptCreates \cup
           {[run |-> holder, digest |-> digest, root |-> root.uid, app |-> app]}
    /\ pc' = "wait-receipt"
    /\ UNCHANGED <<worldVars, outcome, holder, digest, app, root, receiptRead, pointerRead,
                   instant, pointerCreates, results>>

ReadStoredReceipt ==
    /\ pc = "stored-receipt"
    /\ receiptRead' = Stored(digest) /\ pc' = "root-after"
    /\ UNCHANGED <<worldVars, outcome, holder, digest, app, root, pointerRead, instant,
                   receiptCreates, pointerCreates, results>>

\* steps root-after and pointer-plan
PlanPointer ==
    /\ pc = "root-after"
    /\ receiptRead # {}
    /\ Compatible({root, live["root"]}, receiptRead, pointerRead)
    /\ pc' = IF pointerRead = {} THEN "create-pointer" ELSE "stored-pointer"
    /\ UNCHANGED <<worldVars, outcome, holder, digest, app, root, receiptRead, pointerRead,
                   instant, receiptCreates, pointerCreates, results>>

CreatePointer ==
    /\ pc = "create-pointer"
    /\ pointerCreates' = pointerCreates \cup
           {[run |-> holder, digest |-> digest, receipt |-> r.uid] : r \in receiptRead}
    /\ pc' = "wait-pointer"
    /\ UNCHANGED <<worldVars, outcome, holder, digest, app, root, receiptRead, pointerRead,
                   instant, receiptCreates, results>>

ReadStoredPointer ==
    /\ pc = "stored-pointer"
    /\ pointerRead' = pointer /\ instant' = receipts
    /\ pc' = "final-receipt"
    /\ UNCHANGED <<worldVars, outcome, holder, digest, app, root, receiptRead, receiptCreates,
                   pointerCreates, results>>

\* Mutation: the receipt read before the pointer was made is used again.
FinalReceiptReused ==
    /\ pc = "final-receipt"
    /\ pc' = "final-root"
    /\ UNCHANGED <<worldVars, outcome, holder, digest, app, root, receiptRead, pointerRead,
                   instant, receiptCreates, pointerCreates, results>>

ReadFinalReceipt ==
    /\ pc = "final-receipt"
    /\ receiptRead' = Stored(digest) /\ pc' = "final-root"
    /\ UNCHANGED <<worldVars, outcome, holder, digest, app, root, pointerRead, instant,
                   receiptCreates, pointerCreates, results>>

\* steps final-root and finish
Finish ==
    /\ pc = "final-root"
    /\ receiptRead # {} /\ pointerRead # {}
    /\ Compatible({root, live["root"]}, receiptRead, pointerRead)
    /\ results' = results \cup
           {[run |-> holder, digest |-> digest, receipt |-> r, pointer |-> p,
             instant |-> instant, root |-> live["root"]] : r \in receiptRead, p \in pointerRead}
    /\ End("succeeded")
    /\ UNCHANGED <<worldVars, receiptCreates, pointerCreates>>

-----------------------------------------------------------------------------
(* The API server: a create never replaces what is stored under its name.  *)

\* The response of a create reaches the run that waits for it, which goes on.
Respond(q, wait, step) == holder = q.run /\ pc = wait /\ pc' = step

\* Mutation: the receipt is applied instead of created.
ApplyReceipt(q, again) ==
    /\ receipts' = (receipts \ Stored(q.digest)) \cup
           {[digest |-> q.digest, uid |-> uids + 1, root |-> q.root, app |-> q.app,
             origin |-> q.run]}
    /\ uids' = uids + 1
    /\ receiptCreates' = IF again THEN receiptCreates ELSE receiptCreates \ {q}
    /\ Respond(q, "wait-receipt", "stored-receipt") \/ UNCHANGED pc
    /\ UNCHANGED <<live, pointer, meddled, outcome, holder, digest, app, root, receiptRead,
                   pointerRead, instant, pointerCreates, results>>

CommitReceipt(q, again) ==
    /\ Stored(q.digest) = {}
    /\ receipts' = receipts \cup {[digest |-> q.digest, uid |-> uids + 1, root |-> q.root,
                                   app |-> q.app, origin |-> q.run]}
    /\ uids' = uids + 1
    /\ receiptCreates' = IF again THEN receiptCreates ELSE receiptCreates \ {q}
    /\ Respond(q, "wait-receipt", "stored-receipt") \/ UNCHANGED pc
    /\ UNCHANGED <<live, pointer, meddled, outcome, holder, digest, app, root, receiptRead,
                   pointerRead, instant, pointerCreates, results>>

\* Mutation: the pointer is applied instead of created.
ApplyPointer(q, again) ==
    /\ pointer' = {[uid |-> uids + 1, digest |-> q.digest, receipt |-> q.receipt]}
    /\ uids' = uids + 1
    /\ pointerCreates' = IF again THEN pointerCreates ELSE pointerCreates \ {q}
    /\ Respond(q, "wait-pointer", "stored-pointer") \/ UNCHANGED pc
    /\ UNCHANGED <<live, receipts, meddled, outcome, holder, digest, app, root, receiptRead,
                   pointerRead, instant, receiptCreates, results>>

CommitPointer(q, again) ==
    /\ pointer = {}
    /\ pointer' = {[uid |-> uids + 1, digest |-> q.digest, receipt |-> q.receipt]}
    /\ uids' = uids + 1
    /\ pointerCreates' = IF again THEN pointerCreates ELSE pointerCreates \ {q}
    /\ Respond(q, "wait-pointer", "stored-pointer") \/ UNCHANGED pc
    /\ UNCHANGED <<live, receipts, meddled, outcome, holder, digest, app, root, receiptRead,
                   pointerRead, instant, receiptCreates, results>>

\* A create meets a stored record (AlreadyExists), is refused (quota), or never
\* arrives. The run that waits for it can only stop.
Discard ==
    /\ \/ \E q \in receiptCreates : /\ receiptCreates' = receiptCreates \ {q}
                                    /\ UNCHANGED pointerCreates
       \/ \E q \in pointerCreates : /\ pointerCreates' = pointerCreates \ {q}
                                    /\ UNCHANGED receiptCreates
    /\ UNCHANGED <<worldVars, outcome, holder, stepVars, results>>

-----------------------------------------------------------------------------
(* Everybody else. *)

Meddle ==
    /\ meddled < MaxMeddling /\ meddled' = meddled + 1
    /\ UNCHANGED runVars

\* An Application changes: a sync, an edit, another revision of the branch.
Drift(a, state, mark) ==
    /\ Meddle
    /\ live' = [live EXCEPT ![a].state = state, ![a].mark = mark]
    /\ UNCHANGED <<receipts, pointer, uids>>

\* An Application is deleted and created anew.
Recreate(a, state) ==
    /\ Meddle
    /\ live' = [live EXCEPT ![a].uid = uids + 1, ![a].state = state]
    /\ uids' = uids + 1
    /\ UNCHANGED <<receipts, pointer>>

RemoveReceipt(r) ==
    /\ Meddle
    /\ receipts' = receipts \ {r}
    /\ UNCHANGED <<live, pointer, uids>>

\* A receipt created outside the workflows, of these Applications or not.
ForeignReceipt(d, rootUID) ==
    /\ Meddle
    /\ Stored(d) = {}
    /\ receipts' = receipts \cup {[digest |-> d, uid |-> uids + 1, root |-> rootUID,
                                   app |-> live["child"].uid, origin |-> NoRun]}
    /\ uids' = uids + 1
    /\ UNCHANGED <<live, pointer>>

RemovePointer ==
    /\ Meddle
    /\ pointer' = {}
    /\ UNCHANGED <<live, receipts, uids>>

\* The pointer is mutable: it may be edited, or created, to name any incarnation
\* that was ever drawn.
EditPointer(d, receipt) ==
    /\ Meddle
    /\ \/ \E p \in pointer : /\ pointer' = {[p EXCEPT !.digest = d, !.receipt = receipt]}
                             /\ UNCHANGED uids
       \/ /\ pointer = {}
          /\ pointer' = {[uid |-> uids + 1, digest |-> d, receipt |-> receipt]}
          /\ uids' = uids + 1
    /\ UNCHANGED <<live, receipts>>

Outsiders ==
    \/ \E a \in Applications, state \in {"converged", "other"}, mark \in {0, 1} :
           Drift(a, state, mark)
    \/ \E a \in Applications, state \in {"converged", "other"} : Recreate(a, state)
    \/ \E r \in receipts : RemoveReceipt(r)
    \/ \E d \in Digests, rootUID \in {0, live["root"].uid} : ForeignReceipt(d, rootUID)
    \/ RemovePointer
    \/ \E d \in Digests, receipt \in 1..uids : EditPointer(d, receipt)

-----------------------------------------------------------------------------
RunStep ==
    \/ ReadReadiness \/ ReadRoot \/ ReadCurrent \/ Plan \/ CreateReceipt
    \/ ReadStoredReceipt \/ PlanPointer \/ CreatePointer
    \/ ReadStoredPointer \/ ReadFinalReceipt \/ Finish

Server ==
    \/ \E q \in receiptCreates, again \in BOOLEAN : CommitReceipt(q, again)
    \/ \E q \in pointerCreates, again \in BOOLEAN : CommitPointer(q, again)
    \/ Discard

Next ==
    \/ \E w \in Runs, d \in Digests : Start(w, d)
    \/ RunStep
    \/ Stop
    \/ Server
    \/ Outsiders

Spec == Init /\ [][Next]_vars

-----------------------------------------------------------------------------
(* Properties. *)

ReceiptCreate == [run : Runs, digest : Digests, root : Nat, app : Nat]
PointerCreate == [run : Runs, digest : Digests, receipt : Nat]
Result == [run : Runs, digest : Digests, receipt : Receipt, pointer : Pointer,
           instant : SUBSET Receipt, root : Application]

Steps == {"idle", "readiness", "root", "current", "existing-receipt", "create-receipt",
          "wait-receipt", "stored-receipt", "root-after", "create-pointer", "wait-pointer",
          "stored-pointer", "final-receipt", "final-root"}

AtMostOne(S) == \A x, y \in S : x = y

\* The types of all variables; the ledger keeps at most one receipt under the
\* name of a request, and one pointer.
TypeOK ==
    /\ live \in [Applications -> Application]
    /\ receipts \in SUBSET Receipt /\ \A d \in Digests : AtMostOne(Stored(d))
    /\ pointer \in SUBSET Pointer /\ AtMostOne(pointer)
    /\ uids \in Nat /\ meddled \in 0..MaxMeddling
    /\ outcome \in [Runs -> {"pending", "running", "succeeded", "failed"}]
    /\ holder \in Runs \cup {NoRun} /\ digest \in Digests /\ pc \in Steps
    /\ app \in Nat /\ root \in Application
    /\ receiptRead \in SUBSET Receipt /\ AtMostOne(receiptRead)
    /\ pointerRead \in SUBSET Pointer /\ AtMostOne(pointerRead)
    /\ receiptCreates \in SUBSET ReceiptCreate /\ pointerCreates \in SUBSET PointerCreate
    /\ instant \in SUBSET Receipt /\ results \in SUBSET Result

\* A published baseline was stored at one instant: when the pointer was read, the
\* very incarnation of the receipt it names was in the ledger - whatever outsiders
\* removed, restored or edited between the run's separate readings.
BaselineStored ==
    \A b \in results : b.receipt \in b.instant /\ Names(b.pointer, b.receipt)

\* The receipt of a published baseline records the incarnation of the root that
\* was found converged at the end of the run, and the run that adopts it asked
\* for this very request.
BaselineOfLiveRoot ==
    \A b \in results : /\ b.receipt.digest = b.digest
                       /\ b.receipt.root = b.root.uid
                       /\ b.root.state = "converged"

Undisturbed == meddled = 0

\* While nobody else writes to the ledger, the pointer never dangles: a late or
\* repeated create of either record leaves it naming a stored receipt.
PointerNeverDangles ==
    Undisturbed => \A p \in pointer : \E r \in receipts : Names(p, r)

\* While nobody else writes to the ledger, there is one baseline: every run that
\* succeeds publishes the same receipt and the same pointer, with the provenance
\* of the first, whichever requests were submitted and however runs were cut short.
OneBaseline ==
    Undisturbed => \A b, c \in results : b.receipt = c.receipt /\ b.pointer = c.pointer

\* While nobody else writes, an adoption that was cut short at any step can be
\* taken up again: planning of a later run of the request the pointer names, or of
\* any request if there is no pointer, finds nothing to refuse, whatever records,
\* late creates and provenance the earlier runs have left.  That run's own create
\* may still meet AlreadyExists, when an earlier create lands after its reading.
RetryNeverRefused ==
    Undisturbed /\ (\A p \in pointerRead : p.digest = digest) =>
        /\ pc = "existing-receipt" => Compatible({root}, Stored(digest), pointerRead)
        /\ pc \in {"root-after", "final-root"} =>
               receiptRead # {} /\ Compatible({root, live["root"]}, receiptRead, pointerRead)
        /\ pc = "final-root" => pointerRead # {}

\* What the runs have published, whichever of them it was.
Baselines == {[receipt |-> b.receipt, pointer |-> b.pointer] : b \in results}

\* The workflow, its late creates, lost responses and interruptions implement the
\* append-only ledger with a single pointer, as long as nobody else writes to it.
Ledger == INSTANCE ReleaseLedger WITH adopted <- Baselines
LedgerSpec == Ledger!Spec

-----------------------------------------------------------------------------
(* The inductive invariant behind the properties. *)

\* Steps are those of the running workflow, which holds the mutex. A create carries the request of
\* the run that sent it, and a run that has not started has sent none.
MutexHeld ==
    /\ holder = NoRun <=> pc = "idle"
    /\ holder # NoRun => outcome[holder] = "running"
    /\ \A q \in receiptCreates \cup pointerCreates :
           /\ outcome[q.run] # "pending"
           /\ q.run = holder => q.digest = digest

\* UIDs are never drawn twice, and no pointer names one that is not drawn yet.
UIDsDrawn ==
    /\ \A r \in receipts : r.uid <= uids
    /\ \A r, s \in receipts : r.uid = s.uid => r = s
    /\ \A r \in receiptRead : r.uid <= uids
    /\ \A p \in pointer \cup pointerRead \cup pointerCreates : p.receipt <= uids

\* Since the pointer was read, no receipt has come into being under the UID that
\* it names.
NamedBefore ==
    /\ pc \in {"final-receipt", "final-root"} =>
           \A p \in pointerRead, r \in receipts : r.uid = p.receipt => r \in instant
    /\ pc = "final-root" =>
           \A p \in pointerRead, r \in receiptRead : r.uid = p.receipt => r \in instant

\* The receipt carries the UIDs of the Applications that are still there.
Current(r) == r.root = live["root"].uid /\ r.app = live["child"].uid

\* While nobody else writes: every record and every create is of the Applications
\* as they are, and names what is stored; a reading is of what is still stored.
LedgerGrows ==
    /\ \A a \in Applications : live[a].state = "converged"
    /\ \A r \in receipts \cup receiptCreates : Current(r)
    /\ \A p \in pointer \cup pointerCreates : \E r \in receipts : Names(p, r)
    /\ receiptRead \subseteq receipts /\ pointerRead \subseteq pointer
    /\ \A b \in results : b.receipt \in receipts /\ b.pointer \in pointer

\* While nobody else writes: what the run has read it would read again.
RunUndisturbed ==
    /\ pc \notin {"idle", "readiness"} => app = live["child"].uid
    /\ pc \notin {"idle", "readiness", "root"} => root = live["root"]
    /\ pc = "stored-receipt" => Stored(digest) # {}
    /\ pc \in {"root-after", "create-pointer", "wait-pointer", "stored-pointer",
               "final-receipt", "final-root"} => receiptRead # {} /\ receiptRead = Stored(digest)
    /\ pc = "stored-pointer" => pointer # {}
    /\ pc \in {"final-receipt", "final-root"} => pointerRead # {}

AdoptionInv ==
    /\ TypeOK /\ MutexHeld /\ UIDsDrawn /\ NamedBefore
    /\ BaselineStored /\ BaselineOfLiveRoot
    /\ Undisturbed => LedgerGrows /\ RunUndisturbed
=============================================================================
