------------------------ MODULE AdoptExisting_proofs ------------------------
(***************************************************************************)
(* AdoptionInv is an inductive invariant of AdoptExisting for any runs, any *)
(* requests and any amount of meddling; without meddling, the workflow     *)
(* implements ReleaseLedger.                                               *)
(***************************************************************************)
EXTENDS AdoptExisting, TLAPS

-----------------------------------------------------------------------------
(* Types. *)

LEMMA InitTyped == Init => TypeOK
  <1> SUFFICES ASSUME Init PROVE TypeOK
    OBVIOUS
  <1>1. NoRequest \in Digests
    BY DigestsAssumption DEF NoRequest
  <1>2. live \in [Applications -> Application] /\ root \in Application
    BY DEF Init, Application, NoApplication
  <1> QED
    BY <1>1, <1>2, MeddlingAssumption DEF Init, TypeOK, Stored, AtMostOne, Steps

LEMMA StoredTyped ==
    ASSUME TypeOK, NEW d \in Digests
    PROVE  Stored(d) \in SUBSET Receipt /\ AtMostOne(Stored(d))
  BY DEF TypeOK, Stored

LEMMA EndTyped ==
    ASSUME TypeOK, MutexHeld, pc # "idle", NEW result \in {"succeeded", "failed"}, End(result)
    PROVE  /\ holder \in Runs
           /\ outcome' \in [Runs -> {"pending", "running", "succeeded", "failed"}]
           /\ holder' = NoRun
           /\ digest' \in Digests /\ pc' \in Steps /\ app' \in Nat /\ root' \in Application
           /\ receiptRead' = {} /\ pointerRead' = {} /\ instant' = {}
  BY DigestsAssumption
     DEF TypeOK, MutexHeld, End, Cleared, NoRequest, NoApplication, Application, Steps

LEMMA NextTyped ==
    ASSUME TypeOK, MutexHeld, [Next]_vars
    PROVE  TypeOK'
  <1> USE DEF TypeOK
  <1>a. pc # "idle" => holder \in Runs
    BY DEF MutexHeld
  <1>b. Stored(digest) \in SUBSET Receipt /\ AtMostOne(Stored(digest))
    BY StoredTyped
  <1>c. ASSUME UNCHANGED receipts PROVE \A d \in Digests : AtMostOne(Stored(d)')
    BY <1>c DEF Stored
  <1>d. AtMostOne({})
    BY DEF AtMostOne
  <1>e. live["root"] \in Application /\ live["child"] \in Application
    BY DEF Applications
  <1>1. ASSUME NEW w \in Runs, NEW d \in Digests, Start(w, d) PROVE TypeOK'
    BY <1>1, <1>c DEF Start, worldVars, Steps
  <1>2. CASE Stop
    BY <1>2, <1>c, <1>d, EndTyped DEF Stop, worldVars, MutexHeld
  <1>3. CASE ReadReadiness \/ ReadRoot \/ ReadCurrent \/ Plan \/ ReadStoredReceipt
             \/ PlanPointer \/ ReadStoredPointer \/ ReadFinalReceipt
    BY <1>3, <1>b, <1>c, <1>e
       DEF ReadReadiness, ReadRoot, ReadCurrent, Plan, ReadStoredReceipt, PlanPointer,
           ReadStoredPointer, ReadFinalReceipt, worldVars, Steps, Application
  <1>4. CASE CreateReceipt
    BY <1>4, <1>a, <1>c DEF CreateReceipt, worldVars, Steps, ReceiptCreate, Application
  <1>5. CASE CreatePointer
    BY <1>5, <1>a, <1>c DEF CreatePointer, worldVars, Steps, PointerCreate, Receipt
  <1>6. CASE Finish
    <2>1. results' \in SUBSET Result
      BY <1>6, <1>a, <1>e DEF Finish, Result
    <2> QED
      BY <1>6, <1>c, <1>d, <2>1, EndTyped DEF Finish, worldVars
  <1>7. ASSUME NEW q \in receiptCreates, NEW again \in BOOLEAN, CommitReceipt(q, again)
        PROVE  TypeOK'
    <2>1. q \in ReceiptCreate
      OBVIOUS
    <2> DEFINE new == [digest |-> q.digest, uid |-> uids + 1, root |-> q.root,
                       app |-> q.app, origin |-> q.run]
    <2>2. new \in Receipt /\ uids + 1 \in Nat
      BY <2>1 DEF ReceiptCreate, Receipt
    <2>3. receipts' = receipts \cup {new} /\ Stored(q.digest) = {}
      BY <1>7 DEF CommitReceipt
    <2>4. \A d \in Digests : AtMostOne(Stored(d)')
      BY <2>3 DEF Stored, AtMostOne
    <2>5. pc' \in Steps
      BY <1>7 DEF CommitReceipt, Respond, Steps
    <2> HIDE DEF new
    <2> QED
      BY <1>7, <2>2, <2>3, <2>4, <2>5 DEF CommitReceipt
  <1>8. ASSUME NEW q \in pointerCreates, NEW again \in BOOLEAN, CommitPointer(q, again)
        PROVE  TypeOK'
    <2>1. q \in PointerCreate
      OBVIOUS
    <2>2. pointer' \in SUBSET Pointer /\ AtMostOne(pointer')
      BY <1>8, <2>1 DEF CommitPointer, PointerCreate, Pointer, AtMostOne
    <2>3. pc' \in Steps
      BY <1>8 DEF CommitPointer, Respond, Steps
    <2> QED
      BY <1>8, <1>c, <2>2, <2>3 DEF CommitPointer
  <1>9. CASE Discard
    BY <1>9, <1>c DEF Discard, worldVars, stepVars
  <1>10. ASSUME Meddle PROVE meddled' \in 0..MaxMeddling /\ UNCHANGED runVars
    BY <1>10, MeddlingAssumption DEF Meddle
  <1>11. ASSUME NEW a \in Applications, NEW state \in {"converged", "other"},
                NEW mark \in {0, 1}, Drift(a, state, mark)
         PROVE  TypeOK'
    BY <1>11, <1>10, <1>c DEF Drift, Application, runVars, stepVars
  <1>12. ASSUME NEW a \in Applications, NEW state \in {"converged", "other"},
                Recreate(a, state)
         PROVE  TypeOK'
    <2>1. live[a] \in Application /\ uids + 1 \in Nat
      OBVIOUS
    <2>2. [live[a] EXCEPT !.uid = uids + 1, !.state = state] \in Application
      BY <2>1 DEF Application
    <2>3. live' = [live EXCEPT ![a] = [live[a] EXCEPT !.uid = uids + 1, !.state = state]]
      BY <1>12, <2>1 DEF Recreate, Application
    <2> QED
      BY <1>12, <1>10, <1>c, <2>1, <2>2, <2>3 DEF Recreate, runVars, stepVars
  <1>13. ASSUME NEW r \in receipts, RemoveReceipt(r) PROVE TypeOK'
    <2>1. \A d \in Digests : AtMostOne(Stored(d)')
      BY <1>13 DEF RemoveReceipt, Stored, AtMostOne
    <2> QED
      BY <1>13, <1>10, <2>1 DEF RemoveReceipt, runVars, stepVars
  <1>14. ASSUME NEW d \in Digests, NEW rootUID \in {0, live["root"].uid},
                ForeignReceipt(d, rootUID)
         PROVE  TypeOK'
    <2> DEFINE new == [digest |-> d, uid |-> uids + 1, root |-> rootUID,
                       app |-> live["child"].uid, origin |-> NoRun]
    <2>1. new \in Receipt
      BY <1>e DEF Receipt, Application
    <2>2. receipts' = receipts \cup {new} /\ Stored(d) = {}
      BY <1>14 DEF ForeignReceipt
    <2>3. \A e \in Digests : AtMostOne(Stored(e)')
      BY <2>2 DEF Stored, AtMostOne
    <2> HIDE DEF new
    <2> QED
      BY <1>14, <1>10, <2>1, <2>2, <2>3 DEF ForeignReceipt, runVars, stepVars
  <1>15. CASE RemovePointer
    BY <1>15, <1>10, <1>c, <1>d DEF RemovePointer, runVars, stepVars
  <1>16. ASSUME NEW d \in Digests, NEW receipt \in 1..uids, EditPointer(d, receipt)
         PROVE  TypeOK'
    <2>0. receipt \in Nat /\ uids + 1 \in Nat
      OBVIOUS
    <2> DEFINE Typed == pointer' \in SUBSET Pointer /\ AtMostOne(pointer') /\ uids' \in Nat
    <2>1. ASSUME NEW p \in pointer, UNCHANGED uids,
                 pointer' = {[p EXCEPT !.digest = d, !.receipt = receipt]}
          PROVE  Typed
      <3>1. [p EXCEPT !.digest = d, !.receipt = receipt] \in Pointer
        BY <2>0 DEF Pointer
      <3> QED
        BY <2>1, <3>1 DEF AtMostOne
    <2>2. ASSUME pointer' = {[uid |-> uids + 1, digest |-> d, receipt |-> receipt]},
                 uids' = uids + 1
          PROVE  Typed
      <3>1. [uid |-> uids + 1, digest |-> d, receipt |-> receipt] \in Pointer
        BY <2>0 DEF Pointer
      <3> QED
        BY <2>0, <2>2, <3>1 DEF AtMostOne
    <2>3. Typed
      BY <1>16, <2>1, <2>2 DEF EditPointer
    <2> QED
      BY <1>16, <1>10, <1>c, <2>3 DEF EditPointer, runVars, stepVars
  <1>17. CASE UNCHANGED vars
    BY <1>17, <1>c DEF vars, worldVars, runVars, stepVars
  <1> QED
    BY <1>1, <1>2, <1>3, <1>4, <1>5, <1>6, <1>7, <1>8, <1>9, <1>11, <1>12, <1>13, <1>14,
       <1>15, <1>16, <1>17
       DEF Next, RunStep, Server, Outsiders

-----------------------------------------------------------------------------
(* What a step of anybody can do. *)

\* Outsiders leave the run alone, and are counted.
LEMMA OutsidersCounted ==
    ASSUME TypeOK, Outsiders
    PROVE  UNCHANGED runVars /\ meddled' # 0 /\ MaxMeddling # 0
  <1>1. ASSUME Meddle PROVE UNCHANGED runVars /\ meddled' # 0 /\ MaxMeddling # 0
    BY <1>1, MeddlingAssumption DEF Meddle, TypeOK
  <1> QED
    BY <1>1 DEF Outsiders, Drift, Recreate, RemoveReceipt, ForeignReceipt, RemovePointer,
                EditPointer

\* A receipt that was not stored before takes the UID drawn last.
LEMMA ReceiptsForward ==
    ASSUME TypeOK, [Next]_vars
    PROVE  /\ uids' \in {uids, uids + 1}
           /\ \/ receipts' \subseteq receipts
              \/ \E new \in Receipt : /\ receipts' = receipts \cup {new}
                                      /\ new.uid = uids + 1 /\ uids' = uids + 1
                                      /\ \A r \in receipts : r.digest # new.digest
  <1> DEFINE Forward ==
        /\ uids' \in {uids, uids + 1}
        /\ \/ receipts' \subseteq receipts
           \/ \E new \in Receipt : /\ receipts' = receipts \cup {new}
                                   /\ new.uid = uids + 1 /\ uids' = uids + 1
                                   /\ \A r \in receipts : r.digest # new.digest
  <1>1. ASSUME NEW q \in receiptCreates, NEW again \in BOOLEAN, CommitReceipt(q, again)
        PROVE  Forward
    <2> DEFINE new == [digest |-> q.digest, uid |-> uids + 1, root |-> q.root,
                       app |-> q.app, origin |-> q.run]
    <2>1. new \in Receipt /\ new.uid = uids + 1 /\ new.digest = q.digest
      BY DEF TypeOK, ReceiptCreate, Receipt
    <2>2. receipts' = receipts \cup {new} /\ uids' = uids + 1 /\ Stored(q.digest) = {}
      BY <1>1 DEF CommitReceipt
    <2> HIDE DEF new
    <2> QED
      BY <2>1, <2>2 DEF Stored
  <1>2. ASSUME NEW d \in Digests, NEW rootUID \in {0, live["root"].uid},
               ForeignReceipt(d, rootUID)
        PROVE  Forward
    <2> DEFINE new == [digest |-> d, uid |-> uids + 1, root |-> rootUID,
                       app |-> live["child"].uid, origin |-> NoRun]
    <2>1. new \in Receipt /\ new.uid = uids + 1 /\ new.digest = d
      BY DEF TypeOK, Applications, Application, Receipt
    <2>2. receipts' = receipts \cup {new} /\ uids' = uids + 1 /\ Stored(d) = {}
      BY <1>2 DEF ForeignReceipt
    <2> HIDE DEF new
    <2> QED
      BY <2>1, <2>2 DEF Stored
  <1>3. ASSUME NEW w \in Runs, NEW d \in Digests, Start(w, d) PROVE Forward
    BY <1>3 DEF Start, worldVars
  <1>4. CASE RunStep \/ Stop \/ Discard
    BY <1>4 DEF RunStep, Stop, Discard, worldVars, ReadReadiness, ReadRoot, ReadCurrent, Plan,
                CreateReceipt, ReadStoredReceipt, PlanPointer, CreatePointer,
                ReadStoredPointer, ReadFinalReceipt, Finish
  <1>5. ASSUME NEW q \in pointerCreates, NEW again \in BOOLEAN, CommitPointer(q, again)
        PROVE  Forward
    BY <1>5 DEF CommitPointer
  <1>6. ASSUME NEW a \in Applications, NEW state \in {"converged", "other"},
               NEW mark \in {0, 1}, Drift(a, state, mark) \/ Recreate(a, state)
        PROVE  Forward
    BY <1>6 DEF Drift, Recreate
  <1>7. ASSUME NEW r \in receipts, RemoveReceipt(r) PROVE Forward
    BY <1>7 DEF RemoveReceipt
  <1>8. ASSUME NEW d \in Digests, NEW receipt \in 1..uids,
               RemovePointer \/ EditPointer(d, receipt)
        PROVE  Forward
    BY <1>8 DEF RemovePointer, EditPointer
  <1>9. CASE UNCHANGED vars
    BY <1>9 DEF vars, worldVars
  <1>10. CASE RemovePointer
    BY <1>10 DEF RemovePointer
  <1>11. ASSUME NEW a \in Applications, NEW state \in {"converged", "other"},
                Recreate(a, state)
         PROVE  Forward
    BY <1>11 DEF Recreate
  <1> QED
    BY <1>1, <1>2, <1>3, <1>4, <1>5, <1>6, <1>7, <1>8, <1>9, <1>10, <1>11
       DEF Next, Server, Outsiders

-----------------------------------------------------------------------------
(* The mutex. *)

LEMMA NextMutexHeld ==
    ASSUME TypeOK, MutexHeld, [Next]_vars
    PROVE  MutexHeld'
  <1> USE DEF MutexHeld
  <1>1. ASSUME NEW w \in Runs, NEW d \in Digests, Start(w, d) PROVE MutexHeld'
    <2>1. \A q \in receiptCreates \cup pointerCreates : q.run # w
      BY <1>1 DEF Start
    <2>2. outcome' = [outcome EXCEPT ![w] = "running"] /\ holder' = w /\ pc' = "readiness"
      BY <1>1 DEF Start
    <2>3. \A q \in receiptCreates \cup pointerCreates : outcome'[q.run] # "pending"
      BY <2>1, <2>2 DEF TypeOK
    <2>4. outcome'[w] = "running"
      BY <2>2 DEF TypeOK
    <2>5. UNCHANGED <<receiptCreates, pointerCreates>>
      BY <1>1 DEF Start
    <2> QED
      BY <2>1, <2>2, <2>3, <2>4, <2>5, NoRunAssumption
  <1>2. ASSUME NEW result \in {"succeeded", "failed"}, End(result), pc # "idle",
               UNCHANGED <<receiptCreates, pointerCreates>>
        PROVE  MutexHeld'
    <2>1. holder \in Runs /\ holder' = NoRun /\ pc' = "idle"
      BY <1>2 DEF End, Cleared, TypeOK
    <2>2. \A q \in receiptCreates \cup pointerCreates : outcome'[q.run] # "pending"
      BY <1>2 DEF End, TypeOK
    <2>3. \A q \in receiptCreates \cup pointerCreates : q.run # NoRun
      BY NoRunAssumption DEF TypeOK, ReceiptCreate, PointerCreate
    <2> QED
      BY <1>2, <2>1, <2>2, <2>3
  <1>3. CASE Stop
    BY <1>2, <1>3 DEF Stop
  <1>4. CASE ReadReadiness \/ ReadRoot \/ ReadCurrent \/ Plan \/ ReadStoredReceipt
             \/ PlanPointer \/ ReadStoredPointer \/ ReadFinalReceipt
    BY <1>4 DEF ReadReadiness, ReadRoot, ReadCurrent, Plan, ReadStoredReceipt, PlanPointer,
                ReadStoredPointer, ReadFinalReceipt
  <1>5. CASE Finish
    BY <1>2, <1>5 DEF Finish
  <1>6. CASE CreateReceipt
    <2>1. /\ UNCHANGED <<outcome, holder, digest, pointerCreates>> /\ pc' = "wait-receipt"
          /\ \A q \in receiptCreates' : q \in receiptCreates \/ (q.run = holder /\ q.digest = digest)
      BY <1>6 DEF CreateReceipt
    <2>2. outcome[holder] # "pending"
      BY <1>6 DEF CreateReceipt
    <2> QED
      BY <1>6, <2>1, <2>2 DEF CreateReceipt
  <1>7. CASE CreatePointer
    <2>1. /\ UNCHANGED <<outcome, holder, digest, receiptCreates>> /\ pc' = "wait-pointer"
          /\ \A q \in pointerCreates' : q \in pointerCreates \/ (q.run = holder /\ q.digest = digest)
      BY <1>7 DEF CreatePointer
    <2>2. outcome[holder] # "pending"
      BY <1>7 DEF CreatePointer
    <2> QED
      BY <1>7, <2>1, <2>2 DEF CreatePointer
  <1>8. ASSUME NEW q \in receiptCreates, NEW again \in BOOLEAN, CommitReceipt(q, again)
        PROVE  MutexHeld'
    BY <1>8 DEF CommitReceipt, Respond
  <1>9. ASSUME NEW q \in pointerCreates, NEW again \in BOOLEAN, CommitPointer(q, again)
        PROVE  MutexHeld'
    BY <1>9 DEF CommitPointer, Respond
  <1>10. CASE Discard
    BY <1>10 DEF Discard, stepVars
  <1>11. CASE Outsiders
    BY <1>11, OutsidersCounted DEF runVars, stepVars
  <1>12. CASE UNCHANGED vars
    BY <1>12 DEF vars, runVars, stepVars
  <1> QED
    BY <1>1, <1>3, <1>4, <1>5, <1>6, <1>7, <1>8, <1>9, <1>10, <1>11, <1>12
       DEF Next, RunStep, Server

-----------------------------------------------------------------------------
(* UIDs, and what a published baseline says of them. *)

LEMMA NextUIDsDrawn ==
    ASSUME TypeOK, UIDsDrawn, [Next]_vars
    PROVE  UIDsDrawn'
  <1>0. uids \in Nat /\ uids' \in Nat /\ uids <= uids'
    BY ReceiptsForward DEF TypeOK
  <1>1. \A r \in receipts \cup receiptRead : r.uid \in Nat /\ r.uid <= uids
    BY DEF TypeOK, UIDsDrawn, Receipt
  <1>2. \A p \in pointer \cup pointerRead \cup pointerCreates : p.receipt \in Nat /\ p.receipt <= uids
    BY DEF TypeOK, UIDsDrawn, Pointer, PointerCreate
  <1> DEFINE Receipts == /\ \A r \in receipts' : r.uid <= uids'
                         /\ \A r, s \in receipts' : r.uid = s.uid => r = s
             Read == \A r \in receiptRead' : r.uid \in Nat /\ r.uid <= uids
             Pointers == \A p \in pointer' \cup pointerRead' \cup pointerCreates' :
                             p.receipt \in Nat /\ p.receipt <= uids
  <1>3. Receipts
    <2>1. CASE receipts' \subseteq receipts
      BY <1>0, <1>1, <2>1 DEF UIDsDrawn
    <2>2. ASSUME NEW new \in Receipt, receipts' = receipts \cup {new},
                 new.uid = uids + 1, uids' = uids + 1
          PROVE  Receipts
      BY <1>0, <1>1, <2>2 DEF UIDsDrawn
    <2> QED
      BY <2>1, <2>2, ReceiptsForward
  <1>4. Read /\ Pointers
    <2> HIDE DEF Receipts
    <2>1. ASSUME NEW w \in Runs, NEW d \in Digests, Start(w, d) PROVE Read /\ Pointers
      BY <1>1, <1>2, <2>1 DEF Start, worldVars
    <2>2. CASE Stop \/ Finish
      BY <1>2, <2>2 DEF Stop, Finish, End, Cleared, worldVars
    <2>3. CASE ReadReadiness \/ ReadRoot \/ PlanPointer \/ CreateReceipt
      BY <1>1, <1>2, <2>3 DEF ReadReadiness, ReadRoot, PlanPointer, CreateReceipt, worldVars
    <2>4. CASE ReadCurrent \/ ReadStoredPointer
      BY <1>1, <1>2, <2>4 DEF ReadCurrent, ReadStoredPointer, worldVars
    <2>5. CASE Plan \/ ReadStoredReceipt \/ ReadFinalReceipt
      BY <1>1, <1>2, <2>5 DEF Plan, ReadStoredReceipt, ReadFinalReceipt, Stored, worldVars
    <2>6. CASE CreatePointer
      BY <1>1, <1>2, <2>6 DEF CreatePointer, worldVars
    <2>7. ASSUME NEW q \in receiptCreates, NEW again \in BOOLEAN, CommitReceipt(q, again)
          PROVE  Read /\ Pointers
      BY <1>1, <1>2, <2>7 DEF CommitReceipt
    <2>8. ASSUME NEW q \in pointerCreates, NEW again \in BOOLEAN, CommitPointer(q, again)
          PROVE  Read /\ Pointers
      BY <1>1, <1>2, <2>8 DEF CommitPointer
    <2>9. CASE Discard
      BY <1>1, <1>2, <2>9 DEF Discard, worldVars, stepVars
    <2>10. CASE Outsiders
      <3>1. UNCHANGED <<receiptRead, pointerRead, pointerCreates>>
        BY <2>10, OutsidersCounted DEF runVars, stepVars
      <3>2. \A p \in pointer' : p.receipt \in Nat /\ p.receipt <= uids
        <4>1. ASSUME NEW d \in Digests, NEW receipt \in 1..uids, EditPointer(d, receipt)
              PROVE  \A p \in pointer' : p.receipt = receipt
          <5> DEFINE new == [uid |-> uids + 1, digest |-> d, receipt |-> receipt]
          <5>1. CASE pointer' = {new}
            BY <5>1
          <5>2. ASSUME NEW p \in pointer,
                       pointer' = {[p EXCEPT !.digest = d, !.receipt = receipt]}
                PROVE  \A q \in pointer' : q.receipt = receipt
            <6>1. [p EXCEPT !.digest = d, !.receipt = receipt].receipt = receipt
              BY DEF TypeOK, Pointer
            <6> QED
              BY <5>2, <6>1
          <5> QED
            BY <4>1, <5>1, <5>2 DEF EditPointer
        <4>2. ASSUME NEW receipt \in 1..uids PROVE receipt \in Nat /\ receipt <= uids
          BY <1>0
        <4>3. CASE pointer' \subseteq pointer
          BY <1>2, <4>3
        <4> QED
          BY <2>10, <4>1, <4>2, <4>3
             DEF Outsiders, Drift, Recreate, RemoveReceipt, ForeignReceipt, RemovePointer
      <3> QED
        BY <1>1, <1>2, <3>1, <3>2
    <2>11. CASE UNCHANGED vars
      BY <1>1, <1>2, <2>11 DEF vars, worldVars, runVars, stepVars
    <2> QED
      BY <2>1, <2>2, <2>3, <2>4, <2>5, <2>6, <2>7, <2>8, <2>9, <2>10, <2>11
         DEF Next, RunStep, Server
  <1> QED
    BY <1>0, <1>3, <1>4 DEF UIDsDrawn

LEMMA NextNamedBefore ==
    ASSUME TypeOK, MutexHeld, UIDsDrawn, NamedBefore, [Next]_vars
    PROVE  NamedBefore'
  <1>0. /\ uids \in Nat
        /\ \A r \in receipts \cup receiptRead : r.uid \in Nat /\ r.uid <= uids
        /\ \A p \in pointer \cup pointerRead : p.receipt \in Nat /\ p.receipt <= uids
    BY DEF TypeOK, UIDsDrawn, Receipt, Pointer
  \* no receipt that comes into being now has a UID that was named before
  <1>1. \A p \in pointerRead, r \in receipts' : r.uid = p.receipt => r \in receipts
    BY <1>0, ReceiptsForward
  <1>2. ASSUME UNCHANGED <<pc, pointerRead, receiptRead, instant>> PROVE NamedBefore'
    BY <1>1, <1>2 DEF NamedBefore
  <1>3. ASSUME pc' \notin {"final-receipt", "final-root"} PROVE NamedBefore'
    BY <1>3 DEF NamedBefore
  <1>4. CASE RunStep
    <2>1. CASE ReadStoredPointer
      BY <2>1 DEF ReadStoredPointer, NamedBefore, worldVars
    <2>2. CASE ReadFinalReceipt
      BY <1>1, <2>2 DEF ReadFinalReceipt, NamedBefore, Stored, worldVars
    <2>3. CASE ReadReadiness \/ ReadRoot \/ ReadCurrent \/ Plan \/ CreateReceipt
               \/ ReadStoredReceipt \/ PlanPointer \/ CreatePointer \/ Finish
      BY <1>3, <2>3
         DEF ReadReadiness, ReadRoot, ReadCurrent, Plan, CreateReceipt, ReadStoredReceipt,
             PlanPointer, CreatePointer, Finish, End, Cleared
    <2> QED
      BY <1>4, <2>1, <2>2, <2>3 DEF RunStep
  <1>5. ASSUME NEW w \in Runs, NEW d \in Digests, Start(w, d) PROVE NamedBefore'
    BY <1>3, <1>5 DEF Start
  <1>6. CASE Stop
    BY <1>3, <1>6 DEF Stop, End, Cleared
  <1>7. ASSUME NEW q \in receiptCreates, NEW again \in BOOLEAN, CommitReceipt(q, again)
        PROVE  NamedBefore'
    BY <1>2, <1>3, <1>7 DEF CommitReceipt, Respond
  <1>8. ASSUME NEW q \in pointerCreates, NEW again \in BOOLEAN, CommitPointer(q, again)
        PROVE  NamedBefore'
    BY <1>2, <1>3, <1>8 DEF CommitPointer, Respond
  <1>9. CASE Discard
    BY <1>2, <1>9 DEF Discard, stepVars
  <1>10. CASE Outsiders
    BY <1>2, <1>10, OutsidersCounted DEF runVars, stepVars
  <1>11. CASE UNCHANGED vars
    BY <1>2, <1>11 DEF vars, runVars, stepVars
  <1> QED
    BY <1>4, <1>5, <1>6, <1>7, <1>8, <1>9, <1>10, <1>11 DEF Next, Server

\* Results are only ever added, by Finish.
LEMMA ResultsByFinish ==
    ASSUME TypeOK, [Next]_vars, ~Finish
    PROVE  results' = results
  <1>1. CASE Outsiders
    BY <1>1, OutsidersCounted DEF runVars
  <1>2. CASE RunStep \/ Stop \/ Discard
    BY <1>2 DEF RunStep, Stop, Discard, ReadReadiness, ReadRoot, ReadCurrent, Plan,
                CreateReceipt, ReadStoredReceipt, PlanPointer, CreatePointer,
                ReadStoredPointer, ReadFinalReceipt
  <1> QED
    BY <1>1, <1>2 DEF Next, Start, Server, CommitReceipt, CommitPointer, vars, runVars

LEMMA NextBaseline ==
    ASSUME TypeOK, NamedBefore, BaselineStored, BaselineOfLiveRoot, [Next]_vars
    PROVE  BaselineStored' /\ BaselineOfLiveRoot'
  <1>1. CASE ~Finish
    BY <1>1, ResultsByFinish DEF BaselineStored, BaselineOfLiveRoot
  <1>2. CASE Finish
    <2>1. /\ live["root"].state = "converged" /\ root = live["root"]
          /\ \A r \in receiptRead : r.digest = digest /\ r.root = root.uid
      BY <1>2 DEF Finish, Compatible, SameRoot, Exact
    <2>2. \A r \in receiptRead, p \in pointerRead : Names(p, r) /\ r \in instant
      <3> SUFFICES ASSUME NEW r \in receiptRead, NEW p \in pointerRead
                   PROVE  Names(p, r) /\ r \in instant
        OBVIOUS
      <3>1. PICK s \in receiptRead : Names(p, s)
        BY <1>2 DEF Finish, Compatible
      <3>2. s = r
        BY DEF TypeOK, AtMostOne
      <3> QED
        BY <1>2, <3>1, <3>2 DEF Finish, NamedBefore, Names
    <2>3. \A b \in results' : b \in results \/
              \E r \in receiptRead, p \in pointerRead :
                  b = [run |-> holder, digest |-> digest, receipt |-> r, pointer |-> p,
                       instant |-> instant, root |-> live["root"]]
      BY <1>2 DEF Finish
    <2> QED
      BY <2>1, <2>2, <2>3 DEF BaselineStored, BaselineOfLiveRoot
  <1> QED
    BY <1>1, <1>2

-----------------------------------------------------------------------------
(* While nobody else writes. *)

\* Only outsiders touch the Applications, and a step that leaves the count of
\* their writes at zero is not theirs.
LEMMA NotOutsiders ==
    ASSUME TypeOK, [Next]_vars, Undisturbed'
    PROVE  ~Outsiders /\ Undisturbed /\ UNCHANGED <<live, meddled>>
  <1>1. ~Outsiders
    BY OutsidersCounted DEF Undisturbed
  <1>2. CASE RunStep \/ Stop \/ Discard
    BY <1>1, <1>2
       DEF RunStep, Stop, Discard, worldVars, ReadReadiness, ReadRoot, ReadCurrent, Plan,
           CreateReceipt, ReadStoredReceipt, PlanPointer, CreatePointer, ReadStoredPointer,
           ReadFinalReceipt, Finish, Undisturbed
  <1> QED
    BY <1>1, <1>2 DEF Next, Start, Server, CommitReceipt, CommitPointer, vars, worldVars,
                      Undisturbed

LEMMA NextLedgerGrows ==
    ASSUME TypeOK, LedgerGrows, RunUndisturbed, [Next]_vars, ~Outsiders, UNCHANGED live
    PROVE  LedgerGrows'
  <1> USE DEF LedgerGrows
  <1>a. \A x : Current(x)' <=> Current(x)
    BY DEF Current
  <1>0. ASSUME UNCHANGED <<receipts, pointer, receiptCreates, pointerCreates, results>>,
               receiptRead' \subseteq receipts, pointerRead' \subseteq pointer
        PROVE  LedgerGrows'
    BY <1>0, <1>a
  <1>1. ASSUME NEW w \in Runs, NEW d \in Digests, Start(w, d) PROVE LedgerGrows'
    BY <1>0, <1>1 DEF Start, worldVars
  <1>2. CASE Stop
    BY <1>0, <1>2 DEF Stop, End, Cleared, worldVars
  <1>3. CASE ReadReadiness \/ ReadRoot \/ PlanPointer
    BY <1>0, <1>3 DEF ReadReadiness, ReadRoot, PlanPointer, worldVars
  <1>4. CASE ReadCurrent \/ ReadStoredPointer
    BY <1>0, <1>4 DEF ReadCurrent, ReadStoredPointer, worldVars
  <1>5. CASE Plan \/ ReadStoredReceipt \/ ReadFinalReceipt
    BY <1>0, <1>5 DEF Plan, ReadStoredReceipt, ReadFinalReceipt, Stored, worldVars
  <1>6. CASE CreateReceipt
    <2>1. root = live["root"] /\ app = live["child"].uid
      BY <1>6 DEF CreateReceipt, RunUndisturbed
    <2>2. \A q \in receiptCreates' : Current(q)
      BY <1>6, <2>1 DEF CreateReceipt, Current
    <2> QED
      BY <1>6, <1>a, <2>2 DEF CreateReceipt, worldVars
  <1>7. CASE CreatePointer
    <2>1. \A r \in receiptRead : r \in receipts /\ r.digest = digest
      BY <1>7 DEF CreatePointer, RunUndisturbed, Stored
    <2>2. \A q \in pointerCreates' : \E r \in receipts : Names(q, r)
      <3>1. \A q \in pointerCreates' : q \in pointerCreates \/ \E r \in receiptRead :
                q = [run |-> holder, digest |-> digest, receipt |-> r.uid]
        BY <1>7 DEF CreatePointer
      <3> QED
        BY <2>1, <3>1 DEF Names
    <2> QED
      BY <1>7, <1>a, <2>2 DEF CreatePointer, worldVars
  <1>8. CASE Finish
    <2>1. \A b \in results' : b \in results \/
              \E r \in receiptRead, p \in pointerRead : b.receipt = r /\ b.pointer = p
      BY <1>8 DEF Finish
    <2> QED
      BY <1>8, <1>a, <2>1 DEF Finish, End, Cleared, worldVars
  <1>9. ASSUME NEW q \in receiptCreates, NEW again \in BOOLEAN, CommitReceipt(q, again)
        PROVE  LedgerGrows'
    <2> DEFINE new == [digest |-> q.digest, uid |-> uids + 1, root |-> q.root,
                       app |-> q.app, origin |-> q.run]
    <2>1. Current(new)
      BY DEF Current
    <2>2. /\ receipts' = receipts \cup {new} /\ receiptCreates' \subseteq receiptCreates
          /\ UNCHANGED <<pointer, pointerCreates, receiptRead, pointerRead, results>>
      BY <1>9 DEF CommitReceipt
    <2> HIDE DEF new
    <2> QED
      BY <1>a, <2>1, <2>2
  <1>10. ASSUME NEW q \in pointerCreates, NEW again \in BOOLEAN, CommitPointer(q, again)
         PROVE  LedgerGrows'
    <2> DEFINE new == [uid |-> uids + 1, digest |-> q.digest, receipt |-> q.receipt]
    <2>1. \E r \in receipts : Names(new, r)
      BY DEF Names
    <2>2. /\ pointer = {} /\ pointer' = {new} /\ pointerCreates' \subseteq pointerCreates
          /\ UNCHANGED <<receipts, receiptCreates, receiptRead, pointerRead, results>>
      BY <1>10 DEF CommitPointer
    <2> HIDE DEF new
    <2> QED
      BY <1>a, <2>1, <2>2
  <1>11. CASE Discard
    BY <1>11, <1>a DEF Discard, worldVars, stepVars
  <1>12. CASE UNCHANGED vars
    BY <1>0, <1>12 DEF vars, worldVars, runVars, stepVars
  <1> QED
    BY <1>1, <1>2, <1>3, <1>4, <1>5, <1>6, <1>7, <1>8, <1>9, <1>10, <1>11, <1>12
       DEF Next, RunStep, Server

LEMMA NextRunUndisturbed ==
    ASSUME TypeOK, MutexHeld, LedgerGrows, RunUndisturbed, [Next]_vars, ~Outsiders,
           UNCHANGED live
    PROVE  RunUndisturbed'
  <1> USE DEF RunUndisturbed
  <1>a. UNCHANGED <<receipts, digest>> => Stored(digest)' = Stored(digest)
    BY DEF Stored
  <1>1. ASSUME NEW w \in Runs, NEW d \in Digests, Start(w, d) PROVE RunUndisturbed'
    BY <1>1 DEF Start
  <1>2. CASE Stop \/ Finish
    BY <1>2 DEF Stop, Finish, End, Cleared
  <1>3. CASE ReadReadiness \/ ReadRoot \/ ReadCurrent
    BY <1>3 DEF ReadReadiness, ReadRoot, ReadCurrent
  <1>4. CASE Plan \/ ReadStoredReceipt \/ ReadFinalReceipt
    BY <1>4, <1>a DEF Plan, ReadStoredReceipt, ReadFinalReceipt, worldVars
  <1>5. CASE PlanPointer
    BY <1>5, <1>a DEF PlanPointer, LedgerGrows, worldVars
  <1>6. CASE CreateReceipt \/ CreatePointer
    BY <1>6, <1>a DEF CreateReceipt, CreatePointer, worldVars
  <1>7. CASE ReadStoredPointer
    BY <1>7, <1>a DEF ReadStoredPointer, worldVars
  <1>8. ASSUME NEW q \in receiptCreates, NEW again \in BOOLEAN, CommitReceipt(q, again)
        PROVE  RunUndisturbed'
    <2>1. /\ Stored(digest) \subseteq Stored(digest)'
          /\ q.digest = digest => Stored(digest) = {} /\ Stored(digest)' # {}
          /\ q.digest # digest => Stored(digest)' = Stored(digest)
      <3> DEFINE new == [digest |-> q.digest, uid |-> uids + 1, root |-> q.root,
                         app |-> q.app, origin |-> q.run]
      <3>1. /\ receipts' = receipts \cup {new} /\ new.digest = q.digest
            /\ Stored(q.digest) = {} /\ UNCHANGED digest
        BY <1>8 DEF CommitReceipt
      <3> HIDE DEF new
      <3> QED
        BY <3>1 DEF Stored
    <2>2. UNCHANGED <<app, root, receiptRead, pointer, pointerRead, digest>>
      BY <1>8 DEF CommitReceipt
    <2>3. \/ UNCHANGED pc
          \/ pc = "wait-receipt" /\ pc' = "stored-receipt" /\ q.digest = digest
      BY <1>8 DEF CommitReceipt, Respond, MutexHeld
    <2> QED
      BY <2>1, <2>2, <2>3
  <1>9. ASSUME NEW q \in pointerCreates, NEW again \in BOOLEAN, CommitPointer(q, again)
        PROVE  RunUndisturbed'
    BY <1>9, <1>a DEF CommitPointer, Respond
  <1>10. CASE Discard
    BY <1>10, <1>a DEF Discard, worldVars, stepVars
  <1>11. CASE UNCHANGED vars
    BY <1>11, <1>a DEF vars, worldVars, runVars, stepVars
  <1> QED
    BY <1>1, <1>2, <1>3, <1>4, <1>5, <1>6, <1>7, <1>8, <1>9, <1>10, <1>11
       DEF Next, RunStep, Server

-----------------------------------------------------------------------------
(* The theorems. *)

\* AdoptionInv holds in every reachable state.
THEOREM Invariance == Spec => []AdoptionInv
  <1>1. Init => AdoptionInv
    <2>1. ASSUME Init PROVE LedgerGrows /\ RunUndisturbed
      BY <2>1 DEF Init, LedgerGrows, RunUndisturbed, Applications
    <2> QED
      BY <2>1, InitTyped
         DEF Init, AdoptionInv, MutexHeld, UIDsDrawn, NamedBefore, BaselineStored,
             BaselineOfLiveRoot
  <1>2. AdoptionInv /\ [Next]_vars => AdoptionInv'
    <2> SUFFICES ASSUME AdoptionInv, [Next]_vars PROVE AdoptionInv'
      OBVIOUS
    <2> USE DEF AdoptionInv
    <2>1. TypeOK' /\ MutexHeld'
      BY NextTyped, NextMutexHeld
    <2>2. UIDsDrawn' /\ NamedBefore'
      BY NextUIDsDrawn, NextNamedBefore
    <2>3. BaselineStored' /\ BaselineOfLiveRoot'
      BY NextBaseline
    <2>4. Undisturbed' => LedgerGrows' /\ RunUndisturbed'
      BY NotOutsiders, NextLedgerGrows, NextRunUndisturbed
    <2> QED
      BY <2>1, <2>2, <2>3, <2>4
  <1> QED
    BY <1>1, <1>2, PTL DEF Spec

\* A published baseline was stored at one instant, receipt and pointer together.
THEOREM BaselinesWereStored == Spec => []BaselineStored
  <1>1. AdoptionInv => BaselineStored
    BY DEF AdoptionInv
  <1> QED
    BY <1>1, Invariance, PTL

\* Its receipt records the root that was converged at the end of the run.
THEOREM BaselinesAreOfLiveRoots == Spec => []BaselineOfLiveRoot
  <1>1. AdoptionInv => BaselineOfLiveRoot
    BY DEF AdoptionInv
  <1> QED
    BY <1>1, Invariance, PTL

\* Late and repeated creates never leave the pointer dangling.
THEOREM PointersNeverDangle == Spec => []PointerNeverDangles
  <1>1. AdoptionInv => PointerNeverDangles
    BY DEF AdoptionInv, LedgerGrows, PointerNeverDangles
  <1> QED
    BY <1>1, Invariance, PTL

\* All runs that succeed publish one baseline.
THEOREM BaselinesAgree == Spec => []OneBaseline
  <1>1. AdoptionInv => OneBaseline
    <2> SUFFICES ASSUME AdoptionInv, Undisturbed, NEW b \in results, NEW c \in results
                 PROVE  b.receipt = c.receipt /\ b.pointer = c.pointer
      BY DEF OneBaseline
    <2>1. /\ b.receipt \in receipts /\ c.receipt \in receipts
          /\ b.pointer \in pointer /\ c.pointer \in pointer
      BY DEF AdoptionInv, LedgerGrows
    <2>2. b.pointer = c.pointer
      BY <2>1 DEF AdoptionInv, TypeOK, AtMostOne
    <2>3. b.receipt.uid = c.receipt.uid
      BY <2>2 DEF AdoptionInv, BaselineStored, Names
    <2> QED
      BY <2>1, <2>2, <2>3 DEF AdoptionInv, UIDsDrawn
  <1> QED
    BY <1>1, Invariance, PTL

\* Whatever an interrupted adoption has left, no planning step of a later run of
\* the same request refuses to go on because of it.
THEOREM RetriesAreNeverRefused == Spec => []RetryNeverRefused
  <1>1. AdoptionInv => RetryNeverRefused
    <2> SUFFICES ASSUME AdoptionInv, Undisturbed, \A p \in pointerRead : p.digest = digest,
                        pc \in {"existing-receipt", "root-after", "final-root"}
                 PROVE  /\ pc = "existing-receipt" =>
                               Compatible({root}, Stored(digest), pointerRead)
                        /\ pc \in {"root-after", "final-root"} =>
                               /\ receiptRead # {}
                               /\ Compatible({root, live["root"]}, receiptRead, pointerRead)
                        /\ pc = "final-root" => pointerRead # {}
      BY DEF RetryNeverRefused
    <2>1. /\ root = live["root"] /\ root.state = "converged" /\ app = live["child"].uid
      BY DEF AdoptionInv, LedgerGrows, RunUndisturbed, Applications
    <2>2. \A r \in Stored(digest) : Exact(r, digest, root)
      BY <2>1 DEF AdoptionInv, LedgerGrows, Stored, Exact, Current
    <2>3. \A p \in pointerRead : \E r \in Stored(digest) : Names(p, r)
      BY DEF AdoptionInv, LedgerGrows, Stored, Names
    <2>4. pc \in {"root-after", "final-root"} => receiptRead # {} /\ receiptRead = Stored(digest)
      BY DEF AdoptionInv, RunUndisturbed
    <2>5. pc = "final-root" => pointerRead # {}
      BY DEF AdoptionInv, RunUndisturbed
    <2>6. Compatible({root}, Stored(digest), pointerRead)
      BY <2>1, <2>2, <2>3 DEF Compatible, SameRoot
    <2>7. Compatible({root, live["root"]}, Stored(digest), pointerRead)
      BY <2>1, <2>2, <2>3 DEF Compatible, SameRoot
    <2> QED
      BY <2>4, <2>5, <2>6, <2>7
  <1> QED
    BY <1>1, Invariance, PTL

\* With nobody else writing, every step of the workflow, of its late creates and
\* of its interruptions is a step of the append-only ledger or changes nothing of
\* it.
THEOREM ImplementsLedger ==
    ASSUME MaxMeddling = 0
    PROVE  Spec => LedgerSpec
  <1>1. Init => Ledger!Init
    BY DEF Init, Ledger!Init, Baselines
  <1>2. AdoptionInv /\ [Next]_vars => [Ledger!Next]_(Ledger!ledgerVars)
    <2> SUFFICES ASSUME AdoptionInv, [Next]_vars
                 PROVE  Ledger!Next \/ UNCHANGED <<receipts, pointer, Baselines>>
      BY DEF Ledger!ledgerVars
    <2>0. Undisturbed /\ LedgerGrows /\ RunUndisturbed
      BY DEF AdoptionInv, TypeOK, Undisturbed
    <2>1. ~Outsiders
      BY OutsidersCounted DEF AdoptionInv
    <2>2. ASSUME UNCHANGED <<receipts, pointer, results>>
          PROVE  UNCHANGED <<receipts, pointer, Baselines>>
      BY <2>2 DEF Baselines
    <2>3. ASSUME NEW q \in receiptCreates, NEW again \in BOOLEAN, CommitReceipt(q, again)
          PROVE  Ledger!Next
      <3> DEFINE new == [digest |-> q.digest, uid |-> uids + 1, root |-> q.root,
                         app |-> q.app, origin |-> q.run]
      <3>1. /\ receipts' = receipts \cup {new} /\ Stored(q.digest) = {}
            /\ UNCHANGED <<pointer, Baselines>>
        BY <2>3 DEF CommitReceipt, Baselines
      <3>2. \A s \in receipts : s.digest # new.digest /\ s.uid # new.uid
        <4>1. \A s \in receipts : s.uid \in Nat /\ s.uid <= uids /\ uids \in Nat
          BY DEF AdoptionInv, TypeOK, UIDsDrawn, Receipt
        <4> QED
          BY <3>1, <4>1 DEF Stored
      <3> HIDE DEF new
      <3> QED
        BY <3>1, <3>2 DEF Ledger!Next, Ledger!Record
    <2>4. ASSUME NEW q \in pointerCreates, NEW again \in BOOLEAN, CommitPointer(q, again)
          PROVE  Ledger!Next
      <3> DEFINE new == [uid |-> uids + 1, digest |-> q.digest, receipt |-> q.receipt]
      <3>1. pointer = {} /\ pointer' = {new} /\ UNCHANGED <<receipts, Baselines>>
        BY <2>4 DEF CommitPointer, Baselines
      <3>2. \E r \in receipts : new.digest = r.digest /\ new.receipt = r.uid
        BY <2>0 DEF LedgerGrows, Names
      <3> HIDE DEF new
      <3> QED
        BY <3>1, <3>2 DEF Ledger!Next, Ledger!Point, Ledger!Names
    <2>5. CASE Finish
      <3>1. PICK r \in receiptRead, p \in pointerRead : TRUE
        BY <2>5 DEF Finish
      <3>2. /\ \A s \in receiptRead : s = r
            /\ \A s \in pointerRead : s = p
        BY DEF AdoptionInv, TypeOK, AtMostOne
      <3>3. r \in receipts /\ p \in pointer /\ Names(p, r)
        BY <2>0, <2>5, <3>2 DEF LedgerGrows, Finish, Compatible
      <3>4. results' = results \cup {[run |-> holder, digest |-> digest, receipt |-> r,
                                      pointer |-> p, instant |-> instant, root |-> live["root"]]}
        BY <2>5, <3>1, <3>2 DEF Finish
      <3>5. Baselines' = Baselines \cup {[receipt |-> r, pointer |-> p]}
        <4> DEFINE new == [run |-> holder, digest |-> digest, receipt |-> r, pointer |-> p,
                           instant |-> instant, root |-> live["root"]]
        <4>1. new.receipt = r /\ new.pointer = p /\ results' = results \cup {new}
          BY <3>4
        <4> HIDE DEF new
        <4> QED
          BY <4>1 DEF Baselines
      <3>6. UNCHANGED <<receipts, pointer>>
        BY <2>5 DEF Finish, worldVars
      <3> QED
        BY <3>3, <3>5, <3>6 DEF Ledger!Next, Ledger!Publish, Ledger!Names, Names
    <2>6. CASE Stop \/ Discard \/ ReadReadiness \/ ReadRoot \/ ReadCurrent \/ Plan
               \/ CreateReceipt \/ ReadStoredReceipt \/ PlanPointer \/ CreatePointer
               \/ ReadStoredPointer \/ ReadFinalReceipt
      BY <2>2, <2>6
         DEF Stop, Discard, ReadReadiness, ReadRoot, ReadCurrent, Plan, CreateReceipt,
             ReadStoredReceipt, PlanPointer, CreatePointer, ReadStoredPointer,
             ReadFinalReceipt, worldVars
    <2>7. ASSUME NEW w \in Runs, NEW d \in Digests, Start(w, d)
          PROVE  UNCHANGED <<receipts, pointer, Baselines>>
      BY <2>2, <2>7 DEF Start, worldVars
    <2>8. CASE UNCHANGED vars
      BY <2>2, <2>8 DEF vars, worldVars, runVars
    <2> QED
      BY <2>1, <2>3, <2>4, <2>5, <2>6, <2>7, <2>8 DEF Next, RunStep, Server
  <1> QED
    BY <1>1, <1>2, Invariance, PTL DEF Spec, LedgerSpec, Ledger!Spec
=============================================================================
