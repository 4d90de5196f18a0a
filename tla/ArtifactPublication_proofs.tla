--------------------- MODULE ArtifactPublication_proofs ---------------------
(***************************************************************************)
(* PublicationInv is an inductive invariant of ArtifactPublication for any *)
(* publishers, receipts and kinds of publication and any number of runs    *)
(* and edits.  From it follow that manifests and receipts resolve, that    *)
(* policies are stored as reviewed, and that the scripts implement the     *)
(* write-once store of ImmutableEvidence.                                  *)
(***************************************************************************)
EXTENDS ArtifactPublication, SequenceTheorems, FiniteSetTheorems, TLAPS

\* The fields of a publisher.
LEMMA Fields ==
    /\ DOMAIN Idle = {"phase", "kind", "path", "checked", "sources", "done", "sent"}
    /\ Idle.phase = "idle" /\ Idle.kind = "none" /\ Idle.sources = <<>> /\ Idle.done = 0
    /\ DOMAIN NoJob = {"state", "outputs", "listed", "verdict"}
    /\ NoJob.outputs = <<>> /\ NoJob.listed = {}
  BY DEF Idle, NoJob

LEMMA KindsHaveInputs ==
    /\ DOMAIN Inputs = {"baseline", "browser", "diagnostics", "rawResult", "kubeBurner",
                        "policy"}
    /\ \A kind \in DOMAIN Inputs :
          /\ Inputs[kind] \in Seq(Produceable \cup Manifests)
          /\ Len(Inputs[kind]) \in Nat
          /\ \A i \in 1..Len(Inputs[kind]) : (Inputs[kind][i] = "policy") <=> kind = "policy"
    /\ Kinds \ {"k6"} \subseteq DOMAIN Inputs
  <1>1. DOMAIN Inputs = {"baseline", "browser", "diagnostics", "rawResult", "kubeBurner",
                        "policy"}
    BY DEF Inputs
  <1>2. /\ Inputs["baseline"] = BaselineInputs
        /\ Inputs["browser"] = BrowserInputs /\ Inputs["diagnostics"] = DiagnosticInput
        /\ Inputs["rawResult"] = RawResultInput /\ Inputs["kubeBurner"] = CaptureSources
        /\ Inputs["policy"] = PolicyInput
    BY DEF Inputs
  <1> USE DEF BaselineInputs, BrowserInputs, DiagnosticInput, RawResultInput, CaptureSources,
              PolicyInput, Produceable, Manifests
  <1>3. \A kind \in DOMAIN Inputs : Inputs[kind] \in Seq(Produceable \cup Manifests)
    <2>1. /\ BaselineInputs \in Seq(Produceable \cup Manifests)
          /\ BrowserInputs \in Seq(Produceable \cup Manifests)
      OBVIOUS
    <2>2. /\ DiagnosticInput \in Seq(Produceable \cup Manifests)
          /\ RawResultInput \in Seq(Produceable \cup Manifests)
      OBVIOUS
    <2>3. /\ CaptureSources \in Seq(Produceable \cup Manifests)
          /\ PolicyInput \in Seq(Produceable \cup Manifests)
      OBVIOUS
    <2> HIDE DEF BaselineInputs, BrowserInputs, DiagnosticInput, RawResultInput, CaptureSources,
                 PolicyInput
    <2> QED
      BY <1>1, <1>2, <2>1, <2>2, <2>3
  <1>4. /\ Len(BrowserInputs) = 2 /\ Len(DiagnosticInput) = 1 /\ Len(RawResultInput) = 1
        /\ Len(CaptureSources) = 1 /\ Len(PolicyInput) = 1 /\ Len(BaselineInputs) = 1
    OBVIOUS
  <1>5. \A kind \in DOMAIN Inputs : Len(Inputs[kind]) \in Nat
    BY <1>1, <1>2, <1>4
  <1>6. /\ \A i \in 1..2 : i = 1 \/ i = 2
        /\ \A i \in 1..1 : i = 1
    OBVIOUS
  <1>7. \A kind \in DOMAIN Inputs : \A i \in 1..Len(Inputs[kind]) :
            (Inputs[kind][i] = "policy") <=> kind = "policy"
    BY <1>1, <1>2, <1>4, <1>6
  <1> QED
    BY <1>1, <1>3, <1>5, <1>7, KindsAssumption

-----------------------------------------------------------------------------
(* Types. *)

\* One more source at the end of the references.
LEMMA SourceAppended ==
    ASSUME NEW s, s \in Seq({s[i] : i \in 1..Len(s)}), NEW e, NEW t, t = Append(s, e)
    PROVE  /\ Len(s) \in Nat /\ Len(t) = Len(s) + 1
           /\ {t[i] : i \in 1..Len(t)} = {s[i] : i \in 1..Len(s)} \cup {e}
           /\ t \in Seq({t[i] : i \in 1..Len(t)})
  <1> DEFINE S == {s[i] : i \in 1..Len(s)}
             T == S \cup {e}
  <1>1. s \in Seq(T)
    BY SeqMonotonic, S \subseteq T
  <1> HIDE DEF S, T
  <1>2. /\ t \in Seq(T) /\ Len(s) \in Nat /\ Len(t) = Len(s) + 1
        /\ t[Len(s) + 1] = e /\ \A i \in 1..Len(s) : t[i] = s[i]
    BY <1>1 DEF T
  <1>3. \A i \in 1..Len(t) : i \in 1..Len(s) \/ i = Len(s) + 1
    BY <1>2
  <1>4. {t[i] : i \in 1..Len(t)} = T
    <2>1. ASSUME NEW i \in 1..Len(t) PROVE t[i] \in T
      BY <1>2, <1>3 DEF T, S
    <2>2. ASSUME NEW x \in T PROVE \E i \in 1..Len(t) : t[i] = x
      BY <1>2 DEF T, S
    <2> QED
      BY <2>1, <2>2
  <1> QED
    BY <1>2, <1>4 DEF T, S

-----------------------------------------------------------------------------
(* What each step of a publisher changes of it. *)

\* The rest of publisher p, and every other publisher, stays as it was.
Changes(p, fields) ==
    /\ DOMAIN op' = Publishers /\ \A q \in Publishers \ {p} : op'[q] = op[q]
    /\ DOMAIN op'[p] = DOMAIN Idle
    /\ \A field \in DOMAIN Idle \ fields : op'[p][field] = op[p][field]

LEMMA PublisherChanges ==
    ASSUME TypeOK, NEW p \in Publishers
    PROVE  /\ CheckClaim(p) => Changes(p, {"checked"})
           /\ Reference(p) =>
                 /\ Changes(p, {"sources", "checked"})
                 /\ \E reference :
                       /\ reference = [key |-> reference.key, id |-> reference.id,
                                        content |-> reference.content]
                       /\ reference.key = NextInput(p) /\ reference.content = files[NextInput(p)]
                       /\ op'[p].sources = Append(op[p].sources, reference)
           /\ Reserve(p) => Changes(p, {"phase"}) /\ op'[p].phase = "verifying"
           /\ Verify(p) => Changes(p, {"phase"}) /\ op'[p].phase = "sending"
           /\ Send(p) => /\ Changes(p, {"phase", "sent"})
                         /\ op'[p].phase = "putting" /\ op'[p].sent = Current(p).content
           /\ Put(p) => Changes(p, {"phase"}) /\ op'[p].phase = "checking"
           /\ ReadBack(p) => /\ Changes(p, {"phase", "done"})
                             /\ op'[p].phase = "sending" /\ op'[p].done = op[p].done + 1
           /\ WriteReceipt(p) \/ Fail(p) \/ Kill(p) =>
                 Changes(p, DOMAIN Idle) /\ op'[p] = Idle
  <1> USE Fields DEF Changes
  <1>0. DOMAIN op = Publishers /\ DOMAIN op[p] = DOMAIN Idle
    BY DEF TypeOK
  <1>1. CheckClaim(p) => Changes(p, {"checked"})
    BY <1>0 DEF CheckClaim
  <1>2. ASSUME Reference(p)
        PROVE  /\ Changes(p, {"sources", "checked"})
               /\ \E reference :
                     /\ reference = [key |-> reference.key, id |-> reference.id,
                                      content |-> reference.content]
                     /\ reference.key = NextInput(p) /\ reference.content = files[NextInput(p)]
                     /\ op'[p].sources = Append(op[p].sources, reference)
    <2> DEFINE reference == [key |-> NextInput(p),
                             id |-> IF op[p].kind = "policy" THEN 0 ELSE drawn + 1,
                             content |-> files[NextInput(p)]]
    <2>1. op' = [op EXCEPT ![p].sources = Append(op[p].sources, reference), ![p].checked = FALSE]
      BY <1>2 DEF Reference
    <2>2. /\ reference = [key |-> reference.key, id |-> reference.id,
                           content |-> reference.content]
          /\ reference.key = NextInput(p) /\ reference.content = files[NextInput(p)]
      OBVIOUS
    <2> HIDE DEF reference
    <2> QED
      BY <1>0, <2>1, <2>2
  <1>3. Reserve(p) => Changes(p, {"phase"}) /\ op'[p].phase = "verifying"
    BY <1>0 DEF Reserve
  <1>4. Verify(p) => Changes(p, {"phase"}) /\ op'[p].phase = "sending"
    BY <1>0 DEF Verify
  <1>5. Send(p) => /\ Changes(p, {"phase", "sent"})
                   /\ op'[p].phase = "putting" /\ op'[p].sent = Current(p).content
    <2> DEFINE content == Current(p).content
    <2>1. Send(p) => op' = [op EXCEPT ![p].phase = "putting", ![p].sent = content]
      BY Zenon DEF Send, BytesSent
    <2> HIDE DEF content
    <2>2. ASSUME op' = [op EXCEPT ![p].phase = "putting", ![p].sent = content]
          PROVE  /\ Changes(p, {"phase", "sent"})
                 /\ op'[p].phase = "putting" /\ op'[p].sent = content
      BY <1>0, <2>2
    <2> QED
      BY <2>1, <2>2, Zenon DEF content
  <1>6. Put(p) => Changes(p, {"phase"}) /\ op'[p].phase = "checking"
    BY <1>0 DEF Put
  <1>7. ReadBack(p) => /\ Changes(p, {"phase", "done"})
                       /\ op'[p].phase = "sending" /\ op'[p].done = op[p].done + 1
    <2>1. ReadBack(p) => op' = [op EXCEPT ![p].phase = "sending", ![p].done = @ + 1]
      BY Zenon DEF ReadBack
    <2>2. ASSUME op' = [op EXCEPT ![p].phase = "sending", ![p].done = @ + 1]
          PROVE  /\ Changes(p, {"phase", "done"})
                 /\ op'[p].phase = "sending" /\ op'[p].done = op[p].done + 1
      BY <1>0, <2>2
    <2> QED
      BY <2>1, <2>2, Zenon
  <1>8. WriteReceipt(p) \/ Fail(p) \/ Kill(p) => Changes(p, DOMAIN Idle) /\ op'[p] = Idle
    BY <1>0 DEF WriteReceipt, Fail, Kill
  <1> QED
    BY <1>1, <1>2, <1>3, <1>4, <1>5, <1>6, <1>7, <1>8

LEMMA BeginChanges ==
    ASSUME TypeOK, NEW p \in Publishers, NEW kind, NEW path, Begin(p, kind, path)
    PROVE  /\ Changes(p, DOMAIN Idle)
           /\ op'[p].phase = "referencing" /\ op'[p].kind = kind /\ op'[p].path = path
           /\ op'[p].sources = <<>> /\ op'[p].done = 0
  <1>1. op' = [op EXCEPT ![p] = [Idle EXCEPT !.phase = "referencing", !.kind = kind, !.path = path]]
    BY DEF Begin
  <1>2. DOMAIN op = Publishers
    BY DEF TypeOK
  <1> QED
    BY <1>1, <1>2, Fields DEF Changes

-----------------------------------------------------------------------------
(* Types are kept. *)

\* Steps of others than the publishers.
Others ==
    \/ \E reference \in late : CarryOut(reference)
    \/ \E path \in Paths : AssembleDiagnostics(path) \/ RemoveReceipt(path)
    \/ \E path, uploaded \in Paths : AssembleRawResult(path, uploaded)
    \/ StartJob \/ UploadOutput \/ UploadMarker \/ LateUpload \/ ObserveJob
    \/ \E n \in Rewritten : Produce(n)
    \/ ClaimExecution
    \/ UNCHANGED vars

LEMMA OthersKeepPublishers == Others => op' = op
  <1>1. StartJob \/ UploadOutput \/ UploadMarker \/ LateUpload \/ ObserveJob => op' = op
    BY Zenon DEF StartJob, UploadOutput, UploadMarker, LateUpload, ObserveJob
  <1> QED
    BY <1>1
       DEF Others, CarryOut, AssembleDiagnostics, RemoveReceipt, AssembleRawResult, WriteManifest,
           Produce, ClaimExecution, vars

LEMMA NextIsEither == [Next]_vars <=> Others \/ \E p \in Publishers : Publisher(p)
  BY DEF Next, Others

TypedPublisher(p) ==
    /\ DOMAIN op[p] = DOMAIN Idle
    /\ op[p].phase \in Phases /\ op[p].kind \in DOMAIN Inputs \cup {"none"}
    /\ op[p].sources \in Seq(Carried(p))
    /\ op[p].done \in 0..Len(op[p].sources)
    /\ op[p].phase # "idle" => op[p].kind # "none" /\ op[p].path \in Paths
    /\ op[p].kind # "none" => Len(op[p].sources) <= Len(Names(p))

LEMMA PublisherTyped ==
    ASSUME TypeOK, DoneIsStored, [Next]_vars
    PROVE  DOMAIN op' = Publishers /\ \A p \in Publishers : TypedPublisher(p)'
  <1>1. DOMAIN op = Publishers /\ \A p \in Publishers : TypedPublisher(p)
    BY DEF TypeOK, TypedPublisher
  <1>2. ASSUME NEW q \in Publishers, op'[q] = op[q] PROVE TypedPublisher(q)'
    <2>1. TypedPublisher(q) /\ Carried(q)' = Carried(q) /\ Names(q)' = Names(q)
      BY <1>1, <1>2 DEF Carried, Names
    <2> QED
      BY <1>2, <2>1 DEF TypedPublisher
  <1>3. CASE Others
    BY <1>1, <1>2, <1>3, OthersKeepPublishers
  <1>4. ASSUME NEW p \in Publishers, Publisher(p)
        PROVE  DOMAIN op' = Publishers /\ \A q \in Publishers : TypedPublisher(q)'
    <2> USE Fields
    <2> SUFFICES DOMAIN op' = Publishers /\ TypedPublisher(p)'
                 /\ \A q \in Publishers \ {p} : op'[q] = op[q]
      BY <1>2
    <2>0. TypedPublisher(p)
      BY <1>1
    <2>1. ASSUME NEW fields, Changes(p, fields), fields \subseteq {"phase", "checked", "sent"},
                 op'[p].phase \in Phases, op[p].phase # "idle"
          PROVE  TypedPublisher(p)'
      <3>1. /\ DOMAIN op'[p] = DOMAIN Idle /\ op'[p].kind = op[p].kind
            /\ op'[p].sources = op[p].sources /\ op'[p].done = op[p].done
            /\ op'[p].path = op[p].path
        BY <2>1 DEF Changes
      <3> QED
        BY <2>0, <2>1, <3>1 DEF TypedPublisher, Carried, Names
    <2>2. ASSUME NEW kind \in Kinds \ {"k6"}, NEW path \in Paths, Begin(p, kind, path)
          PROVE  Changes(p, DOMAIN Idle) /\ TypedPublisher(p)'
      <3>1. /\ Changes(p, DOMAIN Idle)
            /\ op'[p].phase = "referencing" /\ op'[p].kind = kind /\ op'[p].path = path
            /\ op'[p].sources = <<>> /\ op'[p].done = 0
        BY <2>2, BeginChanges
      <3>2. kind \in DOMAIN Inputs /\ Len(Inputs[kind]) \in Nat /\ kind # "none"
        BY KindsHaveInputs
      <3>3. Len(op'[p].sources) = 0 /\ op'[p].sources \in Seq(Carried(p)')
        BY <3>1, EmptySeq
      <3> QED
        BY <3>1, <3>2, <3>3 DEF Changes, TypedPublisher, Phases, Names
    <2>3. CASE Reference(p)
      <3>1. PICK reference : op'[p].sources = Append(op[p].sources, reference)
        BY <2>3, PublisherChanges
      <3>2. Changes(p, {"sources", "checked"})
        BY <2>3, PublisherChanges
      <3>3. /\ DOMAIN op'[p] = DOMAIN Idle /\ op'[p].kind = op[p].kind
            /\ op'[p].phase = op[p].phase /\ op'[p].done = op[p].done
            /\ op'[p].path = op[p].path
        BY <3>2 DEF Changes
      <3>4. op[p].phase = "referencing" /\ Len(op[p].sources) # Len(Names(p))
        BY <2>3, ZenonT(30) DEF Reference, AllReferenced
      <3>5. op[p].sources \in Seq({op[p].sources[i] : i \in 1..Len(op[p].sources)})
        BY <2>0 DEF TypedPublisher, Carried
      <3>6. /\ Len(op[p].sources) \in Nat /\ Len(op'[p].sources) = Len(op[p].sources) + 1
            /\ op'[p].sources \in Seq({op'[p].sources[i] : i \in 1..Len(op'[p].sources)})
        <4> DEFINE s == op[p].sources
                   t == op'[p].sources
        <4> HIDE DEF s, t
        <4>1. s \in Seq({s[i] : i \in 1..Len(s)}) /\ t = Append(s, reference)
          BY <3>1, <3>5 DEF s, t
        <4>2. /\ Len(s) \in Nat /\ Len(t) = Len(s) + 1
              /\ t \in Seq({t[i] : i \in 1..Len(t)})
          BY <4>1, SourceAppended
        <4> QED
          BY <4>2 DEF s, t
      <3>7. Len(Names(p)) \in Nat /\ Names(p)' = Names(p)
        BY <2>0, <3>3, <3>4, KindsHaveInputs DEF TypedPublisher, Names
      <3>8. Len(op'[p].sources) <= Len(Names(p)')
        BY <2>0, <3>4, <3>6, <3>7 DEF TypedPublisher
      <3>9. op'[p].done \in 0..Len(op'[p].sources)
        BY <2>0, <3>3, <3>6 DEF TypedPublisher
      <3> QED
        BY <2>0, <3>2, <3>3, <3>6, <3>8, <3>9 DEF TypedPublisher, Carried, Changes
    <2>4. CASE ReadBack(p)
      <3>1. /\ Changes(p, {"phase", "done"})
            /\ op'[p].phase = "sending" /\ op'[p].done = op[p].done + 1
        BY <2>4, PublisherChanges
      <3>2. /\ DOMAIN op'[p] = DOMAIN Idle /\ op'[p].kind = op[p].kind
            /\ op'[p].sources = op[p].sources /\ op'[p].path = op[p].path
        BY <3>1 DEF Changes
      <3>3. op[p].phase = "checking" /\ op[p].done < Len(op[p].sources)
        BY <2>4 DEF ReadBack, DoneIsStored
      <3>4. Len(op[p].sources) \in Nat
        BY <2>0, LenProperties DEF TypedPublisher
      <3>5. op'[p].done \in 0..Len(op'[p].sources)
        BY <2>0, <3>1, <3>2, <3>3, <3>4 DEF TypedPublisher
      <3> QED
        BY <2>0, <3>1, <3>2, <3>3, <3>5 DEF TypedPublisher, Carried, Names, Changes, Phases
    <2>5. ASSUME WriteReceipt(p) \/ Fail(p) \/ Kill(p)
          PROVE  Changes(p, DOMAIN Idle) /\ TypedPublisher(p)'
      <3>1. Changes(p, DOMAIN Idle) /\ op'[p] = Idle
        BY <2>5, PublisherChanges
      <3>2. Len(op'[p].sources) = 0 /\ op'[p].sources \in Seq(Carried(p)')
        BY <3>1, EmptySeq
      <3> QED
        BY <3>1, <3>2 DEF TypedPublisher, Phases
    <2>6. ASSUME CheckClaim(p) \/ Reserve(p) \/ Verify(p) \/ Send(p) \/ Put(p)
          PROVE  /\ \E fields : Changes(p, fields)
                 /\ TypedPublisher(p)'
      <3>1. \E fields \in SUBSET {"phase", "checked", "sent"} : Changes(p, fields)
        BY <2>6, PublisherChanges
      <3>2. op[p].phase # "idle" /\ op'[p].phase \in Phases
        BY <2>0, <2>6, PublisherChanges
           DEF CheckClaim, Reserve, Verify, Send, Put, Phases, Changes, TypedPublisher
      <3> QED
        BY <2>1, <3>1, <3>2
    <2> QED
      BY <1>4, <2>2, <2>3, <2>4, <2>5, <2>6, PublisherChanges DEF Publisher, Changes
  <1> QED
    BY <1>3, <1>4, NextIsEither

TypedFiles ==
    /\ DOMAIN files = Produceable \cup Manifests
    /\ \A n \in Produceable : files[n] \in {Produced(v) : v \in 1..edits + 1}
    /\ claimed \in {Produced(v) : v \in 1..edits + 1}
    /\ edits \in 0..MaxEdits

LEMMA FilesTyped ==
    ASSUME TypeOK, [Next]_vars
    PROVE  TypedFiles'
  <1>0. TypedFiles
    BY DEF TypeOK, TypedFiles
  <1>1. CASE UNCHANGED <<files, claimed, edits>>
    BY <1>0, <1>1 DEF TypedFiles
  <1>2. ASSUME NEW name \in Manifests, NEW references, WriteManifest(name, references)
        PROVE  TypedFiles'
    <2>1. /\ files' = [files EXCEPT ![name] = Manifest(references)]
          /\ UNCHANGED <<claimed, edits>>
      BY <1>2 DEF WriteManifest
    <2>2. \A n \in Produceable : n # name
      BY DEF Produceable, Manifests
    <2> QED
      BY <1>0, <2>1, <2>2 DEF TypedFiles
  <1>3. ASSUME NEW n \in Rewritten, Produce(n) PROVE TypedFiles'
    <2>1. /\ files' = [files EXCEPT ![n] = Produced(files[n][1] + 1)]
          /\ edits' = edits + 1 /\ edits < MaxEdits /\ claimed' = claimed
      BY <1>3 DEF Produce
    <2>2. n \in Produceable /\ edits \in Nat /\ edits' \in 0..MaxEdits
      BY <1>0, <2>1, KindsAssumption, BoundsAssumption DEF TypedFiles
    <2>3. PICK v \in 1..edits + 1 : files[n] = <<v>>
      BY <1>0, <2>2 DEF TypedFiles, Produced
    <2>4. files'[n] = Produced(v + 1) /\ v + 1 \in 1..edits' + 1
      BY <1>0, <2>1, <2>2, <2>3 DEF TypedFiles
    <2>5. \A m : m \in 1..edits + 1 => m \in 1..edits' + 1
      BY <2>1, <2>2
    <2>6. \A m \in Produceable \ {n} : files'[m] = files[m]
      BY <1>0, <2>1 DEF TypedFiles
    <2>7. DOMAIN files' = DOMAIN files
      BY <2>1
    <2> HIDE DEF Produced
    <2> QED
      BY <1>0, <2>1, <2>2, <2>4, <2>5, <2>6, <2>7 DEF TypedFiles
  <1>4. CASE ClaimExecution
    <2>1. claimed' = files["latency"] /\ UNCHANGED <<files, edits>>
      BY <1>4 DEF ClaimExecution
    <2>2. "latency" \in Produceable
      BY DEF Produceable
    <2> QED
      BY <1>0, <2>1, <2>2 DEF TypedFiles
  <1>5. ASSUME NEW path, NEW uploaded,
               AssembleDiagnostics(path) \/ AssembleRawResult(path, uploaded)
        PROVE  TypedFiles'
    BY <1>2, <1>5 DEF AssembleDiagnostics, AssembleRawResult, Manifests
  <1>6. ASSUME NEW p \in Publishers, Publisher(p) PROVE UNCHANGED <<files, claimed, edits>>
    BY <1>6, Zenon
       DEF Publisher, Begin, CheckClaim, Reference, Reserve, Verify, Send, Put, ReadBack,
           WriteReceipt, Fail, Kill
  <1>7. CASE \/ StartJob \/ UploadOutput \/ UploadMarker \/ LateUpload \/ ObserveJob \/ UNCHANGED vars
             \/ \E reference \in late : CarryOut(reference)
             \/ \E path \in Paths : RemoveReceipt(path)
    <2>1. UNCHANGED <<files, claimed, edits>>
      BY <1>7, Zenon
         DEF StartJob, UploadOutput, UploadMarker, LateUpload, ObserveJob, CarryOut, RemoveReceipt, vars
    <2> QED
      BY <1>1, <2>1
  <1> QED
    BY <1>1, <1>3, <1>4, <1>5, <1>6, <1>7, NextIsEither DEF Others

TypedJob ==
    /\ DOMAIN job = DOMAIN NoJob
    /\ job.outputs \in {<<>>, <<"status">>, Captured} /\ IsFiniteSet(job.listed)

LEMMA JobTyped ==
    ASSUME TypeOK, [Next]_vars
    PROVE  TypedJob'
  <1> USE Fields
  <1>0. TypedJob
    BY DEF TypeOK, TypedJob
  <1>1. CASE job' = job
    BY <1>0, <1>1 DEF TypedJob
  <1>2. CASE StartJob
    <2>1. PICK outputs \in {Captured, <<"status">>} :
             job' = [job EXCEPT !.state = "uploading", !.outputs = outputs]
      BY <1>2, Zenon DEF StartJob
    <2> QED
      BY <1>0, <2>1 DEF TypedJob
  <1>3. ASSUME NEW key, NEW content, NEW next, Upload(key, content, next)
        PROVE  job' = next \/ \E state : job' = [job EXCEPT !.state = state]
    BY <1>3, Zenon DEF Upload
  <1>4. ASSUME NEW state, job' = [job EXCEPT !.state = state] PROVE TypedJob'
    BY <1>0, <1>4 DEF TypedJob
  <1>5. CASE UploadOutput
    <2>1. PICK entry : \/ job' = [job EXCEPT !.listed = job.listed \cup {entry}]
                       \/ \E state : job' = [job EXCEPT !.state = state]
      BY <1>5, <1>3, Zenon DEF UploadOutput
    <2>2. IsFiniteSet(job.listed \cup {entry})
      BY <1>0, FS_AddElement DEF TypedJob
    <2> QED
      BY <1>0, <1>4, <2>1, <2>2 DEF TypedJob
  <1>6. CASE UploadMarker \/ LateUpload
    BY <1>3, <1>4, <1>6, Zenon DEF UploadMarker, LateUpload
  <1>7. CASE ObserveJob
    <2>1. job' = [job EXCEPT !.verdict = "captured"]
      BY <1>7, Zenon DEF ObserveJob
    <2> QED
      BY <1>0, <2>1 DEF TypedJob
  <1>8. ASSUME NEW p \in Publishers, Publisher(p) PROVE job' = job
    BY <1>8, Zenon
       DEF Publisher, Begin, CheckClaim, Reference, Reserve, Verify, Send, Put, ReadBack,
           WriteReceipt, Fail, Kill
  <1>9. CASE \/ \E reference \in late : CarryOut(reference)
             \/ \E path \in Paths : AssembleDiagnostics(path) \/ RemoveReceipt(path)
             \/ \E path, uploaded \in Paths : AssembleRawResult(path, uploaded)
             \/ \E n \in Rewritten : Produce(n)
             \/ ClaimExecution
             \/ UNCHANGED vars
    <2>1. job' = job
      BY <1>9, Zenon
         DEF CarryOut, AssembleDiagnostics, AssembleRawResult, WriteManifest, RemoveReceipt,
             Produce, ClaimExecution, vars
    <2> QED
      BY <1>1, <2>1
  <1> QED
    BY <1>1, <1>2, <1>5, <1>6, <1>7, <1>8, <1>9, NextIsEither DEF Others

-----------------------------------------------------------------------------
(* Objects are written once. *)

Written(k, content, id) ==
    /\ store[k] = Absent
    /\ store' = [store EXCEPT ![k] = <<content, id>>]

LEMMA CurrentCarried ==
    ASSUME TypeOK, DoneIsStored, NEW p \in Publishers, op[p].phase \in {"putting", "checking"}
    PROVE  Current(p) \in Carried(p)
  <1>1. op[p].done \in Nat /\ op[p].done < Len(op[p].sources) /\ Len(op[p].sources) \in Nat
    BY LenProperties DEF TypeOK, DoneIsStored
  <1> QED
    BY <1>1 DEF Current, Carried

LEMMA PutWrites ==
    ASSUME NEW p \in Publishers, Put(p)
    PROVE  \E content \in {op[p].sent, Damaged} :
              Written(Current(p).key, content, Current(p).id)
  BY Zenon DEF Put, PutPermitted, Written

LEMMA CarryOutWrites ==
    ASSUME NEW reference \in late, CarryOut(reference)
    PROVE  \/ store' = store
           \/ Written(reference.key, reference.content, reference.id)
  BY Zenon DEF CarryOut, PutPermitted, Object, Written

JobKeys == {"status", "points", Marker}

LEMMA NextOutputNamed ==
    ASSUME TypeOK, Cardinality(job.listed) < Len(job.outputs)
    PROVE  NextOutput \in {"status", "points"}
  <1>1. Cardinality(job.listed) \in Nat
    BY FS_CardinalityType DEF TypeOK
  <1>2. \/ job.outputs = <<>> \/ job.outputs = <<"status">> \/ job.outputs = <<"status", "points">>
    BY DEF TypeOK, Captured
  <1> QED
    BY <1>1, <1>2 DEF NextOutput

LEMMA JobWrites ==
    ASSUME TypeOK, UploadOutput \/ UploadMarker \/ LateUpload
    PROVE  \/ store' = store
           \/ \E k \in JobKeys : \E content : Written(k, content, 0)
  <1>1. ASSUME NEW key, NEW content, NEW next, Upload(key, content, next)
        PROVE  store' = store \/ \E c : Written(key, c, 0)
    BY <1>1, Zenon DEF Upload, PutPermitted, Written
  <1>2. ASSUME UploadOutput
        PROVE  /\ Cardinality(job.listed) < Len(job.outputs)
               /\ store' = store \/ \E c : Written(NextOutput, c, 0)
    BY <1>1, <1>2, Zenon DEF UploadOutput
  <1>3. ASSUME UploadMarker PROVE store' = store \/ \E c : Written(Marker, c, 0)
    BY <1>1, <1>3, Zenon DEF UploadMarker
  <1>4. ASSUME LateUpload
        PROVE  \/ /\ Cardinality(job.listed) < Len(job.outputs)
                  /\ \E c : Written(NextOutput, c, 0)
               \/ \E c : Written(Marker, c, 0)
    BY <1>4, Zenon DEF LateUpload, PutPermitted, Written
  <1> QED
    BY <1>2, <1>3, <1>4, NextOutputNamed DEF JobKeys

LEMMA OthersKeepStore ==
    ASSUME [Next]_vars
    PROVE  \/ store' = store \/ UploadOutput \/ UploadMarker \/ LateUpload
           \/ \E p \in Publishers : Put(p)
           \/ \E reference \in late : CarryOut(reference)
  BY Zenon, NextIsEither
     DEF Others, Publisher, Begin, CheckClaim, Reference, Reserve, Verify, Send, ReadBack,
         WriteReceipt, Fail, Kill, AssembleDiagnostics, AssembleRawResult, WriteManifest,
         RemoveReceipt, StartJob, ObserveJob, Produce, ClaimExecution, vars

\* What is stored stays, so that whatever resolves goes on to resolve.
LEMMA StoreKept ==
    ASSUME TypeOK, DoneIsStored, AllGrounded, [Next]_vars
    PROVE  /\ DOMAIN store' = Keys
           /\ \A k \in Keys : store[k] # Absent => store'[k] = store[k]
           /\ \A r : r.key \in Keys /\ Resolves(r) => Resolves(r)'
           /\ store' = store \/ \E k \in Keys : /\ store[k] = Absent /\ store'[k] # Absent
                                                /\ \A l \in Keys \ {k} : store'[l] = store[l]
  <1>0. DOMAIN store = Keys
    BY DEF TypeOK
  <1>1. ASSUME NEW k \in Keys, NEW content, NEW id, Written(k, content, id)
        PROVE  /\ DOMAIN store' = Keys
               /\ \A l \in Keys : store[l] # Absent => store'[l] = store[l]
               /\ store' = store \/ \E l \in Keys : /\ store[l] = Absent /\ store'[l] # Absent
                                                    /\ \A m \in Keys \ {l} : store'[m] = store[m]
    <2>1. <<content, id>> # Absent
      BY DEF Absent
    <2> QED
      BY <1>0, <1>1, <2>1 DEF Written
  <1>2. \/ store' = store
        \/ \E k \in Keys : \E content, id : Written(k, content, id)
    <2>1. ASSUME NEW p \in Publishers, Put(p) PROVE Current(p).key \in Keys
      <3>1. Current(p) \in Carried(p)
        BY <2>1, CurrentCarried DEF Put
      <3> QED
        BY <3>1 DEF AllGrounded, Puttable
    <2>2. \A reference \in late : reference.key \in Keys
      BY DEF AllGrounded, Puttable
    <2>3. JobKeys \subseteq Keys
      BY DEF JobKeys, Keys
    <2> QED
      BY <2>1, <2>2, <2>3, OthersKeepStore, PutWrites, CarryOutWrites, JobWrites
  <1>3. /\ DOMAIN store' = Keys
        /\ \A l \in Keys : store[l] # Absent => store'[l] = store[l]
        /\ store' = store \/ \E l \in Keys : /\ store[l] = Absent /\ store'[l] # Absent
                                             /\ \A m \in Keys \ {l} : store'[m] = store[m]
    BY <1>0, <1>1, <1>2
  <1>4. ASSUME NEW r, r.key \in Keys, Resolves(r) PROVE Resolves(r)'
    <2>1. Object(r) # Absent
      BY DEF Object, Absent
    <2> QED
      BY <1>3, <1>4, <2>1 DEF Resolves, Object
  <1> QED
    BY <1>3, <1>4

-----------------------------------------------------------------------------
(* Receipts. *)

TypedReceipts ==
    /\ DOMAIN receipts = Paths
    /\ \A path \in Paths :
          /\ receipts[path].state \in {"absent", "reserved", "complete"}
          /\ receipts[path].state # "complete" => receipts[path].references = {}

OthersKeepReceipts(path) ==
    /\ DOMAIN receipts' = Paths
    /\ \A other \in Paths \ {path} : receipts'[other] = receipts[other]

\* Only the owner of a receipt writes it, and people remove one that has none.
LEMMA ReceiptSteps ==
    ASSUME TypeOK, [Next]_vars
    PROVE  \/ receipts' = receipts
           \/ \E path \in Paths : RemoveReceipt(path)
           \/ \E p \in Publishers : \/ Reserve(p) \/ WriteReceipt(p)
                                    \/ Fail(p) /\ Active(p)
  <1>1. ASSUME NEW p \in Publishers, Fail(p), ~Active(p) PROVE receipts' = receipts
    BY <1>1, Zenon DEF Fail, Active
  <1>2. \/ receipts' = receipts
        \/ \E path \in Paths : RemoveReceipt(path)
        \/ \E p \in Publishers : Reserve(p) \/ WriteReceipt(p) \/ Fail(p)
    BY Zenon, NextIsEither
       DEF Others, Publisher, Begin, CheckClaim, Reference, Verify, Send, Put, ReadBack, Kill,
           CarryOut, AssembleDiagnostics, AssembleRawResult, WriteManifest, StartJob,
           UploadOutput, UploadMarker, LateUpload, ObserveJob, Produce, ClaimExecution, vars
  <1> QED
    BY <1>1, <1>2

LEMMA NextOwnReceipt ==
    ASSUME TypeOK, DoneIsStored, OwnReceipt, [Next]_vars
    PROVE  TypedReceipts' /\ OwnReceipt'
  <1> DEFINE Own == \A p \in Publishers : Active(p) =>
                       /\ op[p].path \in Paths /\ receipts[op[p].path] = Reserved
                       /\ \A q \in Publishers \ {p} : Active(q) => op[q].path # op[p].path
  <1>0. TypedReceipts /\ Own
    BY DEF TypeOK, TypedReceipts, OwnReceipt, Active
  <1> SUFFICES TypedReceipts' /\ Own'
    BY DEF TypedReceipts, OwnReceipt
  <1>1. /\ NoReceipt.state = "absent" /\ NoReceipt.references = {}
        /\ Reserved.state = "reserved" /\ Reserved.references = {}
    BY DEF NoReceipt, Reserved
  <1>2. CASE receipts' = receipts /\ op' = op
    BY <1>0, <1>2 DEF TypedReceipts, Active
  <1>3. ASSUME NEW path \in Paths, RemoveReceipt(path) PROVE TypedReceipts' /\ Own'
    <2>1. /\ receipts' = [receipts EXCEPT ![path] = NoReceipt] /\ op' = op
          /\ \A p \in Publishers : op[p].path # path
      BY <1>3 DEF RemoveReceipt
    <2> QED
      BY <1>0, <1>1, <2>1 DEF TypedReceipts, Active
  <1>4. CASE Others
    <2>1. op' = op
      BY <1>4, OthersKeepPublishers
    <2>2. receipts' = receipts \/ \E path \in Paths : RemoveReceipt(path)
      BY <1>4, Zenon
         DEF Others, CarryOut, AssembleDiagnostics, AssembleRawResult, WriteManifest, StartJob,
             UploadOutput, UploadMarker, LateUpload, ObserveJob, Produce, ClaimExecution, vars
    <2> QED
      BY <1>2, <1>3, <2>1, <2>2
  <1>5. ASSUME NEW p \in Publishers, Publisher(p) PROVE TypedReceipts' /\ Own'
    <2> USE Fields
    <2>1. ASSUME receipts' = receipts, Changes(p, DOMAIN Idle), ~Active(p)'
          PROVE  TypedReceipts' /\ Own'
      BY <1>0, <2>1 DEF TypedReceipts, Active, Changes
    <2>2. ASSUME receipts' = receipts, Changes(p, DOMAIN Idle), Active(p), op'[p].path = op[p].path
          PROVE  TypedReceipts' /\ Own'
      BY <1>0, <2>2 DEF TypedReceipts, Active, Changes
    <2>3. CASE \/ \E kind \in Kinds \ {"k6"}, path \in Paths : Begin(p, kind, path)
               \/ CheckClaim(p) \/ Reference(p)
      <3>1. receipts' = receipts
        BY <2>3, Zenon DEF Begin, CheckClaim, Reference
      <3>2. Changes(p, DOMAIN Idle)
        BY <2>3, BeginChanges, PublisherChanges DEF Changes
      <3>3. op'[p].phase = "referencing"
        <4>1. CASE \E kind \in Kinds \ {"k6"}, path \in Paths : Begin(p, kind, path)
          BY <4>1, BeginChanges
        <4>2. ASSUME CheckClaim(p) \/ Reference(p) PROVE op[p].phase = "referencing"
          BY <4>2, Zenon DEF CheckClaim, Reference
        <4> QED
          BY <2>3, <4>1, <4>2, PublisherChanges DEF Changes
      <3> QED
        BY <2>1, <3>1, <3>2, <3>3 DEF Active
    <2>4. CASE Reserve(p)
      <3>1. /\ op[p].phase = "referencing" /\ receipts[op[p].path].state = "absent"
            /\ receipts' = [receipts EXCEPT ![op[p].path] = Reserved]
        BY <2>4, Zenon DEF Reserve, Reservable
      <3>2. op[p].path \in Paths
        BY <3>1 DEF TypeOK
      <3>3. Changes(p, {"phase"})
        BY <2>4, PublisherChanges
      <3>4. \A q \in Publishers : Active(q) => op[q].path # op[p].path
        BY <1>0, <1>1, <3>1
      <3>5. op'[p].path = op[p].path /\ \A q \in Publishers \ {p} : op'[q] = op[q]
        BY <3>3 DEF Changes
      <3> QED
        BY <1>0, <1>1, <3>1, <3>2, <3>4, <3>5 DEF TypedReceipts, Active
    <2>5. CASE Verify(p) \/ Send(p) \/ Put(p) \/ ReadBack(p)
      <3>1. receipts' = receipts /\ Active(p)
        BY <2>5 DEF Verify, Send, Put, ReadBack, Active
      <3>2. Changes(p, {"phase"}) \/ Changes(p, {"phase", "sent"}) \/ Changes(p, {"phase", "done"})
        BY <2>5, PublisherChanges
      <3>3. Changes(p, DOMAIN Idle) /\ op'[p].path = op[p].path
        BY <3>2 DEF Changes
      <3> QED
        BY <2>2, <3>1, <3>3
    <2>6. CASE WriteReceipt(p) \/ Fail(p) \/ Kill(p)
      <3>1. Changes(p, DOMAIN Idle) /\ op'[p] = Idle
        BY <2>6, PublisherChanges
      <3>2. ~Active(p)'
        BY <3>1 DEF Active
      <3>3. CASE receipts' = receipts
        BY <2>1, <3>1, <3>2, <3>3
      <3>4. ASSUME NEW receipt, Active(p), receipts' = [receipts EXCEPT ![op[p].path] = receipt],
                   receipt.state = "complete" \/ receipt = NoReceipt
            PROVE  TypedReceipts' /\ Own'
        <4>1. op[p].path \in Paths /\ \A q \in Publishers \ {p} : Active(q) => op[q].path # op[p].path
          BY <1>0, <3>4
        <4> QED
          BY <1>0, <1>1, <3>1, <3>2, <3>4, <4>1 DEF TypedReceipts, Active, Changes
      <3>5. CASE WriteReceipt(p)
        <4> DEFINE receipt == [state |-> "complete",
                               references |-> {op[p].sources[i] : i \in 1..Len(op[p].sources)}]
        <4>1. receipts' = [receipts EXCEPT ![op[p].path] = receipt] /\ Active(p)
          BY <3>5, Zenon DEF WriteReceipt, Active
        <4>2. receipt.state = "complete"
          OBVIOUS
        <4> HIDE DEF receipt
        <4> QED
          BY <3>4, <4>1, <4>2
      <3>6. CASE Fail(p)
        <4>1. \/ receipts' = receipts
              \/ Active(p) /\ receipts' = [receipts EXCEPT ![op[p].path] = NoReceipt]
          BY <3>6, Zenon DEF Fail, Active
        <4> QED
          BY <3>3, <3>4, <4>1
      <3>7. CASE Kill(p)
        BY <3>3, <3>7, Zenon DEF Kill
      <3> QED
        BY <2>6, <3>5, <3>6, <3>7
    <2> QED
      BY <1>5, <2>3, <2>4, <2>5, <2>6 DEF Publisher
  <1> QED
    BY <1>4, <1>5, NextIsEither

LEMMA NextTyped ==
    ASSUME TypeOK, OwnReceipt, DoneIsStored, AllGrounded, [Next]_vars
    PROVE  TypeOK'
  <1>1. TypedFiles' /\ TypedJob' /\ TypedReceipts'
    BY FilesTyped, JobTyped, NextOwnReceipt
  <1>2. DOMAIN op' = Publishers /\ \A p \in Publishers : TypedPublisher(p)'
    BY PublisherTyped
  <1>3. DOMAIN store' = Keys
    BY StoreKept
  <1>4. drawn' \in Nat
    <2>1. drawn' = drawn \/ drawn' = drawn + 1
      <3>1. ASSUME NEW p \in Publishers, Reference(p)
            PROVE  drawn' = drawn \/ drawn' = drawn + 1
        BY <3>1, Zenon DEF Reference
      <3> QED
        BY <3>1, Zenon
           DEF Next, Publisher, Begin, CheckClaim, Reserve, Verify, Send, Put, ReadBack,
               WriteReceipt, Fail, Kill, CarryOut, AssembleDiagnostics, AssembleRawResult,
               WriteManifest, RemoveReceipt, StartJob, UploadOutput, UploadMarker, LateUpload, ObserveJob,
               Produce, ClaimExecution, vars
    <2> QED
      BY <2>1 DEF TypeOK
  <1>5. runs' \in Nat
    <2>1. runs' = runs \/ runs' = runs + 1
      BY Zenon
         DEF Next, Publisher, Begin, CheckClaim, Reference, Reserve, Verify, Send, Put, ReadBack,
             WriteReceipt, Fail, Kill, CarryOut, AssembleDiagnostics, AssembleRawResult,
             WriteManifest, RemoveReceipt, StartJob, UploadOutput, UploadMarker, LateUpload, ObserveJob,
             Produce, ClaimExecution, vars
    <2> QED
      BY <2>1 DEF TypeOK
  <1> QED
    BY <1>1, <1>2, <1>3, <1>4, <1>5
       DEF TypeOK, TypedFiles, TypedJob, TypedReceipts, TypedPublisher

-----------------------------------------------------------------------------
(* What is counted as done is stored. *)

LEMMA NextDoneIsStored ==
    ASSUME TypeOK, DoneIsStored, AllGrounded, [Next]_vars
    PROVE  DoneIsStored'
  <1> USE Fields
  <1> DEFINE Done(p) ==
               /\ ~Active(p) => op[p].done = 0
               /\ op[p].phase \in {"putting", "checking"} => op[p].done < Len(op[p].sources)
               /\ op[p].phase = "putting" => op[p].sent = Current(p).content
               /\ \A i \in 1..op[p].done : Resolves(op[p].sources[i])
  <1>0. \A p \in Publishers :
           /\ Done(p) /\ op[p].done \in Nat /\ Len(op[p].sources) \in Nat
           /\ op[p].done <= Len(op[p].sources)
    BY LenProperties DEF TypeOK, DoneIsStored
  <1> SUFFICES \A p \in Publishers : Done(p)'
    BY DEF DoneIsStored
  <1>1. ASSUME NEW p \in Publishers, NEW i \in 1..op[p].done
        PROVE  store'[op[p].sources[i].key] = Object(op[p].sources[i])
    <2> DEFINE r == op[p].sources[i]
    <2>1. r \in Carried(p)
      BY <1>0, <1>1 DEF Carried
    <2>2. r.key \in Keys /\ Resolves(r)
      BY <1>0, <2>1 DEF AllGrounded, Puttable
    <2> HIDE DEF r
    <2>3. \A k \in Keys : store[k] # Absent => store'[k] = store[k]
      BY StoreKept
    <2>4. store[r.key] = Object(r) /\ Object(r) # Absent
      BY <2>2 DEF Resolves, Object, Absent
    <2>5. store'[r.key] = Object(r)
      BY <2>2, <2>3, <2>4
    <2> QED
      BY <2>5 DEF r
  <1>2. ASSUME NEW p \in Publishers, op'[p] = op[p] PROVE Done(p)'
    BY <1>0, <1>1, <1>2 DEF Active, Current, Resolves
  <1>3. CASE Others
    BY <1>2, <1>3, OthersKeepPublishers
  <1>4. ASSUME NEW p \in Publishers, Publisher(p) PROVE \A q \in Publishers : Done(q)'
    <2>1. ASSUME NEW fields, Changes(p, fields), Done(p)' PROVE \A q \in Publishers : Done(q)'
      BY <1>2, <2>1 DEF Changes
    <2>2. ASSUME NEW fields \in SUBSET {"phase", "checked", "sent"}, Changes(p, fields),
                 ~Active(p)' => ~Active(p),
                 op'[p].phase \in {"putting", "checking"} => op[p].done < Len(op[p].sources),
                 op'[p].phase = "putting" => op'[p].sent = Current(p).content
          PROVE  \A q \in Publishers : Done(q)'
      <3>1. op'[p].sources = op[p].sources /\ op'[p].done = op[p].done
        BY <2>2 DEF Changes
      <3> QED
        BY <1>0, <1>1, <2>1, <2>2, <3>1 DEF Current, Resolves
    <2>3. ASSUME NEW kind \in Kinds \ {"k6"}, NEW path \in Paths, Begin(p, kind, path)
          PROVE  \A q \in Publishers : Done(q)'
      BY <2>1, <2>3, BeginChanges
    <2>4. CASE CheckClaim(p)
      <3>1. op[p].phase = "referencing" /\ Changes(p, {"checked"})
        BY <2>4, PublisherChanges, Zenon DEF CheckClaim
      <3>2. op'[p].phase = op[p].phase
        BY <3>1 DEF Changes
      <3> QED
        BY <2>2, <3>1, <3>2 DEF Active
    <2>5. CASE Reference(p)
      <3>1. op[p].phase = "referencing" /\ Changes(p, {"sources", "checked"})
        BY <2>5, PublisherChanges, Zenon DEF Reference
      <3>2. op'[p].phase = "referencing" /\ op'[p].done = op[p].done
        BY <3>1 DEF Changes
      <3>3. op[p].done = 0
        BY <1>0, <3>1 DEF Active
      <3> QED
        BY <2>1, <3>1, <3>2, <3>3 DEF Active
    <2>6. CASE Reserve(p) \/ Verify(p)
      <3>1. /\ Changes(p, {"phase"}) /\ op'[p].phase \in {"verifying", "sending"}
        BY <2>6, PublisherChanges
      <3> QED
        BY <2>2, <3>1 DEF Active
    <2>7. CASE Send(p)
      <3>1. /\ Changes(p, {"phase", "sent"}) /\ op'[p].phase = "putting"
            /\ op'[p].sent = Current(p).content /\ op[p].done < Len(op[p].sources)
        BY <2>7, PublisherChanges DEF Send
      <3> QED
        BY <2>2, <3>1 DEF Active
    <2>8. CASE Put(p)
      <3>1. /\ Changes(p, {"phase"}) /\ op'[p].phase = "checking"
            /\ op[p].done < Len(op[p].sources)
        BY <1>0, <2>8, PublisherChanges DEF Put
      <3> QED
        BY <2>2, <3>1 DEF Active
    <2>9. CASE ReadBack(p)
      <3>1. /\ Changes(p, {"phase", "done"})
            /\ op'[p].phase = "sending" /\ op'[p].done = op[p].done + 1
        BY <2>9, PublisherChanges
      <3>2. op'[p].sources = op[p].sources
        BY <3>1 DEF Changes
      <3>3. Resolves(Current(p)) /\ store' = store
        BY <2>9 DEF ReadBack, ReadBackMatches, Resolves
      <3>4. \A i \in 1..op[p].done + 1 : i \in 1..op[p].done \/ i = op[p].done + 1
        BY <1>0
      <3>5. \A i \in 1..op'[p].done : store'[op[p].sources[i].key] = Object(op[p].sources[i])
        BY <1>1, <3>1, <3>3, <3>4 DEF Current, Resolves
      <3> QED
        BY <2>1, <3>1, <3>2, <3>5 DEF Active, Resolves
    <2>10. CASE WriteReceipt(p) \/ Fail(p) \/ Kill(p)
      <3>1. Changes(p, DOMAIN Idle) /\ op'[p] = Idle
        BY <2>10, PublisherChanges
      <3> QED
        BY <2>1, <3>1
    <2> QED
      BY <1>4, <2>3, <2>4, <2>5, <2>6, <2>7, <2>8, <2>9, <2>10 DEF Publisher
  <1> QED
    BY <1>3, <1>4, NextIsEither

-----------------------------------------------------------------------------
(* What any bytes refer to is stored. *)

LEMMA DeclaredReferences ==
    /\ \A v : Declared(Produced(v)) = {}
    /\ Declared(Damaged) = {}
    /\ \A references : Declared(Manifest(references)) = references
  BY DEF Declared, Produced, Damaged, Manifest

\* What is grounded stays so.
LEMMA GroundedKept ==
    ASSUME TypeOK, DoneIsStored, AllGrounded, [Next]_vars
    PROVE  /\ \A content : Grounded(content) => Grounded(content)'
           /\ \A r : Puttable(r) => Puttable(r)'
  <1>1. \A r : r.key \in Keys /\ Resolves(r) => Resolves(r)'
    BY StoreKept
  <1>2. \A content : Grounded(content) => Grounded(content)'
    BY <1>1 DEF Grounded
  <1>3. reviewed \subseteq reviewed'
    BY Zenon
       DEF Next, Publisher, Begin, CheckClaim, Reference, Reserve, Verify, Send, Put, ReadBack,
           WriteReceipt, Fail, Kill, CarryOut, AssembleDiagnostics, AssembleRawResult,
           WriteManifest, RemoveReceipt, StartJob, UploadOutput, UploadMarker, LateUpload, ObserveJob,
           Produce, ClaimExecution, vars
  <1> QED
    BY <1>2, <1>3 DEF Puttable

LEMMA NextFilesGrounded ==
    ASSUME TypeOK, DoneIsStored, AllGrounded, [Next]_vars
    PROVE  \A n \in DOMAIN files' : \A c : c = files'[n] => Grounded(c)'
  <1>1. \A n \in DOMAIN files : Grounded(files[n])
    BY DEF AllGrounded
  <1>2. ASSUME NEW content, Grounded(content) PROVE Grounded(content)'
    BY <1>2, GroundedKept
  <1>3. CASE files' = files
    BY <1>1, <1>2, <1>3
  <1>4. ASSUME NEW name, NEW content, files' = [files EXCEPT ![name] = content], Grounded(content)
        PROVE  \A n \in DOMAIN files' : \A c : c = files'[n] => Grounded(c)'
    BY <1>1, <1>2, <1>4
  <1>5. ASSUME NEW name, NEW references, WriteManifest(name, references),
               \A r \in references : r.key \in Keys /\ Resolves(r)
        PROVE  \A n \in DOMAIN files' : \A c : c = files'[n] => Grounded(c)'
    <2>1. Grounded(Manifest(references))
      BY <1>5, DeclaredReferences DEF Grounded
    <2> QED
      BY <1>4, <1>5, <2>1 DEF WriteManifest
  <1>6. \A r \in References : r.key \in Keys /\ Resolves(r)
    BY DEF AllGrounded
  <1>7. \A path \in Paths : receipts[path].references \subseteq References
    BY DEF References
  <1>8. ASSUME NEW path \in Paths, AssembleDiagnostics(path)
        PROVE  \A n \in DOMAIN files' : \A c : c = files'[n] => Grounded(c)'
    <2>1. Captures(path) \subseteq References
      BY <1>7 DEF Captures
    <2> QED
      BY <1>5, <1>6, <1>8, <2>1 DEF AssembleDiagnostics
  <1>9. ASSUME NEW path \in Paths, NEW uploaded \in Paths, AssembleRawResult(path, uploaded)
        PROVE  \A n \in DOMAIN files' : \A c : c = files'[n] => Grounded(c)'
    BY <1>5, <1>6, <1>7, <1>9 DEF AssembleRawResult
  <1>10. ASSUME NEW n \in Rewritten, Produce(n)
         PROVE  \A m \in DOMAIN files' : \A c : c = files'[m] => Grounded(c)'
    <2>1. \E v : files' = [files EXCEPT ![n] = Produced(v)]
      BY <1>10, Zenon DEF Produce
    <2>2. \A v : Grounded(Produced(v))
      BY DeclaredReferences DEF Grounded
    <2> QED
      BY <1>4, <2>1, <2>2
  <1> QED
    BY <1>3, <1>8, <1>9, <1>10, Zenon
       DEF Next, Publisher, Begin, CheckClaim, Reference, Reserve, Verify, Send, Put, ReadBack,
           WriteReceipt, Fail, Kill, CarryOut, RemoveReceipt, StartJob, UploadOutput,
           UploadMarker, LateUpload, ObserveJob, ClaimExecution, vars

\* A reference made in this step: of the file as it is.
MadeNow(r) ==
    /\ IsReference(r) /\ r.content = files[r.key]
    /\ r.key = "policy" => r.content \in reviewed

LEMMA CarriedSteps ==
    ASSUME TypeOK, [Next]_vars
    PROVE  \A p \in Publishers : \A r \in Carried(p)' : r \in Carried(p) \/ MadeNow(r)
  <1> USE Fields
  <1>1. ASSUME NEW p \in Publishers, Carried(p)' \subseteq Carried(p)
        PROVE  \A r \in Carried(p)' : r \in Carried(p) \/ MadeNow(r)
    BY <1>1
  <1>2. ASSUME NEW p \in Publishers, op'[p].sources = op[p].sources
        PROVE  \A r \in Carried(p)' : r \in Carried(p) \/ MadeNow(r)
    BY <1>1, <1>2 DEF Carried
  <1>3. CASE Others
    BY <1>2, <1>3, OthersKeepPublishers
  <1>4. ASSUME NEW p \in Publishers, Publisher(p)
        PROVE  \A q \in Publishers : \A r \in Carried(q)' : r \in Carried(q) \/ MadeNow(r)
    <2>1. ASSUME NEW fields, Changes(p, fields), \A r \in Carried(p)' : r \in Carried(p) \/ MadeNow(r)
          PROVE  \A q \in Publishers : \A r \in Carried(q)' : r \in Carried(q) \/ MadeNow(r)
      BY <1>2, <2>1 DEF Changes
    <2>2. ASSUME NEW fields, Changes(p, fields), op'[p].sources = <<>>
          PROVE  \A q \in Publishers : \A r \in Carried(q)' : r \in Carried(q) \/ MadeNow(r)
      <3>1. Carried(p)' = {}
        <4>1. Len(op'[p].sources) = 0
          BY <2>2
        <4>2. 1..0 = {}
          OBVIOUS
        <4> QED
          BY <4>1, <4>2 DEF Carried
      <3> QED
        BY <2>1, <2>2, <3>1
    <2>3. CASE Reference(p)
      <3>1. PICK reference :
               /\ reference = [key |-> reference.key, id |-> reference.id,
                                content |-> reference.content]
               /\ reference.key = NextInput(p) /\ reference.content = files[NextInput(p)]
               /\ op'[p].sources = Append(op[p].sources, reference)
        BY <2>3, PublisherChanges
      <3>2. /\ op[p].phase = "referencing" /\ ~AllReferenced(p)
            /\ op[p].kind = "policy" => files[NextInput(p)] \in reviewed
        BY <2>3, Zenon DEF Reference
      <3>3. op[p].sources \in Seq({op[p].sources[i] : i \in 1..Len(op[p].sources)})
        BY DEF TypeOK, Carried
      <3>4. Carried(p)' = Carried(p) \cup {reference} /\ Len(op[p].sources) \in Nat
        <4> DEFINE s == op[p].sources
                   t == op'[p].sources
        <4> HIDE DEF s, t
        <4>1. s \in Seq({s[i] : i \in 1..Len(s)}) /\ t = Append(s, reference)
          BY <3>1, <3>3 DEF s, t
        <4>2. /\ Len(s) \in Nat
              /\ {t[i] : i \in 1..Len(t)} = {s[i] : i \in 1..Len(s)} \cup {reference}
          BY <4>1, SourceAppended
        <4> QED
          BY <4>2 DEF s, t, Carried
      <3>5. op[p].kind \in DOMAIN Inputs /\ Len(op[p].sources) <= Len(Names(p))
        BY <3>2 DEF TypeOK
      <3>6. Len(op[p].sources) + 1 \in 1..Len(Names(p))
        <4>1. Len(Names(p)) \in Nat
          BY <3>5, KindsHaveInputs DEF Names
        <4> QED
          BY <3>2, <3>4, <3>5, <4>1 DEF AllReferenced
      <3>7. /\ NextInput(p) \in Produceable \cup Manifests
            /\ NextInput(p) = "policy" <=> op[p].kind = "policy"
        <4>1. Names(p) \in Seq(Produceable \cup Manifests)
          BY <3>5, KindsHaveInputs DEF Names
        <4> DEFINE i == Len(op[p].sources) + 1
                   names == Names(p)
        <4>2. /\ i \in 1..Len(names) /\ names \in Seq(Produceable \cup Manifests)
              /\ names = Inputs[op[p].kind] /\ NextInput(p) = names[i]
          BY <3>6, <4>1 DEF NextInput, Names
        <4> HIDE DEF i, names
        <4>3. names[i] \in Produceable \cup Manifests
          BY <4>2, ElementOfSeq
        <4>4. names[i] = "policy" <=> op[p].kind = "policy"
          BY <3>5, <4>2, KindsHaveInputs
        <4> QED
          BY <4>2, <4>3, <4>4
      <3>8. MadeNow(reference)
        BY <3>1, <3>2, <3>7 DEF MadeNow, IsReference
      <3>9. \A r \in Carried(p)' : r \in Carried(p) \/ MadeNow(r)
        BY <3>4, <3>8
      <3> QED
        BY <2>1, <2>3, <3>9, PublisherChanges
    <2>4. ASSUME NEW kind \in Kinds \ {"k6"}, NEW path \in Paths, Begin(p, kind, path)
          PROVE  \A q \in Publishers : \A r \in Carried(q)' : r \in Carried(q) \/ MadeNow(r)
      BY <2>2, <2>4, BeginChanges
    <2>5. CASE WriteReceipt(p) \/ Fail(p) \/ Kill(p)
      BY <2>2, <2>5, PublisherChanges
    <2>6. CASE CheckClaim(p) \/ Reserve(p) \/ Verify(p) \/ Send(p) \/ Put(p) \/ ReadBack(p)
      <3>1. \E fields \in SUBSET {"phase", "checked", "sent", "done"} : Changes(p, fields)
        BY <2>6, PublisherChanges
      <3>2. PICK fields : Changes(p, fields) /\ op'[p].sources = op[p].sources
        BY <3>1 DEF Changes
      <3>3. \A r \in Carried(p)' : r \in Carried(p) \/ MadeNow(r)
        BY <1>2, <3>2
      <3> QED
        BY <2>1, <3>2, <3>3
    <2> QED
      BY <1>4, <2>3, <2>4, <2>5, <2>6 DEF Publisher
  <1> QED
    BY <1>3, <1>4, NextIsEither

LEMMA NextCarriedPuttable ==
    ASSUME TypeOK, DoneIsStored, AllGrounded, [Next]_vars
    PROVE  \A p \in Publishers : \A r \in Carried(p)' : Puttable(r)'
  <1>1. ASSUME NEW r, MadeNow(r) PROVE Puttable(r)
    <2>1. DOMAIN r = {"key", "id", "content"} /\ r.key \in Produceable \cup Manifests
      BY <1>1 DEF MadeNow, IsReference
    <2> QED
      BY <1>1, <2>1 DEF MadeNow, Puttable, AllGrounded, TypeOK, Keys
  <1>2. \A p \in Publishers : \A r \in Carried(p) : Puttable(r)
    BY DEF AllGrounded
  <1> QED
    BY <1>1, <1>2, CarriedSteps, GroundedKept

LEMMA NextLatePuttable ==
    ASSUME TypeOK, DoneIsStored, AllGrounded, [Next]_vars
    PROVE  \A r \in late' : Puttable(r)'
  <1>1. ASSUME NEW p \in Publishers, op[p].phase = "putting"
        PROVE  Puttable([Current(p) EXCEPT !.content = op[p].sent])
    <2> DEFINE r == Current(p)
    <2>1. Puttable(r) /\ op[p].sent = r.content
      BY <1>1, CurrentCarried DEF AllGrounded, DoneIsStored
    <2> HIDE DEF r
    <2> DEFINE left == [r EXCEPT !.content = op[p].sent]
    <2>2. /\ DOMAIN left = DOMAIN r /\ left.key = r.key /\ left.content = r.content
      BY <2>1 DEF Puttable
    <2> HIDE DEF left
    <2>3. Puttable(left)
      BY <2>1, <2>2 DEF Puttable
    <2> QED
      BY <2>3 DEF left, r
  <1>2. ASSUME NEW p \in Publishers, Leave(p) PROVE \A r \in late' : Puttable(r)
    BY <1>1, <1>2, Zenon DEF Leave, AllGrounded
  <1>3. \/ late' \subseteq late
        \/ \E p \in Publishers : Leave(p)
    BY Zenon
       DEF Next, Publisher, Begin, CheckClaim, Reference, Reserve, Verify, Send, Put, ReadBack,
           WriteReceipt, Fail, Kill, CarryOut, AssembleDiagnostics, AssembleRawResult,
           WriteManifest, RemoveReceipt, StartJob, UploadOutput, UploadMarker, LateUpload, ObserveJob,
           Produce, ClaimExecution, vars
  <1>4. \A r \in late' : Puttable(r)
    BY <1>2, <1>3 DEF AllGrounded
  <1> QED
    BY <1>4, GroundedKept

\* The references that may yet be put.
Underway == late \cup UNION {Carried(p) : p \in Publishers}

\* Every object stored anew is one a reference grounds, is damaged, or is the Job's.
LEMMA StoredFromReference ==
    ASSUME TypeOK, DoneIsStored, AllGrounded, [Next]_vars, NEW k \in Keys \ JobKeys
    PROVE  \/ store'[k] = store[k]
           \/ store'[k] # Absent /\ store'[k][1] = Damaged
           \/ \E reference \in Underway : /\ Puttable(reference) /\ reference.key = k
                                         /\ store'[k] # Absent /\ store'[k][1] = reference.content
  <1>0. DOMAIN store = Keys
    BY DEF TypeOK
  <1>1. ASSUME NEW key, NEW content, NEW id, Written(key, content, id), key # k
        PROVE  store'[k] = store[k]
    BY <1>0, <1>1 DEF Written
  <1>2. ASSUME NEW content, NEW id, Written(k, content, id)
        PROVE  store'[k] # Absent /\ store'[k][1] = content
    <2>1. store'[k] = <<content, id>>
      BY <1>0, <1>2 DEF Written
    <2> QED
      BY <2>1 DEF Absent
  <1>3. ASSUME NEW p \in Publishers, Put(p)
        PROVE  \/ store'[k] = store[k]
               \/ store'[k] # Absent /\ store'[k][1] = Damaged
               \/ \E reference \in Underway : /\ Puttable(reference) /\ reference.key = k
                                             /\ store'[k] # Absent /\ store'[k][1] = reference.content
    <2> DEFINE r == Current(p)
    <2>1. op[p].phase = "putting"
      BY <1>3 DEF Put
    <2>2. r \in Underway /\ Puttable(r) /\ op[p].sent = r.content
      BY <2>1, CurrentCarried DEF AllGrounded, DoneIsStored, Underway
    <2>3. PICK content \in {r.content, Damaged} : Written(r.key, content, r.id)
      BY <1>3, <2>2, PutWrites
    <2> HIDE DEF r
    <2> QED
      BY <1>1, <1>2, <2>2, <2>3
  <1>4. ASSUME NEW r \in late, CarryOut(r)
        PROVE  \/ store'[k] = store[k]
               \/ \E reference \in Underway : /\ Puttable(reference) /\ reference.key = k
                                             /\ store'[k] # Absent /\ store'[k][1] = reference.content
    <2>1. r \in Underway /\ Puttable(r)
      BY DEF AllGrounded, Underway
    <2> QED
      BY <1>1, <1>2, <1>4, <2>1, CarryOutWrites
  <1>5. ASSUME UploadOutput \/ UploadMarker \/ LateUpload PROVE store'[k] = store[k]
    BY <1>1, <1>5, JobWrites
  <1> QED
    BY <1>3, <1>4, <1>5, OthersKeepStore

LEMMA NextStoredGrounded ==
    ASSUME TypeOK, DoneIsStored, AllGrounded, [Next]_vars
    PROVE  \A k \in Manifests : \A r \in Stored(k)' : r.key \in Keys /\ Resolves(r)'
  <1> SUFFICES ASSUME NEW k \in Manifests, NEW r \in Stored(k)'
               PROVE  r.key \in Keys /\ Resolves(r)'
    OBVIOUS
  <1>0. k \in Keys \ JobKeys
    BY DEF Manifests, Keys, JobKeys, Marker
  <1>1. CASE store'[k] = store[k]
    <2>1. r \in Stored(k)
      BY <1>1 DEF Stored
    <2> QED
      BY <2>1, StoreKept DEF AllGrounded
  <1>2. CASE store'[k] # Absent /\ store'[k][1] = Damaged
    BY <1>2, DeclaredReferences DEF Stored
  <1>3. ASSUME NEW reference, Puttable(reference), store'[k] # Absent,
               store'[k][1] = reference.content
        PROVE  r.key \in Keys /\ Resolves(r)'
    <2>1. r \in Declared(reference.content)
      BY <1>3 DEF Stored
    <2> QED
      BY <1>3, <2>1, StoreKept DEF Puttable, Grounded
  <1> QED
    BY <1>0, <1>1, <1>2, <1>3, StoredFromReference

LEMMA NextReceiptsResolve ==
    ASSUME TypeOK, DoneIsStored, AllGrounded, [Next]_vars
    PROVE  \A r \in References' : r.key \in Keys /\ Resolves(r)'
  <1>0. DOMAIN receipts = Paths
    BY DEF TypeOK
  <1>1. \A path \in Paths : receipts[path].references \subseteq References
    BY DEF References
  <1>2. \A r \in References : r.key \in Keys /\ Resolves(r)'
    BY StoreKept DEF AllGrounded
  <1>3. ASSUME NEW path, NEW receipt, receipts' = [receipts EXCEPT ![path] = receipt],
               \A r \in receipt.references : r.key \in Keys /\ Resolves(r)'
        PROVE  \A r \in References' : r.key \in Keys /\ Resolves(r)'
    <2>1. \A other \in Paths : receipts'[other] = receipt \/ receipts'[other] = receipts[other]
      BY <1>0, <1>3
    <2>2. \A r \in References' : r \in References \/ r \in receipt.references
      BY <1>1, <2>1 DEF References
    <2> QED
      BY <1>2, <1>3, <2>2
  <1>4. NoReceipt.references = {} /\ Reserved.references = {}
    BY DEF NoReceipt, Reserved
  <1>5. ASSUME NEW p \in Publishers, WriteReceipt(p)
        PROVE  \A r \in References' : r.key \in Keys /\ Resolves(r)'
    <2> DEFINE receipt == [state |-> "complete",
                           references |-> {op[p].sources[i] : i \in 1..Len(op[p].sources)}]
    <2>1. /\ receipts' = [receipts EXCEPT ![op[p].path] = receipt]
          /\ op[p].done = Len(op[p].sources)
      BY <1>5, Zenon DEF WriteReceipt
    <2>2. receipt.references = Carried(p)
      BY DEF Carried
    <2>3. \A r \in Carried(p) : Resolves(r)
      BY <2>1 DEF DoneIsStored, Carried
    <2>4. \A r \in Carried(p) : r.key \in Keys
      BY DEF AllGrounded, Puttable
    <2>5. \A r \in receipt.references : r.key \in Keys /\ Resolves(r)'
      BY <2>2, <2>3, <2>4, StoreKept
    <2> HIDE DEF receipt
    <2> QED
      BY <1>3, <2>1, <2>5
  <1>6. CASE receipts' = receipts
    BY <1>2, <1>6 DEF References
  <1>7. ASSUME NEW path, receipts' = [receipts EXCEPT ![path] = NoReceipt]
                         \/ receipts' = [receipts EXCEPT ![path] = Reserved]
        PROVE  \A r \in References' : r.key \in Keys /\ Resolves(r)'
    BY <1>3, <1>4, <1>7
  <1>8. ASSUME NEW p \in Publishers, Reserve(p) \/ (Fail(p) /\ Active(p))
        PROVE  \E path : \/ receipts' = [receipts EXCEPT ![path] = NoReceipt]
                         \/ receipts' = [receipts EXCEPT ![path] = Reserved]
    BY <1>8, Zenon DEF Reserve, Fail, Active
  <1>9. ASSUME NEW path \in Paths, RemoveReceipt(path)
        PROVE  receipts' = [receipts EXCEPT ![path] = NoReceipt]
    BY <1>9, Zenon DEF RemoveReceipt
  <1> QED
    BY <1>5, <1>6, <1>7, <1>8, <1>9, ReceiptSteps

LEMMA NextAllGrounded ==
    ASSUME TypeOK, DoneIsStored, AllGrounded, [Next]_vars
    PROVE  AllGrounded'
  <1>1. \A n \in DOMAIN files' : Grounded(files[n])'
    BY NextFilesGrounded DEF Grounded, Resolves
  <1>2. \A r \in late' \cup UNION {Carried(p)' : p \in Publishers} : Puttable(r)'
    BY NextLatePuttable, NextCarriedPuttable
  <1> QED
    BY <1>1, <1>2, NextStoredGrounded, NextReceiptsResolve DEF AllGrounded

LEMMA NextPolicyAsReviewed ==
    ASSUME TypeOK, DoneIsStored, AllGrounded, PolicyAsReviewed, [Next]_vars
    PROVE  PolicyAsReviewed'
  <1>1. reviewed \subseteq reviewed'
    BY Zenon
       DEF Next, Publisher, Begin, CheckClaim, Reference, Reserve, Verify, Send, Put, ReadBack,
           WriteReceipt, Fail, Kill, CarryOut, AssembleDiagnostics, AssembleRawResult,
           WriteManifest, RemoveReceipt, StartJob, UploadOutput, UploadMarker, LateUpload, ObserveJob,
           Produce, ClaimExecution, vars
  <1>2. "policy" \in Keys \ JobKeys
    BY DEF Keys, JobKeys, Produceable, Marker
  <1> QED
    BY <1>1, <1>2, StoredFromReference DEF PolicyAsReviewed, Puttable

-----------------------------------------------------------------------------
(* Manifests. *)

LEMMA ManifestWrittenOnce ==
    ASSUME TypeOK, [Next]_vars
    PROVE  \A k \in Manifests : files[k] # Absent => files'[k] = files[k]
  <1>0. DOMAIN files = Produceable \cup Manifests
    BY DEF TypeOK
  <1>1. ASSUME NEW name, NEW references, WriteManifest(name, references)
        PROVE  \A k \in Manifests : files[k] # Absent => files'[k] = files[k]
    BY <1>0, <1>1 DEF WriteManifest
  <1>2. ASSUME NEW n \in Rewritten, Produce(n)
        PROVE  \A k \in Manifests : files[k] # Absent => files'[k] = files[k]
    <2>1. /\ files' = [files EXCEPT ![n] = Produced(files[n][1] + 1)]
          /\ n \notin Manifests
      BY <1>2, KindsAssumption DEF Produce, Produceable, Manifests
    <2> QED
      BY <1>0, <2>1
  <1>3. \/ files' = files
        \/ \E n \in Rewritten : Produce(n)
        \/ \E name, references : WriteManifest(name, references)
    BY Zenon
       DEF Next, Publisher, Begin, CheckClaim, Reference, Reserve, Verify, Send, Put, ReadBack,
           WriteReceipt, Fail, Kill, CarryOut, AssembleDiagnostics, AssembleRawResult,
           RemoveReceipt, StartJob, UploadOutput, UploadMarker, LateUpload, ObserveJob, ClaimExecution, vars
  <1> QED
    BY <1>1, <1>2, <1>3

\* A receipt that names references is never written again.
LEMMA ReceiptsKept ==
    ASSUME TypeOK, OwnReceipt, [Next]_vars
    PROVE  \A path \in Paths :
               receipts[path].references # {} => receipts'[path] = receipts[path]
  <1>0. DOMAIN receipts = Paths
    BY DEF TypeOK
  <1>1. ASSUME NEW path, NEW receipt, receipts' = [receipts EXCEPT ![path] = receipt],
               path \in Paths => receipts[path].references = {}
        PROVE  \A other \in Paths :
                   receipts[other].references # {} => receipts'[other] = receipts[other]
    BY <1>0, <1>1
  <1>2. \A path \in Paths : receipts[path].state # "complete" => receipts[path].references = {}
    BY DEF OwnReceipt
  <1>3. ASSUME NEW path \in Paths, RemoveReceipt(path)
        PROVE  \A other \in Paths :
                   receipts[other].references # {} => receipts'[other] = receipts[other]
    BY <1>1, <1>2, <1>3 DEF RemoveReceipt
  <1>4. ASSUME NEW p \in Publishers, Reserve(p)
        PROVE  \A other \in Paths :
                   receipts[other].references # {} => receipts'[other] = receipts[other]
    BY <1>1, <1>2, <1>4 DEF Reserve, Reservable
  <1>5. ASSUME NEW p \in Publishers, Active(p), WriteReceipt(p) \/ Fail(p)
        PROVE  \A other \in Paths :
                   receipts[other].references # {} => receipts'[other] = receipts[other]
    <2>1. receipts[op[p].path].references = {}
      BY <1>5 DEF OwnReceipt, Reserved
    <2>2. \E receipt : receipts' = [receipts EXCEPT ![op[p].path] = receipt]
      BY <1>5, Zenon DEF WriteReceipt, Fail, Active
    <2> QED
      BY <1>1, <2>1, <2>2
  <1>6. \A p \in Publishers : WriteReceipt(p) => Active(p)
    BY DEF WriteReceipt, Active
  <1> QED
    BY <1>3, <1>4, <1>5, <1>6, ReceiptSteps

\* A reference is published by a publisher that carries it.
LEMMA ReferenceSteps ==
    ASSUME TypeOK, [Next]_vars
    PROVE  References' \subseteq References \cup UNION {Carried(p) : p \in Publishers}
  <1>0. DOMAIN receipts = Paths
    BY DEF TypeOK
  <1>1. ASSUME NEW path, NEW receipt, receipts' = [receipts EXCEPT ![path] = receipt]
        PROVE  References' \subseteq References \cup receipt.references
    <2>1. \A other \in Paths : receipts'[other] = receipt \/ receipts'[other] = receipts[other]
      BY <1>0, <1>1
    <2> QED
      BY <2>1 DEF References
  <1>2. NoReceipt.references = {} /\ Reserved.references = {}
    BY DEF NoReceipt, Reserved
  <1>3. ASSUME NEW p \in Publishers, WriteReceipt(p)
        PROVE  References' \subseteq References \cup Carried(p)
    <2> DEFINE receipt == [state |-> "complete",
                           references |-> {op[p].sources[i] : i \in 1..Len(op[p].sources)}]
    <2>1. receipts' = [receipts EXCEPT ![op[p].path] = receipt]
      BY <1>3, Zenon DEF WriteReceipt
    <2>2. receipt.references = Carried(p)
      BY DEF Carried
    <2> HIDE DEF receipt
    <2> QED
      BY <1>1, <2>1, <2>2
  <1>4. ASSUME NEW p \in Publishers, Reserve(p) \/ (Fail(p) /\ Active(p))
        PROVE  References' \subseteq References
    <2>1. \E path : \/ receipts' = [receipts EXCEPT ![path] = NoReceipt]
                    \/ receipts' = [receipts EXCEPT ![path] = Reserved]
      BY <1>4, Zenon DEF Reserve, Fail, Active
    <2> QED
      BY <1>1, <1>2, <2>1
  <1>5. ASSUME NEW path \in Paths, RemoveReceipt(path) PROVE References' \subseteq References
    BY <1>1, <1>2, <1>5 DEF RemoveReceipt
  <1>6. CASE receipts' = receipts
    BY <1>6 DEF References
  <1> QED
    BY <1>3, <1>4, <1>5, <1>6, ReceiptSteps

\* A put that outlives its publisher is of the reference the publisher carried.
LEMMA LateSteps ==
    ASSUME TypeOK, DoneIsStored, [Next]_vars, NEW r \in late'
    PROVE  \/ r \in late
           \/ \E p \in Publishers : \E s \in Carried(p) : r = [s EXCEPT !.content = s.content]
  <1>1. ASSUME NEW p \in Publishers, Leave(p)
        PROVE  \/ r \in late
               \/ /\ op[p].phase = "putting" /\ r = [Current(p) EXCEPT !.content = op[p].sent]
    BY <1>1, Zenon DEF Leave
  <1>2. late' \subseteq late \/ \E p \in Publishers : Leave(p)
    BY Zenon
       DEF Next, Publisher, Begin, CheckClaim, Reference, Reserve, Verify, Send, Put, ReadBack,
           WriteReceipt, Fail, Kill, CarryOut, AssembleDiagnostics, AssembleRawResult,
           WriteManifest, RemoveReceipt, StartJob, UploadOutput, UploadMarker, LateUpload, ObserveJob,
           Produce, ClaimExecution, vars
  <1>3. ASSUME NEW p \in Publishers, op[p].phase = "putting"
        PROVE  Current(p) \in Carried(p) /\ op[p].sent = Current(p).content
    BY <1>3, CurrentCarried DEF DoneIsStored
  <1> QED
    BY <1>1, <1>2, <1>3

LEMMA NextManifestsAsLocal ==
    ASSUME TypeOK, DoneIsStored, AllGrounded, ManifestsAsLocal, [Next]_vars
    PROVE  ManifestsAsLocal'
  <1> DEFINE Local(r) == /\ IsReference(r)
                         /\ r.key \in Manifests => r.content \in {Absent, files[r.key]}
  <1>1. \A r \in late \cup References \cup UNION {Carried(p) : p \in Publishers} : Local(r)
    BY DEF ManifestsAsLocal
  <1>2. ASSUME NEW r, Local(r) \/ MadeNow(r) PROVE Local(r)'
    BY <1>2, ManifestWrittenOnce DEF MadeNow, IsReference
  <1>3. ASSUME NEW r, Local(r) PROVE Local([r EXCEPT !.content = r.content])
    <2>1. [r EXCEPT !.content = r.content] = r
      BY <1>3 DEF IsReference
    <2> QED
      BY <1>3, <2>1
  <1> HIDE DEF Local
  <1>4. \A r \in late' : Local(r)'
    BY <1>1, <1>2, <1>3, LateSteps
  <1>5. \A r \in References' : Local(r)'
    BY <1>1, <1>2, ReferenceSteps
  <1>6. \A p \in Publishers : \A r \in Carried(p)' : Local(r)'
    BY <1>1, <1>2, CarriedSteps
  <1>7. ASSUME NEW k \in Manifests, store'[k] # Absent
        PROVE  store'[k][1] \in {Absent, Damaged, files'[k]}
    <2>1. k \in Keys \ JobKeys
      BY DEF Manifests, Keys, JobKeys, Marker
    <2>2. CASE store'[k] = store[k]
      BY <1>7, <2>2, ManifestWrittenOnce DEF ManifestsAsLocal
    <2>3. ASSUME NEW r \in Underway, r.key = k, store'[k][1] = r.content
          PROVE  store'[k][1] \in {Absent, Damaged, files'[k]}
      <3>1. Local(r)'
        BY <1>1, <1>2 DEF Underway
      <3> QED
        BY <2>3, <3>1 DEF Local
    <2> QED
      BY <2>1, <2>2, <2>3, StoredFromReference
  <1> QED
    BY <1>4, <1>5, <1>6, <1>7 DEF Local, ManifestsAsLocal

LEMMA NextRawResultAssembled ==
    ASSUME TypeOK, OwnReceipt, RawResultAssembled, [Next]_vars
    PROVE  RawResultAssembled'
  <1>0. /\ DOMAIN files = Produceable \cup Manifests
        /\ "rawResult" \in Manifests /\ "diagnostics" \in Manifests
        /\ \A references : Manifest(references) # Absent
    BY DEF TypeOK, Manifests, Manifest, Absent
  <1>1. ASSUME NEW path \in Paths, NEW uploaded \in Paths, AssembledFrom(path, uploaded)
        PROVE  AssembledFrom(path, uploaded)'
    <2>1. /\ receipts[path].references # {} /\ receipts[uploaded].references # {}
          /\ files["rawResult"] # Absent /\ files["diagnostics"] # Absent
      BY <1>0, <1>1 DEF AssembledFrom
    <2>2. /\ receipts'[path] = receipts[path] /\ receipts'[uploaded] = receipts[uploaded]
          /\ files'["rawResult"] = files["rawResult"]
          /\ files'["diagnostics"] = files["diagnostics"]
      BY <1>0, <2>1, ReceiptsKept, ManifestWrittenOnce
    <2> QED
      BY <1>1, <2>2 DEF AssembledFrom, Captures
  <1>2. ASSUME NEW path \in Paths, AssembledBaseline(path) PROVE AssembledBaseline(path)'
    <2>1. receipts[path].references # {} /\ files["rawResult"] # Absent
      BY <1>0, <1>2 DEF AssembledBaseline
    <2>2. receipts'[path] = receipts[path] /\ files'["rawResult"] = files["rawResult"]
      BY <1>0, <2>1, ReceiptsKept, ManifestWrittenOnce
    <2> QED
      BY <1>2, <2>2 DEF AssembledBaseline
  <1>3. ASSUME NEW path \in Paths, NEW uploaded \in Paths, AssembleRawResult(path, uploaded)
        PROVE  AssembledBaseline(path)' \/ AssembledFrom(path, uploaded)'
    <2>1. /\ {BaselineInputs[i] : i \in 1..Len(BaselineInputs)} = {"measurements"}
          /\ {BrowserInputs[i] : i \in 1..Len(BrowserInputs)} = {"measurements", "trace"}
          /\ {DiagnosticInput[i] : i \in 1..Len(DiagnosticInput)} = {"diagnostics"}
      <3>1. /\ Len(BaselineInputs) = 1 /\ Len(BrowserInputs) = 2 /\ Len(DiagnosticInput) = 1
            /\ 1..2 = {1, 2} /\ 1..1 = {1}
        BY DEF BaselineInputs, BrowserInputs, DiagnosticInput
      <3>2. /\ BaselineInputs[1] = "measurements"
            /\ BrowserInputs[1] = "measurements" /\ BrowserInputs[2] = "trace"
            /\ DiagnosticInput[1] = "diagnostics"
        BY DEF BaselineInputs, BrowserInputs, DiagnosticInput
      <3> QED
        BY <3>1, <3>2
    <2>2. ASSUME NEW references, WriteManifest("rawResult", references)
          PROVE  /\ files'["rawResult"] = Manifest(references)
                 /\ files'["diagnostics"] = files["diagnostics"] /\ receipts' = receipts
      BY <1>0, <2>2 DEF WriteManifest
    <2>3. CASE /\ IsBaseline(files["measurements"]) /\ UploadReferences(path, BaselineInputs)
               /\ WriteManifest("rawResult", receipts[path].references)
      <3>1. /\ {r.key : r \in receipts[path].references} = {"measurements"}
            /\ \A r \in receipts[path].references : r.content = files[r.key]
        BY <2>1, <2>3 DEF UploadReferences
      <3>2. \A r \in receipts[path].references : IsBaseline(r.content)
        BY <2>3, <3>1
      <3> QED
        BY <2>2, <2>3, <3>1, <3>2 DEF AssembledBaseline
    <2>4. CASE /\ ~IsBaseline(files["measurements"]) /\ UploadReferences(path, BrowserInputs)
               /\ DiagnosticReference(path, uploaded)
               /\ WriteManifest("rawResult", receipts[path].references
                                             \cup receipts[uploaded].references)
      <3>1. /\ UploadReferences(uploaded, DiagnosticInput)
            /\ files["diagnostics"] = Manifest(Captures(path))
        BY <2>4 DEF DiagnosticReference
      <3>2. /\ {r.key : r \in receipts[path].references} = {"measurements", "trace"}
            /\ {r.key : r \in receipts[uploaded].references} = {"diagnostics"}
            /\ \A r \in receipts[path].references : r.content = files[r.key]
            /\ \A r \in receipts[uploaded].references : r.content = files[r.key]
        BY <2>1, <2>4, <3>1 DEF UploadReferences
      <3>3. \A r \in receipts[uploaded].references : r.content = files["diagnostics"]
        BY <3>2
      <3>4. \A r \in receipts[path].references : r.key \in Measurements => ~IsBaseline(r.content)
        BY <2>4, <3>2 DEF Measurements
      <3> QED
        BY <2>2, <2>4, <3>1, <3>2, <3>3, <3>4 DEF AssembledFrom, Captures
    <2> QED
      BY <1>3, <2>3, <2>4 DEF AssembleRawResult
  <1>4. \/ files'["rawResult"] = files["rawResult"]
        \/ \E path, uploaded \in Paths : AssembleRawResult(path, uploaded)
    <2>1. ASSUME NEW path, AssembleDiagnostics(path) PROVE files'["rawResult"] = files["rawResult"]
      BY <1>0, <2>1 DEF AssembleDiagnostics, WriteManifest
    <2>2. ASSUME NEW n \in Rewritten, Produce(n) PROVE files'["rawResult"] = files["rawResult"]
      <3>1. /\ files' = [files EXCEPT ![n] = Produced(files[n][1] + 1)]
            /\ n # "rawResult"
        BY <2>2, KindsAssumption DEF Produce, Produceable
      <3> QED
        BY <1>0, <3>1
    <2>3. \/ files' = files
          \/ \E n \in Rewritten : Produce(n)
          \/ \E path : AssembleDiagnostics(path)
          \/ \E path, uploaded \in Paths : AssembleRawResult(path, uploaded)
      BY Zenon
         DEF Next, Publisher, Begin, CheckClaim, Reference, Reserve, Verify, Send, Put, ReadBack,
             WriteReceipt, Fail, Kill, CarryOut, RemoveReceipt, StartJob, UploadOutput,
             UploadMarker, LateUpload, ObserveJob, ClaimExecution, vars
    <2> QED
      BY <2>1, <2>2, <2>3
  <1> QED
    BY <1>1, <1>2, <1>3, <1>4 DEF RawResultAssembled

-----------------------------------------------------------------------------
(* The Job. *)

\* The outputs are few, so that their entries can be counted.
LEMMA EntriesCounted ==
    ASSUME TypeOK
    PROVE  /\ Len(job.outputs) \in Nat /\ Entries(0) = {}
           /\ \A n \in 0..Len(job.outputs) : Cardinality(Entries(n)) = n
           /\ \A n \in 0..Len(job.outputs) : n < Len(job.outputs) =>
                  /\ Entries(n + 1) = Entries(n) \cup {Entry(job.outputs[n + 1])}
                  /\ job.outputs[n + 1] \in {"status", "points"}
           /\ job.outputs = Captured => Entries(2) = {Entry("status"), Entry("points")}
           /\ Len(job.outputs) = Len(Captured) => job.outputs = Captured
  <1>0. 1..0 = {} /\ 1..1 = {1} /\ 1..2 = {1, 2}
    OBVIOUS
  <1>1. Entry("status") # Entry("points")
    BY DEF Entry
  <1>2. /\ Cardinality({}) = 0 /\ Cardinality({Entry("status")}) = 1
        /\ Cardinality({Entry("status"), Entry("points")}) = 2
    <2>1. /\ IsFiniteSet({}) /\ Cardinality({}) = 0
          /\ IsFiniteSet({Entry("status")}) /\ Cardinality({Entry("status")}) = 1
      BY FS_EmptySet, FS_Singleton
    <2>2. {Entry("status"), Entry("points")} = {Entry("status")} \cup {Entry("points")}
      OBVIOUS
    <2> QED
      BY <1>1, <2>1, <2>2, FS_AddElement
  <1>3. Entries(0) = {}
    BY <1>0 DEF Entries
  <1>4. CASE job.outputs = <<>>
    <2>1. Len(job.outputs) = 0 /\ Len(Captured) = 2 /\ job.outputs # Captured
      BY <1>4 DEF Captured
    <2>2. Cardinality(Entries(0)) = 0
      BY <1>2, <1>3
    <2> QED
      BY <1>3, <2>1, <2>2
  <1>5. CASE job.outputs = <<"status">>
    <2>1. /\ Len(job.outputs) = 1 /\ Len(Captured) = 2 /\ job.outputs # Captured
          /\ job.outputs[1] = "status"
      BY <1>5 DEF Captured
    <2>2. Entries(1) = {Entry("status")}
      BY <1>0, <2>1 DEF Entries
    <2>3. Cardinality(Entries(0)) = 0 /\ Cardinality(Entries(1)) = 1
      BY <1>2, <1>3, <2>2
    <2>4. Entries(0 + 1) = Entries(0) \cup {Entry("status")}
      BY <1>3, <2>2
    <2>5. 0..1 = {0, 1}
      OBVIOUS
    <2> QED
      BY <1>3, <2>1, <2>3, <2>4, <2>5
  <1>6. CASE job.outputs = Captured
    <2>1. /\ Len(job.outputs) = 2 /\ Len(Captured) = 2
          /\ job.outputs[1] = "status" /\ job.outputs[2] = "points"
      BY <1>6 DEF Captured
    <2>2. Entries(1) = {Entry("status")} /\ Entries(2) = {Entry("status"), Entry("points")}
      BY <1>0, <2>1 DEF Entries
    <2>3. /\ Cardinality(Entries(0)) = 0 /\ Cardinality(Entries(1)) = 1
          /\ Cardinality(Entries(2)) = 2
      BY <1>2, <1>3, <2>2
    <2>4. /\ Entries(0 + 1) = Entries(0) \cup {Entry("status")}
          /\ Entries(1 + 1) = Entries(1) \cup {Entry("points")}
      <3>1. Entries(2) = Entries(1) \cup {Entry("points")} /\ 1 + 1 = 2 /\ 0 + 1 = 1
        BY <2>2
      <3> QED
        BY <1>3, <2>2, <3>1
    <2>5. 0..2 = {0, 1, 2}
      OBVIOUS
    <2> QED
      BY <1>3, <1>6, <2>1, <2>2, <2>3, <2>4, <2>5
  <1> QED
    BY <1>4, <1>5, <1>6 DEF TypeOK

\* Nobody but the Job writes its marker.
LEMMA MarkerKept ==
    ASSUME TypeOK, DoneIsStored, AllGrounded, ManifestsAsLocal, [Next]_vars,
           ~UploadMarker, LateUpload => Cardinality(job.listed) < Len(job.outputs)
    PROVE  store'[Marker] = store[Marker]
  <1>0. DOMAIN store = Keys /\ \A k \in Produceable \cup Manifests \cup {"status", "points"} : k # Marker
    BY DEF TypeOK, Produceable, Manifests, Marker
  <1>1. ASSUME NEW k \in Produceable \cup Manifests \cup {"status", "points"},
               NEW content, NEW id, Written(k, content, id)
        PROVE  store'[Marker] = store[Marker]
    BY <1>0, <1>1 DEF Written
  <1>2. ASSUME NEW p \in Publishers, Put(p) PROVE Current(p).key \in Produceable \cup Manifests
    <2>1. Current(p) \in Carried(p)
      BY <1>2, CurrentCarried DEF Put
    <2> QED
      BY <2>1 DEF ManifestsAsLocal, IsReference
  <1>3. \A r \in late : r.key \in Produceable \cup Manifests
    BY DEF ManifestsAsLocal, IsReference
  <1>4. CASE UploadOutput \/ LateUpload
    <2>1. Cardinality(job.listed) < Len(job.outputs) /\ UploadsComplete = FALSE
      <3>1. Cardinality(job.listed) < Len(job.outputs)
        BY <1>4, Zenon DEF UploadOutput
      <3>2. Cardinality(job.listed) \in Nat /\ Len(job.outputs) \in Nat
        BY FS_CardinalityType, EntriesCounted DEF TypeOK
      <3> QED
        BY <3>1, <3>2 DEF UploadsComplete
    <2>2. NextOutput \in {"status", "points"}
      BY <2>1, NextOutputNamed
    <2>3. store' = store \/ \E content, id : Written(NextOutput, content, id)
      BY <1>4, <2>1, Zenon DEF UploadOutput, LateUpload, Upload, PutPermitted, Written
    <2> QED
      BY <1>1, <2>2, <2>3
  <1> QED
    BY <1>1, <1>2, <1>3, <1>4, OthersKeepStore, PutWrites, CarryOutWrites

LEMMA NextJobInOrder ==
    ASSUME TypeOK, DoneIsStored, AllGrounded, ManifestsAsLocal, JobInOrder, [Next]_vars
    PROVE  JobInOrder'
  <1> USE Fields
  <1>0. DOMAIN job = DOMAIN NoJob /\ IsFiniteSet(job.listed) /\ DOMAIN store = Keys
    BY DEF TypeOK
  <1>1. PICK n \in 0..Len(job.outputs) : job.listed = Entries(n)
    BY DEF JobInOrder
  <1>2. Cardinality(job.listed) = n
    BY <1>1, EntriesCounted
  <1>3. \A r \in job.listed : r.key \in Keys /\ Resolves(r)'
    <2>1. \A r \in job.listed : r.key \in Keys
      <3>1. \A i \in 1..Len(job.outputs) : job.outputs[i] \in {"status", "points"}
        <4>1. \A i \in 1..Len(job.outputs) : i - 1 \in 0..Len(job.outputs) /\ i - 1 < Len(job.outputs)
                                               /\ (i - 1) + 1 = i
          BY EntriesCounted
        <4> QED
          BY <4>1, EntriesCounted
      <3>2. \A i \in 1..n : i \in 1..Len(job.outputs)
        BY <1>1, EntriesCounted
      <3> QED
        BY <1>1, <3>1, <3>2 DEF Entries, Entry, Keys
    <2> QED
      BY <2>1, StoreKept DEF JobInOrder
  <1>10. ASSUME job'.outputs = job.outputs PROVE \A m : Entries(m)' = Entries(m)
    BY <1>10 DEF Entries
  <1>4. CASE job' = job /\ ~UploadMarker /\ ~LateUpload
    <2>1. store'[Marker] = store[Marker]
      BY <1>4, MarkerKept
    <2>2. \A m : Entries(m)' = Entries(m)
      BY <1>4, <1>10
    <2> QED
      BY <1>1, <1>3, <1>4, <2>1, <2>2 DEF JobInOrder
  <1>11. ASSUME NEW state \in {"cut off", "failed", "complete"},
                job.state \in {"uploading", "cut off"}, job' = [job EXCEPT !.state = state],
                \/ state \in {"cut off", "failed"} /\ store'[Marker] = Absent
                \/ state = "failed" /\ store'[Marker] = <<Damaged, 0>>
                \/ /\ state \in {"failed", "complete"} /\ n = Len(job.outputs)
                   /\ store'[Marker] = <<Manifest(job.listed), 0>>
         PROVE  JobInOrder'
    <2>1. /\ job'.state = state /\ job'.listed = job.listed /\ job'.outputs = job.outputs
          /\ job'.verdict = job.verdict /\ job.verdict # "captured"
      BY <1>0, <1>11 DEF JobInOrder
    <2>2. /\ \E m \in 0..Len(job'.outputs) : job'.listed = Entries(m)'
          /\ n = Len(job.outputs) => job'.listed = Entries(Len(job.outputs))'
      BY <1>1, <1>10, <2>1
    <2> QED
      BY <1>3, <1>11, <2>1, <2>2 DEF JobInOrder
  <1>5. CASE StartJob
    <2>1. PICK outputs \in {Captured, <<"status">>} :
             job' = [job EXCEPT !.state = "uploading", !.outputs = outputs]
      BY <1>5, Zenon DEF StartJob
    <2>2. /\ job.state = "none" /\ store' = store
      BY <1>5, Zenon DEF StartJob
    <2>3. /\ job'.state = "uploading" /\ job'.listed = {} /\ job'.verdict = job.verdict
          /\ job'.outputs = outputs
      BY <1>0, <2>1, <2>2 DEF JobInOrder
    <2>4. 0 \in 0..Len(outputs) /\ 1..0 = {}
      BY <2>1 DEF Captured
    <2>5. \E m \in 0..Len(job'.outputs) : job'.listed = Entries(m)'
      BY <2>3, <2>4 DEF Entries
    <2> QED
      BY <2>2, <2>3, <2>5 DEF JobInOrder
  <1>6. CASE UploadOutput
    <2>0. PICK key : key = NextOutput
      OBVIOUS
    <2>1. /\ job.state = "uploading" /\ n < Len(job.outputs) /\ key = job.outputs[n + 1]
          /\ Upload(key, Produced(1), [job EXCEPT !.listed = job.listed \cup {Entry(key)}])
      BY <1>2, <1>6, <2>0 DEF UploadOutput, NextOutput
    <2>2. /\ key \in {"status", "points"} /\ n + 1 \in 0..Len(job.outputs)
          /\ Entries(n + 1) = job.listed \cup {Entry(key)}
      BY <1>1, <2>1, EntriesCounted
    <2>3. store'[Marker] = Absent /\ store[Marker] = Absent /\ job.verdict # "captured"
      <3>1. ~UploadMarker /\ Cardinality(job.listed) < Len(job.outputs)
        BY <1>2, <2>1, EntriesCounted DEF UploadMarker, UploadsComplete
      <3> QED
        BY <2>1, <3>1, MarkerKept DEF JobInOrder
    <2>4. CASE \E state \in {"cut off", "failed"} : job' = [job EXCEPT !.state = state]
      BY <1>11, <2>1, <2>3, <2>4
    <2>5. CASE /\ job' = [job EXCEPT !.listed = job.listed \cup {Entry(key)}]
               /\ store' = [store EXCEPT ![key] = <<Produced(1), 0>>]
      <3>1. /\ job'.state = "uploading" /\ job'.listed = Entries(n + 1)
            /\ job'.outputs = job.outputs /\ job'.verdict = job.verdict
        BY <1>0, <2>1, <2>2, <2>5
      <3>2. Resolves(Entry(key))'
        <4>1. store'[key] = <<Produced(1), 0>>
          BY <1>0, <2>2, <2>5 DEF Keys
        <4> QED
          BY <4>1 DEF Resolves, Object, Entry
      <3>3. \E m \in 0..Len(job'.outputs) : job'.listed = Entries(m)'
        BY <1>10, <2>2, <3>1
      <3>4. \A r \in job'.listed : Resolves(r)'
        <4>1. \A r \in job'.listed : r \in job.listed \/ r = Entry(key)
          BY <2>2, <3>1
        <4> QED
          BY <1>3, <3>2, <4>1
      <3> QED
        BY <2>3, <3>1, <3>3, <3>4 DEF JobInOrder
    <2> QED
      BY <2>1, <2>4, <2>5, Zenon DEF Upload
  <1>12. UploadsComplete <=> n = Len(job.outputs)
    BY <1>2 DEF UploadsComplete
  <1>13. Marker \in Keys /\ (n = Len(job.outputs) => Listing = Manifest(job.listed))
    BY <1>1 DEF Keys, Listing
  <1>7. CASE UploadMarker
    <2>1. /\ job.state = "uploading" /\ n = Len(job.outputs) /\ store[Marker] = Absent
          /\ Upload(Marker, Manifest(job.listed), [job EXCEPT !.state = "complete"])
      <3>1. /\ job.state = "uploading" /\ UploadsComplete
            /\ Upload(Marker, Listing, [job EXCEPT !.state = "complete"])
        BY <1>7, Zenon DEF UploadMarker
      <3>2. Listing = Manifest(job.listed)
        BY <1>12, <1>13, <3>1
      <3>3. store[Marker] = Absent
        BY <3>1 DEF JobInOrder
      <3> QED
        BY <1>12, <3>1, <3>2, <3>3
    <2>2. \/ /\ \E state \in {"failed", "complete"} : job' = [job EXCEPT !.state = state]
             /\ store' = [store EXCEPT ![Marker] = <<Manifest(job.listed), 0>>]
          \/ /\ job' = [job EXCEPT !.state = "failed"]
             /\ store' = store \/ store' = [store EXCEPT ![Marker] = <<Damaged, 0>>]
          \/ job' = [job EXCEPT !.state = "cut off"] /\ store' = store
      BY <2>1, Zenon DEF Upload
    <2>3. CASE /\ \E state \in {"failed", "complete"} : job' = [job EXCEPT !.state = state]
               /\ store' = [store EXCEPT ![Marker] = <<Manifest(job.listed), 0>>]
      <3>1. store'[Marker] = <<Manifest(job.listed), 0>>
        BY <1>0, <1>13, <2>3
      <3> QED
        BY <1>11, <2>1, <2>3, <3>1
    <2>4. CASE /\ job' = [job EXCEPT !.state = "failed"]
               /\ store' = store \/ store' = [store EXCEPT ![Marker] = <<Damaged, 0>>]
      <3>1. store'[Marker] = Absent \/ store'[Marker] = <<Damaged, 0>>
        BY <1>0, <1>13, <2>1, <2>4
      <3> QED
        BY <1>11, <2>1, <2>4, <3>1
    <2>5. CASE job' = [job EXCEPT !.state = "cut off"] /\ store' = store
      BY <1>11, <2>1, <2>5
    <2> QED
      BY <2>2, <2>3, <2>4, <2>5
  <1>14. CASE LateUpload
    <2>1. job.state = "cut off" /\ job' = [job EXCEPT !.state = "failed"] /\ store[Marker] = Absent
      BY <1>14 DEF LateUpload, JobInOrder
    <2>2. CASE Cardinality(job.listed) < Len(job.outputs)
      <3>1. ~UploadMarker
        BY <2>1 DEF UploadMarker
      <3>2. store'[Marker] = Absent
        BY <2>1, <2>2, <3>1, MarkerKept
      <3> QED
        BY <1>11, <2>1, <3>2
    <2>3. CASE UploadsComplete /\ store' = [store EXCEPT ![Marker] = <<Listing, 0>>]
      <3>1. store'[Marker] = <<Manifest(job.listed), 0>> /\ n = Len(job.outputs)
        BY <1>0, <1>12, <1>13, <2>3
      <3> QED
        BY <1>11, <2>1, <3>1
    <2> QED
      BY <1>14, <2>2, <2>3, Zenon DEF LateUpload
  <1>8. CASE ObserveJob
    <2>1. /\ job.state = "complete" /\ Len(job.outputs) = Len(Captured) /\ store' = store
          /\ job' = [job EXCEPT !.verdict = "captured"]
      BY <1>8, Zenon DEF ObserveJob, Outcome
    <2>2. job.outputs = Captured
      BY <2>1, EntriesCounted
    <2>3. /\ job'.state = job.state /\ job'.listed = job.listed /\ job'.outputs = job.outputs
      BY <1>0, <2>1
    <2>4. /\ \A m : Entries(m)' = Entries(m)
          /\ \E m \in 0..Len(job'.outputs) : job'.listed = Entries(m)'
      BY <1>1, <1>10, <2>3
    <2> QED
      BY <1>3, <2>1, <2>2, <2>3, <2>4 DEF JobInOrder
  <1>9. job' = job \/ StartJob \/ UploadOutput \/ UploadMarker \/ LateUpload \/ ObserveJob
    BY Zenon
       DEF Next, Publisher, Begin, CheckClaim, Reference, Reserve, Verify, Send, Put, ReadBack,
           WriteReceipt, Fail, Kill, CarryOut, AssembleDiagnostics, AssembleRawResult,
           WriteManifest, RemoveReceipt, Produce, ClaimExecution, vars
  <1> QED
    BY <1>4, <1>5, <1>6, <1>7, <1>8, <1>9, <1>14

-----------------------------------------------------------------------------
LEMMA InitInvariant == Init => PublicationInv
  <1> SUFFICES ASSUME Init PROVE PublicationInv
    OBVIOUS
  <1> USE Fields
  <1>1. \A p \in Publishers : op[p] = Idle
    BY DEF Init
  <1>2. /\ Len(<<>>) = 0 /\ 1..0 = {} /\ \A S : <<>> \in Seq(S)
    BY EmptySeq
  <1>3. \A p \in Publishers : Carried(p) = {} /\ op[p].sources \in Seq(Carried(p))
    <2> SUFFICES ASSUME NEW p \in Publishers
                 PROVE  Carried(p) = {} /\ op[p].sources \in Seq(Carried(p))
      OBVIOUS
    <2>1. op[p].sources = <<>> /\ Len(op[p].sources) = 0
      BY <1>1, <1>2
    <2>2. Carried(p) = {}
      BY <1>2, <2>1 DEF Carried
    <2> QED
      BY <1>2, <2>1, <2>2
  <1>4. /\ NoReceipt.state = "absent" /\ NoReceipt.references = {}
        /\ \A path \in Paths : receipts[path] = NoReceipt
    BY DEF Init, NoReceipt
  <1>5. References = {} /\ late = {} /\ \A k \in Keys : store[k] = Absent
    BY <1>4 DEF Init, References
  <1>6. TypeOK
    <2>1. /\ DOMAIN files = Produceable \cup Manifests /\ DOMAIN store = Keys
          /\ DOMAIN receipts = Paths /\ DOMAIN op = Publishers /\ DOMAIN job = DOMAIN NoJob
      BY DEF Init
    <2>2. /\ \A n \in Produceable : files[n] = Produced(1)
          /\ claimed = Produced(1) /\ edits = 0 /\ drawn = 0 /\ runs = 0
      BY DEF Init
    <2>3. Produced(1) \in {Produced(v) : v \in 1..edits + 1}
      BY <2>2
    <2>4. job.outputs = <<>> /\ IsFiniteSet(job.listed)
      BY FS_EmptySet DEF Init
    <2>5. ASSUME NEW p \in Publishers PROVE TypedPublisher(p)
      BY <1>1, <1>2, <1>3 DEF TypedPublisher, Phases
    <2> QED
      BY <1>4, <2>1, <2>2, <2>3, <2>4, <2>5, BoundsAssumption DEF TypeOK, TypedPublisher
  <1>7. OwnReceipt
    BY <1>1, <1>4 DEF OwnReceipt, Active
  <1>8. DoneIsStored
    BY <1>1, <1>2 DEF DoneIsStored, Active
  <1>9. AllGrounded
    <2>1. \A n \in DOMAIN files : files[n] = Produced(1) \/ files[n] = Absent
      BY DEF Init
    <2>2. Declared(Absent) = {} /\ Declared(Produced(1)) = {}
      BY DeclaredReferences DEF Declared, Absent
    <2>3. \A k \in Manifests : Stored(k) = {}
      BY <1>5 DEF Stored, Manifests, Keys
    <2> QED
      BY <1>3, <1>5, <2>1, <2>2, <2>3 DEF AllGrounded, Grounded
  <1>10. PolicyAsReviewed
    BY <1>5 DEF PolicyAsReviewed, Keys, Produceable
  <1>11. ManifestsAsLocal /\ RawResultAssembled
    BY <1>3, <1>5 DEF ManifestsAsLocal, RawResultAssembled, Init, Manifests, Produceable, Keys
  <1>12. JobInOrder
    <2>1. job = NoJob /\ store[Marker] = Absent
      BY <1>5 DEF Init, Keys
    <2>2. Len(job.outputs) = 0 /\ job.listed = {} /\ 0 \in 0..0 /\ 1..0 = {}
      BY <1>2, <2>1
    <2>3. job.state = "none" /\ job.verdict = "none"
      BY <2>1 DEF NoJob
    <2> QED
      BY <2>1, <2>2, <2>3 DEF JobInOrder, Entries
  <1> QED
    BY <1>6, <1>7, <1>8, <1>9, <1>10, <1>11, <1>12 DEF PublicationInv

LEMMA NextInvariant == PublicationInv /\ [Next]_vars => PublicationInv'
  BY NextTyped, NextOwnReceipt, NextDoneIsStored, NextAllGrounded, NextPolicyAsReviewed,
     NextManifestsAsLocal, NextRawResultAssembled, NextJobInOrder
     DEF PublicationInv

\* The inductive invariant holds for any publishers, whatever is killed, late,
\* damaged or rewritten.
THEOREM Invariance == Spec => []PublicationInv
  BY InitInvariant, NextInvariant, PTL DEF Spec

\* No manifest and no receipt names an object that is not stored as named.
THEOREM NothingDangles == Spec => []ManifestsResolve
  <1>1. PublicationInv => ManifestsResolve
    BY DEF PublicationInv, TypeOK, AllGrounded, Grounded, ManifestsResolve
  <1> QED
    BY <1>1, Invariance, PTL

\* The bytes stored as a policy have been reviewed, or arrived damaged.
THEOREM PoliciesAreReviewed == Spec => []PolicyAsReviewed
  <1>1. PublicationInv => PolicyAsReviewed
    BY DEF PublicationInv
  <1> QED
    BY <1>1, Invariance, PTL

\* The stored raw result names the measurements of a baseline, or those of a
\* diagnostic run with the stored diagnostics and all their evidence.
THEOREM RawResultsAgree == Spec => []DiagnosticsAgree
  <1> DEFINE measured == {r \in Stored("rawResult") : r.key \in Measurements}
             uploads(keys) == {r \in References : r.key \in keys}
  <1>1. ASSUME PublicationInv, Stored("rawResult") # {}
        PROVE  \/ /\ \A r \in measured : IsBaseline(r.content)
                  /\ Stored("rawResult") = uploads(Measurements)
               \/ /\ \A r \in measured : ~IsBaseline(r.content)
                  /\ Stored("diagnostics") # {}
                  /\ Stored("rawResult") = uploads(Measurements \cup {"diagnostics"})
                                               \cup Stored("diagnostics")
    <2>0. ManifestsAsLocal /\ RawResultAssembled /\ AllGrounded
      BY <1>1 DEF PublicationInv
    <2>1. /\ Declared(Absent) = {} /\ Declared(Damaged) = {}
          /\ \A references : Declared(Manifest(references)) = references
      BY DeclaredReferences DEF Declared, Absent
    <2>2. Stored("rawResult") = Declared(files["rawResult"]) /\ files["rawResult"] # Absent
      BY <1>1, <2>0, <2>1 DEF Stored, ManifestsAsLocal, Manifests
    <2>3. \A path \in Paths : receipts[path].references \subseteq References
      BY DEF References
    <2>4. ASSUME NEW r \in References, NEW s \in References, r.key = s.key PROVE r = s
      <3>1. Resolves(r) /\ Resolves(s) /\ IsReference(r) /\ IsReference(s)
        BY <2>0 DEF AllGrounded, ManifestsAsLocal
      <3>2. r.content = s.content /\ r.id = s.id
        BY <2>4, <3>1 DEF Resolves, Object
      <3> QED
        BY <2>4, <3>1, <3>2 DEF IsReference
    <2>5. ASSUME NEW path \in Paths, AssembledBaseline(path)
          PROVE  /\ \A r \in measured : IsBaseline(r.content)
                 /\ Stored("rawResult") = uploads(Measurements)
      <3>1. Stored("rawResult") = receipts[path].references
        BY <2>1, <2>2, <2>5 DEF AssembledBaseline
      <3>2. /\ \E m \in receipts[path].references : m.key = "measurements"
            /\ \A r \in receipts[path].references : r.key = "measurements" /\ IsBaseline(r.content)
        BY <2>5 DEF AssembledBaseline
      <3>3. \A r \in References : r.key = "measurements" => r \in receipts[path].references
        BY <2>3, <2>4, <3>2
      <3> QED
        BY <2>3, <3>1, <3>2, <3>3 DEF Measurements
    <2>6. ASSUME NEW path \in Paths, NEW uploaded \in Paths, AssembledFrom(path, uploaded)
          PROVE  /\ \A r \in measured : ~IsBaseline(r.content)
                 /\ Stored("diagnostics") # {}
                 /\ Stored("rawResult") = uploads(Measurements \cup {"diagnostics"})
                                              \cup Stored("diagnostics")
      <3> DEFINE evidence == receipts[path].references
                 manifest == receipts[uploaded].references
      <3>1. evidence \subseteq References /\ manifest \subseteq References
        BY <2>3
      <3>2. /\ \E m \in evidence : m.key = "measurements"
            /\ \E t \in evidence : t.key = "trace"
            /\ \A r \in evidence : r.key \in {"measurements", "trace"}
            /\ \A r \in evidence : r.key \in Measurements => ~IsBaseline(r.content)
            /\ \E d \in manifest : d.key = "diagnostics"
            /\ \A d \in manifest : d.key = "diagnostics" /\ d.content = Manifest(Captures(path))
        BY <2>6 DEF AssembledFrom
      <3>3. Stored("rawResult") = evidence \cup manifest
        BY <2>1, <2>2, <2>6 DEF AssembledFrom
      <3>4. Stored("diagnostics") = Captures(path)
        <4>1. PICK d \in manifest : d.key = "diagnostics" /\ d.content = Manifest(Captures(path))
          BY <3>2
        <4>2. store["diagnostics"] = <<Manifest(Captures(path)), d.id>>
          BY <2>0, <3>1, <4>1 DEF AllGrounded, Resolves, Object
        <4>3. store["diagnostics"] # Absent /\ store["diagnostics"][1] = Manifest(Captures(path))
          BY <4>2 DEF Absent
        <4> QED
          BY <2>1, <4>3 DEF Stored
      <3>5. Captures(path) = {r \in evidence : r.key # "measurements"}
        BY DEF Captures, Measurements
      <3> HIDE DEF evidence, manifest
      <3>6. Captures(path) # {}
        BY <3>2, <3>5
      <3>7. \A r \in References : r.key = "measurements" => r \in evidence
        BY <2>4, <3>1, <3>2
      <3>8. \A r \in References : r.key = "diagnostics" => r \in manifest
        BY <2>4, <3>1, <3>2
      <3>9. \A r \in measured : ~IsBaseline(r.content)
        BY <3>2, <3>3 DEF Measurements
      <3>10. Stored("rawResult") = uploads(Measurements \cup {"diagnostics"})
                                       \cup Stored("diagnostics")
        <4>1. \A r \in Stored("rawResult") :
                 r \in uploads(Measurements \cup {"diagnostics"}) \cup Stored("diagnostics")
          BY <3>1, <3>2, <3>3, <3>4, <3>5 DEF Measurements
        <4>2. uploads(Measurements \cup {"diagnostics"}) \subseteq Stored("rawResult")
          BY <3>3, <3>7, <3>8 DEF Measurements
        <4>3. Stored("diagnostics") \subseteq Stored("rawResult")
          BY <3>3, <3>4, <3>5
        <4> QED
          BY <4>1, <4>2, <4>3
      <3> QED
        BY <3>4, <3>6, <3>9, <3>10
    <2> QED
      BY <2>0, <2>2, <2>5, <2>6 DEF RawResultAssembled
  <1>2. PublicationInv => DiagnosticsAgree
    BY <1>1 DEF DiagnosticsAgree
  <1> QED
    BY <1>2, Invariance, PTL

\* Whoever finds the marker of a k6 Job finds all that k6 has left, as listed,
\* the Job having failed or not, and a run reported as captured is complete.
THEOREM MarkersAreKept == Spec => []CaptureMarked
  <1>1. ASSUME PublicationInv PROVE CaptureMarked
    <2>0. JobInOrder /\ TypeOK
      BY <1>1 DEF PublicationInv
    <2>1. \A references : /\ <<Manifest(references), 0>> # Absent
                          /\ Declared(<<Manifest(references), 0>>[1]) = references
                          /\ Declared(<<Damaged, 0>>[1]) = {}
      BY DeclaredReferences DEF Absent
    <2>2. CASE Stored(Marker) = {}
      <3>1. job.verdict # "captured"
        <4>1. ASSUME job.verdict = "captured" PROVE FALSE
          <5>1. /\ job.outputs = Captured /\ job.listed = Entries(Len(Captured))
                /\ Stored(Marker) = job.listed
            BY <2>0, <2>1, <4>1 DEF JobInOrder, Stored
          <5>2. Len(Captured) = 2
            BY DEF Captured
          <5> QED
            BY <2>0, <2>2, <5>1, <5>2, EntriesCounted
        <4> QED
          BY <4>1
      <3> QED
        BY <2>2, <3>1 DEF CaptureMarked
    <2>3. CASE Stored(Marker) # {}
      <3>1. Stored(Marker) = job.listed /\ job.listed = Entries(Len(job.outputs))
        BY <2>0, <2>1, <2>3 DEF JobInOrder, Stored
      <3>2. {r.key : r \in Stored(Marker)} = {job.outputs[i] : i \in 1..Len(job.outputs)}
        <4>1. \A i : Entry(job.outputs[i]).key = job.outputs[i]
          BY DEF Entry
        <4> QED
          BY <3>1, <4>1 DEF Entries
      <3>3. job.verdict = "captured" => job.outputs = Captured
        BY <2>0 DEF JobInOrder
      <3> QED
        BY <2>0, <3>1, <3>2, <3>3 DEF JobInOrder, CaptureMarked
    <2> QED
      BY <2>2, <2>3
  <1>2. PublicationInv => CaptureMarked
    BY <1>1
  <1> QED
    BY <1>2, Invariance, PTL

\* Publishers, Jobs and late puts implement the write-once store of evidence.
THEOREM ImplementsEvidence == Spec => EvidenceSpec
  <1>1. Init => Evidence!Init
    BY DEF Init, Evidence!Init, References, NoReceipt
  <1>2. ASSUME PublicationInv, [Next]_vars
        PROVE  [Evidence!Next]_<<store, References>>
    <2>0. TypeOK /\ DoneIsStored /\ AllGrounded /\ OwnReceipt
      BY <1>2 DEF PublicationInv
    <2>1. CASE store' # store
      <3>1. receipts' = receipts
        BY <1>2, <2>1, Zenon
           DEF Next, Publisher, Begin, CheckClaim, Reference, Reserve, Verify, Send, ReadBack,
               WriteReceipt, Fail, Kill, Put, CarryOut, AssembleDiagnostics, AssembleRawResult,
               WriteManifest, RemoveReceipt, StartJob, UploadOutput, UploadMarker, LateUpload, ObserveJob,
               Produce, ClaimExecution, vars
      <3>2. References' = References
        BY <3>1 DEF References
      <3>3. \E k \in Keys : /\ store[k] = Absent /\ store'[k] # Absent
                            /\ \A l \in Keys \ {k} : store'[l] = store[l]
        BY <1>2, <2>0, <2>1, StoreKept
      <3> QED
        BY <3>2, <3>3 DEF Evidence!Next, Evidence!Store
    <2>2. CASE store' = store
      <3>1. References \subseteq References'
        BY <1>2, <2>0, ReceiptsKept DEF References
      <3>2. \A r \in References' : Resolves(r)'
        BY <1>2, <2>0, NextReceiptsResolve
      <3>3. \A r \in References' : Evidence!Resolves(r)
        BY <2>2, <3>2 DEF Resolves, Object, Evidence!Resolves
      <3> QED
        BY <2>2, <3>1, <3>3 DEF Evidence!Next, Evidence!Claim
    <2> QED
      BY <2>1, <2>2
  <1>3. PublicationInv /\ [Next]_vars => [Evidence!Next]_<<store, References>>
    BY <1>2
  <1> QED
    BY <1>1, <1>3, Invariance, PTL DEF Spec, EvidenceSpec, Evidence!Spec
=============================================================================
