------------------------- MODULE ArtifactPublication -------------------------
(***************************************************************************)
(* How local files become immutable objects of the evidence bucket:        *)
(* artifact_upload.py and the scripts that call its publish function       *)
(* (browser_upload.py, raw_result_upload.py, kube_burner_upload.py),       *)
(* policy_publish.py, the assemblers of the manifests that refer to        *)
(* published objects (browser_diagnostics.py, browser_raw_result.py), and  *)
(* the Job of k6_run.py that uploads its own results.                      *)
(*                                                                         *)
(* A publisher reads its files into references, reserves the receipt,      *)
(* compares the files with the references, and for every file streams it   *)
(* into a Pod that puts it on condition that the key is unused, reads it   *)
(* back and compares. The receipt is written last. A publisher may fail or *)
(* be killed at any step; a put that its Pod has started may still be      *)
(* carried out. People rerun the tools that write the files.               *)
(*                                                                         *)
(* All keys are those of one performance run; a digest is the content it   *)
(* was taken of. Media types, sizes and schemas are left out.              *)
(***************************************************************************)
EXTENDS Integers, Sequences, FiniteSets

CONSTANTS
    Publishers,
    Paths,       \* where receipts are written
    Kinds,       \* the publications that are made
    Rewritten,   \* the files that tools and people rewrite
    Baselines,   \* versions of the measurements whose diagnosticMode is baseline
    MaxRuns,     \* bound, per kind: the runs started in all when one of it starts last
    MaxEdits     \* bound: files rewritten by people and tools

ASSUME BaselinesAssumption == Baselines \subseteq Nat
ASSUME BoundsAssumption == MaxRuns \in [Kinds -> Nat] /\ MaxEdits \in Nat

VARIABLES
    files,       \* local files, and what each holds
    claimed,     \* what execution.json says of the kube-burner measurement
    reviewed,    \* policies whose digest an operator has read in a preview
    store,       \* per key: Absent, or <<content, artifact-id>>
    receipts,    \* per path
    late,        \* puts of Pods whose publisher is gone
    drawn,       \* artifact ids drawn so far
    runs, edits,
    op,          \* per publisher
    job          \* the k6 Job and what its operator has reported

vars == <<files, claimed, reviewed, store, receipts, late, drawn, runs, edits, op, job>>

-----------------------------------------------------------------------------
Absent == <<>>
Produced(version) == <<version>>
Manifest(references) == <<0, references>>
Damaged == <<-1>>
Object(reference) == <<reference.content, reference.id>>

Produceable == {"measurements", "trace", "latency", "policy"}
Manifests == {"diagnostics", "rawResult"}
Captured == <<"status", "points">>
Marker == "receipt.json"
Keys == Produceable \cup Manifests \cup {"status", "points", Marker}

\* The files each publication reads; of browser results, those that the
\* diagnosticMode of the measurements demands: a baseline run has no trace.
BaselineInputs == <<"measurements">>
BrowserInputs == <<"measurements", "trace">>
DiagnosticInput == <<"diagnostics">>
RawResultInput == <<"rawResult">>
CaptureSources == <<"latency">>
PolicyInput == <<"policy">>

Inputs == [baseline |-> BaselineInputs, browser |-> BrowserInputs,
           diagnostics |-> DiagnosticInput, rawResult |-> RawResultInput,
           kubeBurner |-> CaptureSources, policy |-> PolicyInput]

IsBaseline(measurements) == measurements[1] \in Baselines

\* The files supplied are those of the mode.
SuitsMode(kind) ==
    /\ kind = "baseline" => IsBaseline(files["measurements"])
    /\ kind = "browser" => ~IsBaseline(files["measurements"])

ASSUME KindsAssumption ==
    Kinds \subseteq DOMAIN Inputs \cup {"k6"} /\ Rewritten \subseteq Produceable

Idle == [phase |-> "idle", kind |-> "none", path |-> "none", checked |-> FALSE,
         sources |-> <<>>, done |-> 0, sent |-> Absent]

NoReceipt == [state |-> "absent", references |-> {}]
Reserved == [state |-> "reserved", references |-> {}]

\* The Job has run k6 once its state is "uploading"; "outputs" are the files
\* k6 has left, "listed" the entries of the receipt so far.
NoJob == [state |-> "none", outputs |-> <<>>, listed |-> {}, verdict |-> "none"]

Init ==
    /\ files = [n \in Produceable \cup Manifests |->
                    IF n \in Produceable THEN Produced(1) ELSE Absent]
    /\ claimed = Produced(1) /\ reviewed = {}
    /\ store = [k \in Keys |-> Absent]
    /\ receipts = [r \in Paths |-> NoReceipt]
    /\ late = {} /\ drawn = 0 /\ runs = 0 /\ edits = 0
    /\ op = [p \in Publishers |-> Idle] /\ job = NoJob

-----------------------------------------------------------------------------
(* A publisher. *)

Names(p) == Inputs[op[p].kind]
AllReferenced(p) == Len(op[p].sources) = Len(Names(p))

\* The next file to read into a reference, and the next source to publish.
NextInput(p) == Names(p)[Len(op[p].sources) + 1]
Current(p) == op[p].sources[op[p].done + 1]

\* The operator of a policy has previewed it first and passes the digest on.
Begin(p, kind, path) ==
    /\ op[p].phase = "idle" /\ runs < MaxRuns[kind]
    /\ SuitsMode(kind)
    /\ \A i \in 1..Len(Inputs[kind]) : files[Inputs[kind][i]] # Absent
    /\ runs' = runs + 1
    /\ reviewed' = reviewed \cup IF kind = "policy" THEN {files["policy"]} ELSE {}
    /\ op' = [op EXCEPT ![p] = [Idle EXCEPT !.phase = "referencing", !.kind = kind,
                                            !.path = path]]
    /\ UNCHANGED <<files, claimed, store, receipts, late, drawn, edits, job>>

\* capture_sources compares the measurement with the claim in execution.json
\* and reads the file once more for its reference.
CheckClaim(p) ==
    /\ op[p].phase = "referencing" /\ op[p].kind = "kubeBurner" /\ ~AllReferenced(p)
    /\ ~op[p].checked /\ files[NextInput(p)] = claimed
    /\ op' = [op EXCEPT ![p].checked = TRUE]
    /\ UNCHANGED <<files, claimed, reviewed, store, receipts, late, drawn, runs, edits, job>>

\* artifact_reference draws the id; a policy is known by its key.
Reference(p) ==
    LET policy == op[p].kind = "policy"
        reference == [key |-> NextInput(p), id |-> IF policy THEN 0 ELSE drawn + 1,
                      content |-> files[NextInput(p)]] IN
    /\ op[p].phase = "referencing" /\ ~AllReferenced(p)
    /\ op[p].kind = "kubeBurner" => op[p].checked
    /\ policy => reference.content \in reviewed
    /\ op' = [op EXCEPT ![p].sources = Append(@, reference), ![p].checked = FALSE]
    /\ drawn' = IF policy THEN drawn ELSE drawn + 1
    /\ UNCHANGED <<files, claimed, reviewed, store, receipts, late, runs, edits, job>>

\* Mutation: the receipt is opened for writing whether or not it exists.
ReservableByAnyone(path) == receipts[path].state \in {"absent", "reserved", "complete"}

Reservable(path) == receipts[path].state = "absent"

Reserve(p) ==
    /\ op[p].phase = "referencing" /\ AllReferenced(p)
    /\ Reservable(op[p].path)
    /\ receipts' = [receipts EXCEPT ![op[p].path] = Reserved]
    /\ op' = [op EXCEPT ![p].phase = "verifying"]
    /\ UNCHANGED <<files, claimed, reviewed, store, late, drawn, runs, edits, job>>

\* source_bytes
SourceBytes(reference) == files[reference.key] = reference.content

\* The bytes of a policy were frozen when they were read.
Frozen(p) == op[p].kind = "policy"

Verify(p) ==
    /\ op[p].phase = "verifying"
    /\ ~Frozen(p) => \A i \in 1..Len(op[p].sources) : SourceBytes(op[p].sources[i])
    /\ op' = [op EXCEPT ![p].phase = "sending"]
    /\ UNCHANGED <<files, claimed, reviewed, store, receipts, late, drawn, runs, edits, job>>

\* Mutation: the file is read again when it is streamed, whatever its digest.
BytesSentUnchecked(p) == files[Current(p).key]

\* What is streamed to the Pod.
BytesSent(p) == Current(p).content

Send(p) ==
    /\ op[p].phase = "sending" /\ op[p].done < Len(op[p].sources)
    /\ ~Frozen(p) => SourceBytes(Current(p))
    /\ op' = [op EXCEPT ![p].phase = "putting", ![p].sent = BytesSent(p)]
    /\ UNCHANGED <<files, claimed, reviewed, store, receipts, late, drawn, runs, edits, job>>

\* Mutation: an object is put whatever the key holds.
PutPermittedAlways(key) == key \in Keys

\* put-object --if-none-match "*"
PutPermitted(key) == store[key] = Absent

\* The bytes that arrive are not always those that were sent.
Put(p) ==
    /\ op[p].phase = "putting" /\ PutPermitted(Current(p).key)
    /\ \E content \in {op[p].sent, Damaged} :
           store' = [store EXCEPT ![Current(p).key] = <<content, Current(p).id>>]
    /\ op' = [op EXCEPT ![p].phase = "checking"]
    /\ UNCHANGED <<files, claimed, reviewed, receipts, late, drawn, runs, edits, job>>

\* Mutation: only the metadata of the object is compared.
ReadBackOfMetadata(reference) == store[reference.key][2] = reference.id

\* get-object and head-object
ReadBackMatches(reference) == store[reference.key] = Object(reference)

ReadBack(p) ==
    /\ op[p].phase = "checking" /\ ReadBackMatches(Current(p))
    /\ op' = [op EXCEPT ![p].phase = "sending", ![p].done = @ + 1]
    /\ UNCHANGED <<files, claimed, reviewed, store, receipts, late, drawn, runs, edits, job>>

WriteReceipt(p) ==
    /\ op[p].phase = "sending" /\ op[p].done = Len(op[p].sources)
    /\ receipts' = [receipts EXCEPT ![op[p].path] =
                       [state |-> "complete",
                        references |-> {op[p].sources[i] : i \in 1..Len(op[p].sources)}]]
    /\ op' = [op EXCEPT ![p] = Idle]
    /\ UNCHANGED <<files, claimed, reviewed, store, late, drawn, runs, edits, job>>

\* A put whose answer is lost is retried and finds the key in use: the script
\* fails and the object stays. The Pod may also outlive its publisher.
Leave(p) ==
    \/ UNCHANGED late
    \/ /\ op[p].phase = "putting"
       /\ late' = late \cup {[Current(p) EXCEPT !.content = op[p].sent]}

Fail(p) ==
    /\ op[p].phase # "idle"
    /\ receipts' = IF op[p].phase = "referencing" THEN receipts
                   ELSE [receipts EXCEPT ![op[p].path] = NoReceipt]
    /\ op' = [op EXCEPT ![p] = Idle]
    /\ Leave(p)
    /\ UNCHANGED <<files, claimed, reviewed, store, drawn, runs, edits, job>>

\* Nothing is cleaned up: the empty receipt stays.
Kill(p) ==
    /\ op[p].phase \notin {"idle", "referencing"}
    /\ op' = [op EXCEPT ![p] = Idle]
    /\ Leave(p)
    /\ UNCHANGED <<files, claimed, reviewed, store, receipts, drawn, runs, edits, job>>

CarryOut(reference) ==
    /\ late' = late \ {reference}
    /\ store' = IF PutPermitted(reference.key)
                THEN [store EXCEPT ![reference.key] = Object(reference)] ELSE store
    /\ UNCHANGED <<files, claimed, reviewed, receipts, drawn, runs, edits, op, job>>

-----------------------------------------------------------------------------
(* The assemblers of manifests. *)

Measurements == {"measurements"}

\* Mutation: the receipt may be about other inputs.
UploadReferencesOfAny(path, names) ==
    /\ receipts[path].state = "complete"
    /\ \A r \in receipts[path].references : files[r.key] = r.content

\* upload_references: the receipt is complete, of these inputs, and describes
\* the local files as they are now.
UploadReferences(path, names) ==
    LET references == receipts[path].references IN
    /\ receipts[path].state = "complete"
    /\ {r.key : r \in references} = {names[i] : i \in 1..Len(names)}
    /\ \A r \in references : files[r.key] = r.content

Captures(path) == {r \in receipts[path].references : r.key \notin Measurements}

\* Files are created exclusively.
WriteManifest(name, references) ==
    /\ files[name] = Absent
    /\ files' = [files EXCEPT ![name] = Manifest(references)]
    /\ UNCHANGED <<claimed, reviewed, store, receipts, late, drawn, runs, edits, op, job>>

AssembleDiagnostics(path) ==
    /\ ~IsBaseline(files["measurements"])
    /\ UploadReferences(path, BrowserInputs)
    /\ WriteManifest("diagnostics", Captures(path))

\* The diagnostics manifest declares exactly the evidence, and has itself been
\* published.
DiagnosticReference(path, uploaded) ==
    /\ files["diagnostics"] = Manifest(Captures(path))
    /\ UploadReferences(uploaded, DiagnosticInput)

\* A raw result names the run's uploads and, but for a baseline, the diagnostics.
AssembleRawResult(path, uploaded) ==
    \/ /\ IsBaseline(files["measurements"])
       /\ UploadReferences(path, BaselineInputs)
       /\ WriteManifest("rawResult", receipts[path].references)
    \/ /\ ~IsBaseline(files["measurements"])
       /\ UploadReferences(path, BrowserInputs)
       /\ DiagnosticReference(path, uploaded)
       /\ WriteManifest("rawResult",
                        receipts[path].references \cup receipts[uploaded].references)

-----------------------------------------------------------------------------
(* The Job of k6_run.py. *)

StartJob ==
    /\ "k6" \in Kinds /\ runs < MaxRuns["k6"]
    /\ job.state = "none"
    /\ runs' = runs + 1
    /\ \E outputs \in {Captured, <<"status">>} :
           job' = [job EXCEPT !.state = "uploading", !.outputs = outputs]
    /\ UNCHANGED <<files, claimed, reviewed, store, receipts, late, drawn, edits, op>>

\* The shell function "upload" of the Job's script: put on condition, get and
\* compare. The script stops at the first failure and the Job is not retried,
\* and what has been put stays: an object that the read-back finds damaged, and
\* an intact one, when the answer is lost, the read-back fails or the deadline of
\* the Job passes. The put may also be still on its way when the Job ends.
Upload(key, content, next) ==
    \/ /\ PutPermitted(key)
       /\ store' = [store EXCEPT ![key] = <<content, 0>>]
       /\ job' = next
    \/ /\ \/ UNCHANGED store
          \/ /\ PutPermitted(key)
             /\ \E left \in {content, Damaged} : store' = [store EXCEPT ![key] = <<left, 0>>]
       /\ job' = [job EXCEPT !.state = "failed"]
    \/ /\ UNCHANGED store
       /\ job' = [job EXCEPT !.state = "cut off"]

\* The entries of the receipt for the first n outputs.
Entry(key) == [key |-> key, id |-> 0, content |-> Produced(1)]
Entries(n) == {Entry(job.outputs[i]) : i \in 1..n}

UploadsComplete == Cardinality(job.listed) = Len(job.outputs)

NextOutput == job.outputs[Cardinality(job.listed) + 1]
Listing == Manifest(Entries(Len(job.outputs)))

UploadOutput ==
    /\ job.state = "uploading" /\ Cardinality(job.listed) < Len(job.outputs)
    /\ Upload(NextOutput, Produced(1), [job EXCEPT !.listed = @ \cup {Entry(NextOutput)}])
    /\ UNCHANGED <<files, claimed, reviewed, receipts, late, drawn, runs, edits, op>>

\* Mutation: the marker is uploaded before the outputs.
UploadMarkerEarly ==
    /\ job.state = "uploading" /\ store[Marker] = Absent
    /\ Upload(Marker, Listing, job)
    /\ UNCHANGED <<files, claimed, reviewed, receipts, late, drawn, runs, edits, op>>

UploadMarker ==
    /\ job.state = "uploading" /\ UploadsComplete
    /\ Upload(Marker, Listing, [job EXCEPT !.state = "complete"])
    /\ UNCHANGED <<files, claimed, reviewed, receipts, late, drawn, runs, edits, op>>

\* The put that was on its way when the Job ended.
LateUpload ==
    /\ job.state = "cut off"
    /\ \/ /\ Cardinality(job.listed) < Len(job.outputs) /\ PutPermitted(NextOutput)
          /\ store' = [store EXCEPT ![NextOutput] = <<Produced(1), 0>>]
       \/ /\ UploadsComplete /\ PutPermitted(Marker)
          /\ store' = [store EXCEPT ![Marker] = <<Listing, 0>>]
    /\ job' = [job EXCEPT !.state = "failed"]
    /\ UNCHANGED <<files, claimed, reviewed, receipts, late, drawn, runs, edits, op>>

\* "outcome": the uploader's log says that nothing is missing.
Outcome == job.state = "complete" /\ Len(job.outputs) = Len(Captured)

\* The operator has waited for the Job to end; one that gives up after 960
\* seconds reports nothing.
ObserveJob ==
    /\ job.verdict = "none" /\ Outcome
    /\ job' = [job EXCEPT !.verdict = "captured"]
    /\ UNCHANGED <<files, claimed, reviewed, store, receipts, late, drawn, runs, edits, op>>

-----------------------------------------------------------------------------
(* People, and the tools they run. *)

Produce(n) ==
    /\ edits < MaxEdits
    /\ edits' = edits + 1
    /\ files' = [files EXCEPT ![n] = Produced(@[1] + 1)]
    /\ UNCHANGED <<claimed, reviewed, store, receipts, late, drawn, runs, op, job>>

\* The benchmark writes execution.json after its measurement.
ClaimExecution ==
    /\ claimed # files["latency"]
    /\ claimed' = files["latency"]
    /\ UNCHANGED <<files, reviewed, store, receipts, late, drawn, runs, edits, op, job>>

\* An empty receipt that no publisher is writing is removed by hand.
RemoveReceipt(path) ==
    /\ receipts[path].state = "reserved" /\ \A p \in Publishers : op[p].path # path
    /\ receipts' = [receipts EXCEPT ![path] = NoReceipt]
    /\ UNCHANGED <<files, claimed, reviewed, store, late, drawn, runs, edits, op, job>>

Publisher(p) ==
    \/ \E kind \in Kinds \ {"k6"}, path \in Paths : Begin(p, kind, path)
    \/ CheckClaim(p) \/ Reference(p) \/ Reserve(p) \/ Verify(p) \/ Send(p) \/ Put(p)
    \/ ReadBack(p) \/ WriteReceipt(p) \/ Fail(p) \/ Kill(p)

Next ==
    \/ \E p \in Publishers : Publisher(p)
    \/ \E reference \in late : CarryOut(reference)
    \/ \E path \in Paths : AssembleDiagnostics(path) \/ RemoveReceipt(path)
    \/ \E path, uploaded \in Paths : AssembleRawResult(path, uploaded)
    \/ StartJob \/ UploadOutput \/ UploadMarker \/ LateUpload \/ ObserveJob
    \/ \E n \in Rewritten : Produce(n)
    \/ ClaimExecution

Spec == Init /\ [][Next]_vars

-----------------------------------------------------------------------------
Resolves(reference) == store[reference.key] = Object(reference)

\* The references a stored object or a local file declares.
Declared(content) == IF Len(content) = 2 THEN content[2] ELSE {}
Stored(key) == IF store[key] = Absent THEN {} ELSE Declared(store[key][1])

References == UNION {receipts[path].references : path \in Paths}

Phases == {"idle", "referencing", "verifying", "sending", "putting", "checking"}

Carried(p) == {op[p].sources[i] : i \in 1..Len(op[p].sources)}
Active(p) == op[p].phase \notin {"idle", "referencing"}

TypeOK ==
    /\ DOMAIN files = Produceable \cup Manifests /\ DOMAIN store = Keys
    /\ DOMAIN receipts = Paths /\ DOMAIN op = Publishers /\ DOMAIN job = DOMAIN NoJob
    /\ \A n \in Produceable : files[n] \in {Produced(v) : v \in 1..edits + 1}
    /\ claimed \in {Produced(v) : v \in 1..edits + 1}
    /\ drawn \in Nat /\ runs \in Nat /\ edits \in 0..MaxEdits
    /\ \A path \in Paths : receipts[path].state \in {"absent", "reserved", "complete"}
    /\ job.outputs \in {<<>>, <<"status">>, Captured} /\ IsFiniteSet(job.listed)
    /\ \A p \in Publishers :
           /\ DOMAIN op[p] = DOMAIN Idle
           /\ op[p].phase \in Phases /\ op[p].kind \in DOMAIN Inputs \cup {"none"}
           /\ op[p].sources \in Seq(Carried(p))
           /\ op[p].done \in 0..Len(op[p].sources)
           /\ op[p].phase # "idle" => op[p].kind # "none" /\ op[p].path \in Paths
           /\ op[p].kind # "none" => Len(op[p].sources) <= Len(Names(p))

\* Everything a manifest refers to is stored as the manifest describes it, and
\* so is everything the local manifests will be published with: whatever was
\* interrupted, retried or rewritten, no discovery object dangles.
ManifestsResolve ==
    /\ \A k \in Manifests : \A r \in Stored(k) \cup Declared(files[k]) : Resolves(r)
    /\ \A r \in References : Resolves(r)

\* "Browser diagnostics do not declare the complete verified evidence set"
\* (browser_raw_result.py:119) is decided on local files, which may be those of
\* an older attempt of the run; what is stored agrees.  The raw result of a
\* diagnostic mode names the run's measurements, the stored diagnostics and all
\* the evidence these name; that of a baseline names its measurements alone.
DiagnosticsAgree ==
    LET measured == {r \in Stored("rawResult") : r.key \in Measurements}
        uploads(keys) == {r \in References : r.key \in keys} IN
    Stored("rawResult") # {} =>
        \/ /\ \A r \in measured : IsBaseline(r.content)
           /\ Stored("rawResult") = uploads(Measurements)
        \/ /\ \A r \in measured : ~IsBaseline(r.content)
           /\ Stored("diagnostics") # {}
           /\ Stored("rawResult") = uploads(Measurements \cup {"diagnostics"})
                                        \cup Stored("diagnostics")

\* "Last object is the completion marker. Every listed object has been read
\* back" (k6_run.py:89), also when it is stored intact and the Job fails for all
\* that, or after the Job: whoever finds the marker finds everything k6 left, as
\* listed, and a run reported as captured left everything a test produces.
CaptureMarked ==
    /\ \A r \in Stored(Marker) : Resolves(r)
    /\ Stored(Marker) # {} =>
           {r.key : r \in Stored(Marker)} = {job.outputs[i] : i \in 1..Len(job.outputs)}
    /\ job.verdict = "captured" =>
           {r.key : r \in Stored(Marker)} = {Captured[i] : i \in 1..Len(Captured)}

\* "Execution requires --expected-sha256 from a reviewed preview"
\* (policy_publish.py:293): whatever happens to the bundle between the preview,
\* the publication and the transfer, the bytes stored as a policy are bytes
\* whose digest an operator has seen.
PolicyAsReviewed ==
    store["policy"] # Absent => store["policy"][1] \in reviewed \cup {Damaged}

\* Objects are written once, and every published receipt is about them.
Evidence == INSTANCE ImmutableEvidence WITH objects <- store, claims <- References

EvidenceSpec == Evidence!Spec

-----------------------------------------------------------------------------
(* The inductive invariant. *)

\* A receipt under way is its publisher's own, and says nothing yet.
OwnReceipt ==
    /\ \A p \in Publishers : Active(p) =>
           /\ receipts[op[p].path] = Reserved
           /\ \A q \in Publishers \ {p} : Active(q) => op[q].path # op[p].path
    /\ \A path \in Paths :
           receipts[path].state # "complete" => receipts[path].references = {}

\* The sources counted as done have been stored as their references say.
DoneIsStored ==
    \A p \in Publishers :
        /\ ~Active(p) => op[p].done = 0
        /\ op[p].phase \in {"putting", "checking"} => op[p].done < Len(op[p].sources)
        /\ op[p].phase = "putting" => op[p].sent = Current(p).content
        /\ \A i \in 1..op[p].done : Resolves(op[p].sources[i])

\* Wherever bytes are, what they refer to is stored already.
Grounded(content) == \A r \in Declared(content) : r.key \in Keys /\ Resolves(r)

\* A reference that may yet be put.
Puttable(reference) ==
    /\ DOMAIN reference = {"key", "id", "content"}
    /\ reference.key \in Keys /\ Grounded(reference.content)
    /\ reference.key = "policy" => reference.content \in reviewed

AllGrounded ==
    /\ \A n \in DOMAIN files : Grounded(files[n])
    /\ \A reference \in late \cup UNION {Carried(p) : p \in Publishers} : Puttable(reference)
    /\ \A k \in Manifests : \A r \in Stored(k) : r.key \in Keys /\ Resolves(r)
    /\ \A r \in References : r.key \in Keys /\ Resolves(r)

IsReference(r) ==
    /\ r = [key |-> r.key, id |-> r.id, content |-> r.content]
    /\ r.key \in Produceable \cup Manifests

\* A manifest on its way to the store, or there, is the local one: that is
\* written once and before it is referenced.
ManifestsAsLocal ==
    /\ \A r \in late \cup References \cup UNION {Carried(p) : p \in Publishers} :
           IsReference(r) /\ (r.key \in Manifests => r.content \in {Absent, files[r.key]})
    /\ \A k \in Manifests :
           store[k] # Absent => store[k][1] \in {Absent, Damaged, files[k]}

\* The local raw result was assembled from the receipt of a baseline, or from
\* these two.
AssembledBaseline(path) ==
    /\ {r.key : r \in receipts[path].references} = {"measurements"}
    /\ \A r \in receipts[path].references : IsBaseline(r.content)
    /\ files["rawResult"] = Manifest(receipts[path].references)

AssembledFrom(path, uploaded) ==
    /\ {r.key : r \in receipts[path].references} = {"measurements", "trace"}
    /\ \A r \in receipts[path].references : r.key \in Measurements => ~IsBaseline(r.content)
    /\ {r.key : r \in receipts[uploaded].references} = {"diagnostics"}
    /\ files["diagnostics"] = Manifest(Captures(path))
    /\ \A r \in receipts[uploaded].references : r.content = files["diagnostics"]
    /\ files["rawResult"] =
           Manifest(receipts[path].references \cup receipts[uploaded].references)

RawResultAssembled ==
    files["rawResult"] # Absent =>
        \E path, uploaded \in Paths : AssembledBaseline(path) \/ AssembledFrom(path, uploaded)

\* The Job uploads in order, and its marker last: when it has failed, the marker
\* is missing, damaged or, the Job having uploaded everything, intact.
JobInOrder ==
    /\ job.state \in {"none", "uploading", "cut off", "complete", "failed"}
    /\ \E n \in 0..Len(job.outputs) : job.listed = Entries(n)
    /\ \A r \in job.listed : Resolves(r)
    /\ job.state = "none" => job.listed = {}
    /\ job.state \in {"none", "uploading", "cut off"} => store[Marker] = Absent
    /\ job.state = "failed" => \/ store[Marker] \in {Absent, <<Damaged, 0>>}
                              \/ /\ job.listed = Entries(Len(job.outputs))
                                 /\ store[Marker] = <<Manifest(job.listed), 0>>
    /\ job.state = "complete" =>
           /\ job.listed = Entries(Len(job.outputs))
           /\ store[Marker] = <<Manifest(job.listed), 0>>
    /\ job.verdict = "captured" => job.state = "complete" /\ job.outputs = Captured

PublicationInv == /\ TypeOK /\ OwnReceipt /\ DoneIsStored /\ AllGrounded /\ PolicyAsReviewed
                  /\ ManifestsAsLocal /\ RawResultAssembled /\ JobInOrder
=============================================================================
