-------------------------- MODULE ImmutableEvidence --------------------------
(***************************************************************************)
(* What the publication scripts promise their readers: an object, once     *)
(* stored, keeps its bytes and its identity, and every published reference *)
(* resolves to the object it describes, for ever.                          *)
(***************************************************************************)
CONSTANTS Keys, Absent

VARIABLES
    objects,   \* what each key holds
    claims     \* the references that have been published

Resolves(reference) == objects[reference.key] = <<reference.content, reference.id>>

Init == objects = [k \in Keys |-> Absent] /\ claims = {}

Store(k) ==
    /\ objects[k] = Absent /\ objects'[k] # Absent
    /\ \A l \in Keys \ {k} : objects'[l] = objects[l]
    /\ UNCHANGED claims

Claim ==
    /\ claims \subseteq claims'
    /\ \A reference \in claims' : Resolves(reference)
    /\ UNCHANGED objects

Next == (\E k \in Keys : Store(k)) \/ Claim

Spec == Init /\ [][Next]_<<objects, claims>>
=============================================================================
