-------------------------- MODULE DatabaseUpgrade --------------------------
(***************************************************************************)
(* What the database workflows promise of the control plane's database,    *)
(* whoever runs them, how often and however they end: the schema moves     *)
(* forward only, the runtime role is granted what the schema of that       *)
(* moment has, and a preparation that succeeds leaves the selected schema  *)
(* with the grants for it.                                                 *)
(***************************************************************************)
VARIABLES
    schema,    \* "absent", "older" or "selected"
    granted,   \* the schema for which grants were last made, or "none"
    prepared   \* preparations that have succeeded

upgradeVars == <<schema, granted, prepared>>

Init ==
    /\ schema \in {"absent", "older", "selected"}
    /\ granted \in {"none", "older", "selected"}
    /\ granted = "selected" => schema = "selected"
    /\ prepared = {}

Migrate ==
    /\ schema' = "selected"
    /\ UNCHANGED <<granted, prepared>>

Grant ==
    /\ schema # "absent"
    /\ granted' = schema
    /\ UNCHANGED <<schema, prepared>>

Prepare(w) ==
    /\ schema = "selected" /\ granted = "selected"
    /\ prepared' = prepared \cup {w}
    /\ UNCHANGED <<schema, granted>>

Next == Migrate \/ Grant \/ \E w \in prepared' : Prepare(w)

Spec == Init /\ [][Next]_upgradeVars
=============================================================================
