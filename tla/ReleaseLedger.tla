--------------------------- MODULE ReleaseLedger ---------------------------
(***************************************************************************)
(* What the release ledger promises while only the release workflows write *)
(* to it: an append-only register of adoption receipts, at most one for a  *)
(* request, and one current pointer, set once, to a receipt that is        *)
(* stored.  An adoption is a pair of these records.                        *)
(*                                                                         *)
(* Nothing is said here of workflows, mutexes, requests under way or lost  *)
(* responses: a create takes effect in one step or not at all.             *)
(***************************************************************************)
EXTENDS FiniteSets

VARIABLES
    receipts,   \* stored receipts, each with its request digest and UID
    pointer,    \* the current pointer: empty or a single record
    adopted     \* pairs of receipt and pointer published as a baseline

ledgerVars == <<receipts, pointer, adopted>>

\* The pointer record p names the incarnation r of the receipt of its request.
Names(p, r) == p.digest = r.digest /\ p.receipt = r.uid

Init ==
    /\ receipts = {}
    /\ pointer = {}
    /\ adopted = {}

Record(r) ==
    /\ \A s \in receipts : s.digest # r.digest /\ s.uid # r.uid
    /\ receipts' = receipts \cup {r}
    /\ UNCHANGED <<pointer, adopted>>

Point(p) ==
    /\ pointer = {}
    /\ \E r \in receipts : Names(p, r)
    /\ pointer' = {p}
    /\ UNCHANGED <<receipts, adopted>>

Publish(r, p) ==
    /\ Names(p, r)
    /\ adopted' = adopted \cup {[receipt |-> r, pointer |-> p]}
    /\ UNCHANGED <<receipts, pointer>>

Next ==
    \/ \E r \in receipts' : Record(r)
    \/ \E p \in pointer' : Point(p)
    \/ \E r \in receipts, p \in pointer : Publish(r, p)

Spec == Init /\ [][Next]_ledgerVars
=============================================================================
