-------------------------- MODULE MCOperatorPause --------------------------
EXTENDS OperatorPause, TLC

CONSTANTS o1, o2, v1, v2

\* Versions and incarnations are only ever compared with those a script has
\* read, and every new one is fresh: what counts is whether they still agree.
View ==
    <<[r \in Resources |-> <<obj[r].switch, obj[r].rest, obj[r].phase, obj[r].status>>],
      [o \in Operators |->
          <<op[o].script, op[o].step, op[o].at, op[o].passed,
            IF At(o, "patch")
            THEN <<SameIncarnation(Resource(o), op[o].seen), SameVersion(Resource(o), op[o].seen),
                   op[o].seen.rest>>
            ELSE <<>> >>],
      pods, meddled, missing, replicaset, job, tables, granted, untouched, unsettled>>

Symmetry == Permutations(Operators) \cup Permutations(Rests)
=============================================================================
