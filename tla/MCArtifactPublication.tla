----------------------- MODULE MCArtifactPublication -----------------------
EXTENDS ArtifactPublication, TLC

\* Evidence is published at most twice, before, after or beside one another, and
\* then what is assembled of it: up to four runs, the Job included.
MCMaxRuns == [kind \in Kinds |-> CASE kind = "rawResult" -> 4
                                   [] kind = "diagnostics" -> 3
                                   [] OTHER -> 2]

Symmetry == Permutations(Publishers) \cup Permutations(Paths)
=============================================================================
