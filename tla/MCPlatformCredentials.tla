----------------------- MODULE MCPlatformCredentials -----------------------
EXTENDS PlatformCredentials, TLC

Symmetry == Permutations(Operators)
=============================================================================
