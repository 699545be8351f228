----------------------------- MODULE MCGateway -----------------------------
EXTENDS Gateway, TLC

\* Connections are interchangeable; only the safety runs use this.
Symmetry == Permutations(Conns)
=============================================================================
