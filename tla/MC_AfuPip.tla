------------------------------ MODULE MC_AfuPip ------------------------------
EXTENDS AfuPip, TLC

\* Memory blocks and wsid objects are interchangeable: nothing in the
\* handler tells one from another.
MC_Symmetry == Permutations(Blocks) \cup Permutations(WsObjs)
=============================================================================
