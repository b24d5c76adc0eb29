--------------------------------- MODULE StoresMC ---------------------------------
EXTENDS Stores, TLC

CONSTANTS e1, e2, u, w1, w2, p, q

\* Saves and uses that start.  The accounts of the connector are saved twice, while it
\* works.
Begun == [triggers |-> 3, experiments |-> 3, telegram |-> 2]

Symmetry == Permutations({e1, e2}) \cup Permutations({w1, w2})
====================================================================================
