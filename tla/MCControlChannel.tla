-------------------------- MODULE MCControlChannel --------------------------
EXTENDS ControlChannel

CONSTANTS Asker, Frail

\* Invocations are alike, so that it does not matter which of two is the query;
\* a symmetry set would not be sound for liveness. Two queries never meet a
\* change of the store.
\* Managers are alike, too: the listener of one of them may fail, whenever it serves.
AskerInit == Init /\ queries \subseteq {Asker}

AskerSpec == AskerInit /\ [][Next /\ deaf' \subseteq {Frail}]_vars /\ Fairness
=============================================================================
