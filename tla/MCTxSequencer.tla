--------------------------- MODULE MCTxSequencer ----------------------------
EXTENDS TxSequencer

\* A rig that hears every command and is heard; one that may refuse or fall
\* silent without acting.
MCFaithful == {[ok |-> TRUE, acts |-> TRUE]}
MCRefusing == MCFaithful \cup {[ok |-> FALSE, acts |-> FALSE]}
=============================================================================
