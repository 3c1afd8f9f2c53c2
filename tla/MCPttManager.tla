---------------------------- MODULE MCPttManager ----------------------------
EXTENDS PttManager

\* Every way a setPTT() result and the rig can disagree.
MCReplies == Reply

\* A rig that hears every command and is heard.
MCFaithful == {[ok |-> TRUE, acts |-> TRUE]}
=============================================================================
