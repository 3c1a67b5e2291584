------------------------- MODULE MCWrfcController -------------------------
(***************************************************************************)
(* Deployments of the review chains for TLC: with git the chains have      *)
(* worktrees of their own, and commits may be left to the user.            *)
(***************************************************************************)
EXTENDS WrfcController

Worktrees == [isolated |-> TRUE, autoCommit |-> TRUE]
WorktreesUncommitted == [isolated |-> TRUE, autoCommit |-> FALSE]
Plain == [isolated |-> FALSE, autoCommit |-> TRUE]

Defaults == {Worktrees, Plain}
Uncommitted == {WorktreesUncommitted}
=============================================================================
