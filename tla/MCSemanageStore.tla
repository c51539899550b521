-------------------------- MODULE MCSemanageStore --------------------------
(***************************************************************************)
(* Small instances of the policy store for TLC.                            *)
(***************************************************************************)
EXTENDS SemanageStore, TLC

\* What fails before a commit touches the active store, or leaves a lock held.
EarlyFaults == {"sandbox", "cache", "build", "flush", "validate", "backup"}
\* What fails when directories are renamed and removed and files installed, and
\* what makes a commit give up unnoticed.
InstallFaults == {"rename", "copy", "reload", "flag", "remove"}

FlagFault == {"flag"}
BuildFault == {"build"}
ReloadFault == {"reload"}

\* Processes that create a missing store, like semodule, and processes that do not.
AnyProcess == BOOLEAN
NoCreation == {FALSE}

\* A bound: an orphaned store, of which little is claimed, is followed until no
\* commit is under way any more.
CommitUnderWay == \E h \in Handles : sh[h].pc \in CommitSteps
OrphanedBriefly == orphaned => CommitUnderWay

\* The processes are interchangeable, and so are the records.
Interchangeable == Permutations(Handles) \union Permutations(Records)

=============================================================================
