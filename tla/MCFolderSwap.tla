--------------------------- MODULE MCFolderSwap ---------------------------
(***************************************************************************)
(* Instances of FolderSwap for TLC.                                        *)
(***************************************************************************)
EXTENDS FolderSwap

CONSTANTS t1, t2, p1, p2

TwoThreads == {t1, t2}
OnePage == {p1}
TwoPages == {p1, p2}

NoFaults == {}

\* Every call may fail but the rename that rolls back.
ForwardFaults == {"parent", "remove", "exists", "stash", "install"}
=============================================================================
