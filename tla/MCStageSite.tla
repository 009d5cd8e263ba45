--------------------------- MODULE MCStageSite -----------------------------
(***************************************************************************)
(* Instances of StageSite for TLC.                                         *)
(***************************************************************************)
EXTENDS StageSite, TLC

CONSTANTS r1, r2, r3, p1, p2

ThreeRequests == {r1, r2, r3}
TwoPosts == {p1, p2}

Staging == {"stage"}

\* Everything but prerenderPost returning with nothing done.
LoudFaults == AllFaults \ {"skip"}
\* Every call may fail but the rename that rolls back.
ForwardFaults == {"parent", "remove", "exists", "stash", "install"}

Symmetry == Permutations(Requests)
=============================================================================
