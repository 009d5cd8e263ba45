--------------------------- MODULE MCLivePosts -----------------------------
(***************************************************************************)
(* Instances of LivePosts for TLC.                                         *)
(***************************************************************************)
EXTENDS LivePosts

CONSTANTS r1, r2, p1

TwoRequests == {r1, r2}
OnePost == {p1}

EveryKind == AllKinds
Staging == {"stage"}

\* Anything may go wrong.
EveryFault == AllFaults
\* What prerenderPost and publish throw.
StagingFaults == {"render", "publish"}
=============================================================================
