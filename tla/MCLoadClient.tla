--------------------------- MODULE MCLoadClient ----------------------------
(***************************************************************************)
(* An instance of LoadClient, and with it of CreatePost, for TLC.          *)
(***************************************************************************)
EXTENDS LoadClient

CONSTANTS r1, r2, r3, k1, k2

TwoConnections == {k1, k2}
ThreeRequests == {r1, r2, r3}
MyRequests == {r1, r2}

EveryFault == AllFaults
=============================================================================
