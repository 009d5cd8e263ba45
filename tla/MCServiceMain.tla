--------------------------- MODULE MCServiceMain ---------------------------
(***************************************************************************)
(* An instance of ServiceMain for TLC.                                     *)
(***************************************************************************)
EXTENDS ServiceMain

CONSTANTS w1, w2

TwoWorkers == {w1, w2}
UpToThree == 0..3
=============================================================================
