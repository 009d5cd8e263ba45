--------------------------- MODULE MCPrerender -----------------------------
(***************************************************************************)
(* Instances of Prerender for TLC.                                         *)
(***************************************************************************)
EXTENDS Prerender

CONSTANTS c1, c2

TwoCalls == {c1, c2}

NoEnds == {}
WriteEnds == {"inW", "outW"}

NoFaults == {}
AllFaults == SystemCalls
=============================================================================
