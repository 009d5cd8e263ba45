----------------------------- MODULE PageStore -----------------------------
(***************************************************************************)
(* What publishing a prerendered post promises, without directories: every *)
(* page is either not published yet or published in one version, and a     *)
(* step replaces the version of one page by a newer one.  A published page *)
(* never disappears and never goes back.                                   *)
(***************************************************************************)
EXTENDS Integers

CONSTANTS
    Pages,      \* the published pages, one for each output directory
    Absent      \* stands for "no page"

VARIABLE stored \* stored[p] is the version of page p that the site keeps

Newer(new, old) == new \in Nat /\ (old = Absent \/ (old \in Nat /\ old < new))

Init == stored = [p \in Pages |-> Absent]

Publish(p) ==
    /\ Newer(stored'[p], stored[p])
    /\ stored' = [stored EXCEPT ![p] = stored'[p]]

Next == \E p \in Pages : Publish(p)

Spec == Init /\ [][Next]_stored
=============================================================================
