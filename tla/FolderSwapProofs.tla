------------------------- MODULE FolderSwapProofs --------------------------
(***************************************************************************)
(* Proofs about FolderSwap for any threads, pages, faults and bounds.      *)
(***************************************************************************)
EXTENDS FolderSwap, TLAPS

USE ContentAssumption

LEMMA TypeStep == TypeOK /\ [Next]_vars => TypeOK'
<1> SUFFICES ASSUME TypeOK, [Next]_vars
             PROVE  TypeOK'
  OBVIOUS
<1> USE DEF TypeOK, Content, Steps, Outcomes
<1>1. ASSUME NEW t \in Threads, NEW p \in Pages, StartRender(t, p)
      PROVE  TypeOK'
  BY <1>1 DEF StartRender
<1>2. ASSUME NEW t \in Threads, Render(t)
      PROVE  TypeOK'
  <2>1. CASE FinishRender(t)
    BY <2>1 DEF FinishRender, Goto
  <2>2. CASE FailRender(t)
    BY <2>2 DEF FailRender, End, dirs
  <2> QED
    BY <1>2, <2>1, <2>2 DEF Render
<1>3. ASSUME NEW t \in Threads, Swap(t)
      PROVE  TypeOK'
  BY <1>3 DEF Swap, CheckStaging, ClearBackup, ClearBackupDir, CheckFinal,
              Stash, Install, Rollback, Cleanup, CleanupDir, Goto, End,
              Unlink, RemoveDir, dirs
<1>4. CASE Crash
  BY <1>4 DEF Crash
<1>5. CASE UNCHANGED vars
  BY <1>5 DEF vars
<1> QED
  BY <1>1, <1>2, <1>3, <1>4, <1>5 DEF Next, Quiescent

\* Whatever the environment does, every variable keeps its type: a thread's
\* step changes the directories of its own page, to a Content.
THEOREM TypeCorrect == Spec => []TypeOK
<1>1. Init => TypeOK
  BY DEF Init, TypeOK, Content, Steps, Outcomes
<1> QED
  BY <1>1, TypeStep, PTL DEF Spec

LEMMA OneSwapKept ==
  ASSUME TypeOK, OneSwapPerPage, NEW t \in Threads, Render(t) \/ Swap(t)
  PROVE  /\ OneSwapPerPage'
         /\ pc[t] # "idle"
         /\ UNCHANGED <<renders, page, ver, crashes>>
         /\ \A u \in Threads \ {t} : pc'[u] = pc[u]
BY DEF TypeOK, OneSwapPerPage, Render, Swap, FinishRender, FailRender,
       CheckStaging, ClearBackup, ClearBackupDir, CheckFinal, Stash, Install,
       Rollback, Cleanup, CleanupDir, Goto, End, Steps

LEMMA OtherPagesKept ==
  ASSUME TypeOK, NEW t \in Threads, Render(t) \/ Swap(t),
         NEW p \in Pages, p # page[t]
  PROVE  staging'[p] = staging[p] /\ final'[p] = final[p] /\ backup'[p] = backup[p]
BY DEF TypeOK, Render, Swap, FinishRender, FailRender, CheckStaging,
       ClearBackup, ClearBackupDir, CheckFinal, Stash, Install, Rollback,
       Cleanup, CleanupDir, Goto, End, Unlink, RemoveDir, dirs

LEMMA OwnPageKept ==
  ASSUME Careful, IInv, NEW t \in Threads, Render(t) \/ Swap(t)
  PROVE  ThreadInv(t)' /\ PageInv(page[t])'
<1> DEFINE p == page[t]
<1> USE DEF Content, Steps
<1>1. /\ p \in Pages /\ p = page'[t]
      /\ t \in Threads
      /\ renders[p] \in Nat /\ ver[t] \in Nat
      /\ ThreadInv(t) /\ PageInv(p) /\ TypeOK
      /\ \A u \in Threads \ {t} : page[u] = p => pc[u] = "idle"
  BY OneSwapKept DEF IInv, TypeOK, OneSwapPerPage
<1> HIDE DEF p
<1>2. CASE FinishRender(t)
  BY <1>1, <1>2 DEF p, FinishRender, Goto, TypeOK, ThreadInv, PageInv, Stashed, Stored, BeforeInstall
<1>3. CASE FailRender(t)
  BY <1>1, <1>3 DEF p, FailRender, End, dirs, TypeOK, ThreadInv, PageInv, Stashed, Stored, BeforeInstall
<1>4. CASE CheckStaging(t)
  BY <1>1, <1>4 DEF p, CheckStaging, Goto, End, dirs, TypeOK, ThreadInv, PageInv, Stashed, Stored, BeforeInstall
<1>5. CASE ClearBackup(t)
  BY <1>1, <1>5 DEF p, ClearBackup, Unlink, Goto, TypeOK, ThreadInv, PageInv, Stashed, Stored, BeforeInstall
<1>6. CASE ClearBackupDir(t)
  BY <1>1, <1>6 DEF p, ClearBackupDir, RemoveDir, Goto, TypeOK, ThreadInv, PageInv, Stashed, Stored, BeforeInstall
<1>7. CASE CheckFinal(t)
  BY <1>1, <1>7 DEF p, CheckFinal, Goto, dirs, TypeOK, ThreadInv, PageInv, Stashed, Stored, BeforeInstall
<1>8. CASE Stash(t)
  BY <1>1, <1>8 DEF p, Stash, CanRename, Goto, End, TypeOK, ThreadInv, PageInv, Stashed, Stored, BeforeInstall
<1>9. CASE Install(t)
  BY <1>1, <1>9 DEF p, Install, CanRename, Goto, TypeOK, ThreadInv, PageInv, Stashed, Stored, BeforeInstall
<1>10. CASE Rollback(t)
  BY <1>1, <1>10 DEF p, Rollback, CanRename, RenameFails, Careful, End, TypeOK, ThreadInv, PageInv, Stashed, Stored, BeforeInstall
<1>11. CASE Cleanup(t)
  BY <1>1, <1>11 DEF p, Cleanup, Unlink, Goto, TypeOK, ThreadInv, PageInv, Stashed, Stored, BeforeInstall
<1>12. CASE CleanupDir(t)
  BY <1>1, <1>12 DEF p, CleanupDir, RemoveDir, End, TypeOK, ThreadInv, PageInv, Stashed, Stored, BeforeInstall
<1> QED
  BY <1>2, <1>3, <1>4, <1>5, <1>6, <1>7, <1>8, <1>9, <1>10, <1>11, <1>12
     DEF Render, Swap

----------------------------------------------------------------------------
LEMMA StartKeeps ==
  ASSUME Careful, IInv, NEW t \in Threads, NEW p \in Pages, StartRender(t, p)
  PROVE  /\ OneSwapPerPage'
         /\ \A u \in Threads : ThreadInv(u)'
         /\ \A q \in Pages : PageInv(q)'
<1>1. /\ TypeOK /\ OneSwapPerPage /\ PageInv(p)
      /\ pc[t] = "idle" /\ \A u \in Threads : page[u] = p => pc[u] = "idle"
  BY DEF IInv, StartRender, InFlight, Careful
<1>2. OneSwapPerPage'
  BY <1>1 DEF StartRender, TypeOK, OneSwapPerPage, Steps
<1>3. ASSUME NEW u \in Threads
      PROVE  ThreadInv(u)'
  <2>1. CASE u = t
    BY <1>1, <2>1 DEF StartRender, TypeOK, ThreadInv, PageInv, Stored,
                      BeforeInstall, Content
  <2>2. CASE u # t
    BY <1>1, <2>2 DEF IInv, StartRender, TypeOK, ThreadInv, Stored,
                      BeforeInstall, Steps
  <2> QED
    BY <2>1, <2>2
<1>4. ASSUME NEW q \in Pages
      PROVE  PageInv(q)'
  BY <1>1 DEF IInv, StartRender, TypeOK, PageInv, Stashed, Stored, Content
<1> QED
  BY <1>2, <1>3, <1>4

\* The bodies of Render and Swap touch one page; with OneSwapPerPage nobody
\* else works on it, so their invariants carry over.
LEMMA StepKeeps ==
  ASSUME Careful, IInv, NEW t \in Threads, Render(t) \/ Swap(t)
  PROVE  /\ OneSwapPerPage'
         /\ \A u \in Threads : ThreadInv(u)'
         /\ \A q \in Pages : PageInv(q)'
<1>1. TypeOK /\ OneSwapPerPage
  BY DEF IInv
<1>2. /\ OneSwapPerPage' /\ pc[t] # "idle"
      /\ UNCHANGED <<renders, page, ver, crashes>>
      /\ \A u \in Threads \ {t} : pc'[u] = pc[u]
  BY <1>1, OneSwapKept
<1>3. ASSUME NEW u \in Threads
      PROVE  ThreadInv(u)'
  <2>1. CASE u = t
    BY <2>1, OwnPageKept
  <2>2. CASE u # t /\ pc[u] = "idle"
    BY <1>2, <2>2 DEF ThreadInv, BeforeInstall
  <2>3. CASE u # t /\ pc[u] # "idle"
    <3>1. page[u] # page[t] /\ page[u] \in Pages
      BY <1>1, <1>2, <2>3 DEF OneSwapPerPage, TypeOK
    <3>2. /\ staging'[page[u]] = staging[page[u]]
          /\ final'[page[u]] = final[page[u]]
          /\ backup'[page[u]] = backup[page[u]]
      BY <1>1, <3>1, OtherPagesKept
    <3> QED
      BY <1>2, <2>3, <3>1, <3>2 DEF IInv, ThreadInv, Stored
  <2> QED
    BY <2>1, <2>2, <2>3
<1>4. ASSUME NEW q \in Pages
      PROVE  PageInv(q)'
  <2>1. CASE q = page[t]
    BY <1>2, <2>1, OwnPageKept DEF PageInv, Stashed, Stored
  <2>2. CASE q # page[t]
    <3>1. UNCHANGED <<staging[q], final[q], backup[q]>>
      BY <1>1, <2>2, OtherPagesKept
    <3> QED
      BY <1>2, <2>2, <3>1 DEF IInv, PageInv, Stashed, Stored
  <2> QED
    BY <2>1, <2>2
<1> QED
  BY <1>2, <1>3, <1>4

\* Used as they should be, the swaps keep the inductive invariant.
LEMMA Inductive ==
  ASSUME Careful, IInv, [Next]_vars
  PROVE  IInv'
<1>0. TypeOK'
  BY TypeStep DEF IInv
<1>1. ASSUME NEW t \in Threads, NEW p \in Pages, StartRender(t, p)
      PROVE  IInv'
  BY <1>0, <1>1, StartKeeps DEF IInv
<1>2. ASSUME NEW t \in Threads, Render(t) \/ Swap(t)
      PROVE  IInv'
  BY <1>0, <1>2, StepKeeps DEF IInv
<1>3. CASE Crash
  BY <1>0, <1>3 DEF Crash, IInv, TypeOK, OneSwapPerPage, ThreadInv, BeforeInstall, PageInv, Stored
<1>4. CASE UNCHANGED vars
  BY <1>0, <1>4 DEF vars, IInv, OneSwapPerPage, ThreadInv, PageInv, Stashed, Stored
<1> QED
  BY <1>1, <1>2, <1>3, <1>4 DEF Next, Quiescent

LEMMA InitInv == Init => IInv
<1> SUFFICES ASSUME Init
             PROVE  IInv
  OBVIOUS
<1>1. TypeOK
  BY DEF Init, TypeOK, Content, Steps, Outcomes
<1>2. OneSwapPerPage /\ \A t \in Threads : ThreadInv(t)
  BY DEF Init, OneSwapPerPage, ThreadInv, BeforeInstall
<1>3. \A p \in Pages : PageInv(p)
  BY DEF Init, PageInv, Stashed, Stored
<1> QED
  BY <1>1, <1>2, <1>3 DEF IInv

\* For any threads, pages, faults of the forward calls and bounds: used
\* carefully, the swap keeps the inductive invariant IInv.
THEOREM Invariance == ASSUME Careful PROVE Spec => []IInv
<1>1. IInv /\ [Next]_vars => IInv'
  BY Inductive
<1> QED
  BY <1>1, InitInv, PTL DEF Spec

LEMMA NeverCrashed == ASSUME NoCrash PROVE Spec => [](crashes = 0)
<1>1. Init => crashes = 0
  BY DEF Init
<1>2. crashes = 0 /\ [Next]_vars => (crashes = 0)'
  BY DEF NoCrash, Next, StartRender, Render, Swap, FinishRender, FailRender,
         CheckStaging, ClearBackup, ClearBackupDir, CheckFinal, Stash, Install,
         Rollback, Cleanup, CleanupDir, Goto, End, Crash, Quiescent, vars
<1> QED
  BY <1>1, <1>2, PTL DEF Spec

\* A page is out of finalDir only while its own swap is between two renames.
THEOREM OutageBounded == ASSUME Careful, NoCrash PROVE Spec => []OutageOnlyInSwap
<1>1. IInv /\ crashes = 0 => OutageOnlyInSwap
  BY DEF IInv, PageInv, Stashed, OutageOnlyInSwap
<1> QED
  BY <1>1, Invariance, NeverCrashed, PTL

\* A backup that step 2 is deleting is never the only copy of the page.
THEOREM LeftoverRedundant == ASSUME Careful, NoCrash PROVE Spec => []LeftoverIsRedundant
<1>1. IInv /\ crashes = 0 => LeftoverIsRedundant
  BY DEF IInv, TypeOK, PageInv, Stored, LeftoverIsRedundant
<1> QED
  BY <1>1, Invariance, NeverCrashed, PTL

\* A call that returns has published what its own child rendered.
THEOREM Served == ASSUME Careful PROVE Spec => ReturnMeansServed
<1>1. ASSUME IInv, [Next]_vars, NEW t \in Threads,
             pc[t] = "cleanupDir", outcome'[t] = "ok"
      PROVE  final'[page[t]] = ver[t]
  <2>1. final[page[t]] = ver[t] /\ page[t] \in Pages
    BY <1>1 DEF IInv, ThreadInv, TypeOK
  <2>2. CASE \E u \in Threads, p \in Pages : StartRender(u, p)
    BY <2>1, <2>2 DEF StartRender
  <2>3. ASSUME NEW u \in Threads, Render(u) \/ Swap(u)
        PROVE  final'[page[t]] = final[page[t]]
    <3>1. CASE u = t
      BY <1>1, <2>3, <3>1 DEF Render, Swap, FinishRender, FailRender,
         CheckStaging, ClearBackup, ClearBackupDir, CheckFinal, Stash, Install,
         Rollback, Cleanup, CleanupDir, RemoveDir, IInv, TypeOK, ThreadInv
    <3>2. CASE u # t
      <4>1. pc[u] # "idle" /\ TypeOK
        BY <1>1, <2>3, OneSwapKept DEF IInv
      <4>2. page[u] # page[t]
        BY <1>1, <3>2, <4>1 DEF IInv, OneSwapPerPage
      <4> QED
        BY <2>1, <2>3, <4>1, <4>2, OtherPagesKept
    <3> QED
      BY <3>1, <3>2
  <2>4. CASE Crash \/ UNCHANGED vars
    BY <2>1, <2>4 DEF Crash, vars
  <2> QED
    BY <1>1, <2>1, <2>2, <2>3, <2>4 DEF Next, Quiescent
<1>2. IInv /\ [Next]_vars
        => [\A t \in Threads :
              pc[t] = "cleanupDir" /\ outcome'[t] = "ok"
                => final'[page[t]] = ver[t]]_vars
  BY <1>1
<1> QED
  BY <1>2, Invariance, PTL DEF Spec, ReturnMeansServed

\* A call that fails leaves the page it found.
THEOREM Rollbacks == ASSUME Careful, NoCrash PROVE Spec => FailureKeepsPage
<1>1. ASSUME IInv, crashes = 0, [Next]_vars, NEW t \in Threads, pc[t] # "idle",
             outcome'[t] \in {"staging", "parent", "stash", "install"},
             pc'[t] = "idle"
      PROVE  final'[page[t]] = Stored(page[t])
  <2>1. /\ page[t] \in Pages /\ TypeOK /\ ThreadInv(t) /\ PageInv(page[t])
        /\ \A u \in Threads \ {t} : page[u] = page[t] => pc[u] = "idle"
    BY <1>1 DEF IInv, TypeOK, OneSwapPerPage
  <2>2. CASE \E u \in Threads, p \in Pages : StartRender(u, p)
    BY <1>1, <2>1, <2>2 DEF StartRender, TypeOK
  <2>3. ASSUME NEW u \in Threads, Render(u) \/ Swap(u)
        PROVE  final'[page[t]] = Stored(page[t])
    <3>1. u = t
      BY <1>1, <2>1, <2>3, OneSwapKept DEF IInv
    <3> QED
      BY <1>1, <2>1, <2>3, <3>1
         DEF Render, Swap, FinishRender, FailRender, CheckStaging, ClearBackup,
             ClearBackupDir, CheckFinal, Stash, Install, Rollback, Cleanup,
             CleanupDir, CanRename, RenameFails, Careful, Goto, End, dirs,
             TypeOK, ThreadInv, PageInv, Stashed, Stored
  <2>4. CASE Crash \/ UNCHANGED vars
    BY <1>1, <2>1, <2>4 DEF Crash, NoCrash, vars, TypeOK
  <2> QED
    BY <1>1, <2>2, <2>3, <2>4 DEF Next, Quiescent
<1>2. IInv /\ crashes = 0 /\ [Next]_vars
        => [\A t \in Threads :
              pc[t] # "idle"
              /\ outcome'[t] \in {"staging", "parent", "stash", "install"}
              /\ pc'[t] = "idle" => final'[page[t]] = Stored(page[t])]_vars
  BY <1>1
<1> QED
  BY <1>2, Invariance, NeverCrashed, PTL DEF Spec, FailureKeepsPage

----------------------------------------------------------------------------
\* What the site has of each page changes in one step of a swap, the rename
\* of stagingDir to finalDir, and only for the page being swapped.
LEMMA StoredStep ==
  ASSUME Careful, IInv, crashes = 0, NEW t \in Threads, Render(t) \/ Swap(t),
         NEW p \in Pages, p = page[t]
  PROVE  /\ \A q \in Pages \ {p} : Stored(q)' = Stored(q)
         /\ Stored(p)' # Stored(p) => Store!Newer(Stored(p)', Stored(p))
<1>1. /\ TypeOK /\ ThreadInv(t) /\ PageInv(p)
      /\ \A u \in Threads \ {t} : page[u] = page[t] => pc[u] = "idle"
  BY OneSwapKept DEF IInv, TypeOK, OneSwapPerPage
<1>2. \A q \in Pages \ {p} : Stored(q)' = Stored(q)
  BY <1>1, OtherPagesKept DEF Stored
<1>3. CASE Install(t)
  BY <1>1, <1>2, <1>3 DEF Install, CanRename, TypeOK, ThreadInv, PageInv,
                          Stored, Content, BeforeInstall, Store!Newer
<1>4. CASE ~Install(t)
  <2>1. Stored(p)' = Stored(p)
    BY <1>1, <1>4
       DEF Render, Swap, FinishRender, FailRender, CheckStaging, ClearBackup,
           ClearBackupDir, CheckFinal, Stash, Rollback, Cleanup, CleanupDir,
           CanRename, Unlink, RemoveDir, dirs, TypeOK, ThreadInv,
           PageInv, Stashed, Stored
  <2> QED
    BY <1>2, <2>1
<1> QED
  BY <1>3, <1>4

\* A call that found no page to move aside: the whole copy is its rendering.
Restaging(t) ==
    final[page[t]] = Absent /\ pc[t] \in {"clearDir", "check", "install", "rollback"}

\* Also after a crash, when step 2 may remove the only version that is left, a
\* step of a swap leaves a whole copy, unless it is the end of a roll back.
LEMMA WholeKept ==
  ASSUME Careful, IInv, NEW t \in Threads, Render(t) \/ Swap(t),
         Stored(page[t]) \in Nat \/ Restaging(t)
  PROVE  \/ Stored(page[t])' \in Nat
         \/ Restaging(t)'
         \/ pc[t] = "rollback" /\ outcome'[t] = "install"
<1> DEFINE p == page[t]
<1>1. /\ p \in Pages /\ p = page'[t] /\ ver[t] \in Nat
      /\ ThreadInv(t) /\ TypeOK
  BY OneSwapKept DEF IInv, TypeOK
<1> HIDE DEF p
<1>2. CASE Install(t)
  BY <1>1, <1>2 DEF p, Install, CanRename, Goto, TypeOK, ThreadInv, Stored, Restaging, BeforeInstall
<1>3. CASE Rollback(t)
  BY <1>1, <1>3 DEF p, Rollback, End, TypeOK
<1>4. CASE ClearBackup(t)
  BY <1>1, <1>4 DEF p, ClearBackup, Unlink, Goto, TypeOK, Stored, Restaging
<1>5. CASE Render(t) \/ CheckStaging(t) \/ ClearBackupDir(t) \/ CheckFinal(t)
  BY <1>1, <1>5
     DEF p, Render, FinishRender, FailRender, CheckStaging, ClearBackupDir,
         CheckFinal, RemoveDir, Goto, End, dirs, TypeOK, Stored, Restaging
<1>6. CASE Stash(t) \/ Cleanup(t) \/ CleanupDir(t)
  BY <1>1, <1>6, ContentAssumption
     DEF p, Stash, Cleanup, CleanupDir, CanRename, Unlink, RemoveDir, TypeOK,
         ThreadInv, Stored, Restaging
<1> QED
  BY <1>2, <1>3, <1>4, <1>5, <1>6 DEF Swap

\* Used carefully, the swap implements the abstract page store: a page once
\* published is never lost, never torn and never goes back to an older version.
THEOREM Refinement == ASSUME Careful, NoCrash PROVE Spec => PublishesPages
<1> DEFINE stored == [p \in Pages |-> Stored(p)]
<1>1. Init => Store!Init
  BY DEF Init, Store!Init, Stored
<1>2. ASSUME IInv, crashes = 0, [Next]_vars
      PROVE  [Store!Next]_stored
  <2>1. CASE \E t \in Threads, p \in Pages : StartRender(t, p)
    BY <2>1 DEF StartRender, Stored
  <2>2. ASSUME NEW t \in Threads, Render(t) \/ Swap(t)
        PROVE  [Store!Next]_stored
    <3>1. PICK r \in Pages : r = page[t]
      BY <1>2 DEF IInv, TypeOK
    <3>2. /\ \A q \in Pages \ {r} : Stored(q)' = Stored(q)
          /\ Stored(r)' # Stored(r) => Store!Newer(Stored(r)', Stored(r))
      BY <1>2, <2>2, <3>1, StoredStep
    <3>3. CASE Stored(r)' = Stored(r)
      BY <3>2, <3>3
    <3>4. CASE Stored(r)' # Stored(r)
      <4>1. stored' = [stored EXCEPT ![r] = Stored(r)']
        BY <3>2
      <4>2. Store!Publish(r)
        BY <3>2, <3>4, <4>1 DEF Store!Publish
      <4> QED
        BY <4>2 DEF Store!Next
    <3> QED
      BY <3>3, <3>4
  <2>3. CASE Crash \/ UNCHANGED vars
    BY <2>3 DEF Crash, vars, Stored
  <2> QED
    BY <1>2, <2>1, <2>2, <2>3 DEF Next, Quiescent
<1> QED
  BY <1>1, <1>2, Invariance, NeverCrashed, PTL DEF Spec, PublishesPages, Store!Spec
=============================================================================
