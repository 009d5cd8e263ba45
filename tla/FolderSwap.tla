---------------------------- MODULE FolderSwap -----------------------------
(***************************************************************************)
(* Publishing one prerendered post: the node child writes the page into    *)
(* its staging directory, then swap_single_post / atomic_folder_swap of    *)
(* livepostsvc/prerender/Prerender.cpp moves it over the final directory.  *)
(*                                                                         *)
(* The file system is three directories per page: staging, final and       *)
(* backup (final + ".bak").  A directory is Absent, or holds one version   *)
(* of the page (a number: the renderings of the page are numbered in the   *)
(* order they begin), or is Torn: a tree half written or half deleted,     *)
(* empty or not.  Every call of std::filesystem that reads or changes a    *)
(* directory is one step, so the calls of several io_context threads       *)
(* interleave; remove_all is two steps (unlink the entries, remove the     *)
(* directory).  exists(backup) followed by remove_all or rename of backup  *)
(* is one step: both are no-ops when the directory is gone, so testing     *)
(* first changes nothing.  A test that fails and so says no is then the    *)
(* same as a remove_all, or a rename, that fails.                          *)
(***************************************************************************)
EXTENDS Integers

CONSTANTS
    Threads,     \* the io_context threads, each in at most one prerenderPost
    Pages,       \* the pages, one for each finalDir
    Absent,      \* no such directory
    Torn,        \* an incomplete directory
    Overlap,     \* may two calls for the same page be in progress at once?
    Faults,      \* the calls that may fail with an I/O error
    MaxRenders,  \* bound: renderings of each page
    MaxCrashes   \* bound: crashes of the service

Calls == {"parent", "remove", "exists", "stash", "install", "rollback"}

ASSUME ContentAssumption == /\ Absent \notin Nat
                            /\ Torn \notin Nat
                            /\ Absent # Torn
ASSUME ParameterAssumption == /\ Overlap \in BOOLEAN
                              /\ Faults \subseteq Calls
                              /\ MaxRenders \in Nat
                              /\ MaxCrashes \in Nat

VARIABLES
    staging, final, backup,  \* the directories of each page
    renders,                 \* renderings begun, for each page
    pc,                      \* where each thread is in prerenderPost
    page, ver,               \* the page a thread publishes, and its version
    outcome,                 \* how a thread's last call ended
    crashes                  \* crashes so far

dirs == <<staging, final, backup>>
vars == <<staging, final, backup, renders, pc, page, ver, outcome, crashes>>

Content == Nat \union {Absent, Torn}
Steps == {"idle", "render", "sanity", "clear", "clearDir", "check", "stash",
          "install", "rollback", "cleanup", "cleanupDir"}
\* "parent", "stash" and "install" are the AtomicFolderSwapErrors those calls
\* raise, "staging" the one of the sanity check, "render" a failed child.
Outcomes == {"none", "ok", "render", "staging", "parent", "stash", "install"}

TypeOK ==
    /\ staging \in [Pages -> Content]
    /\ final \in [Pages -> Content]
    /\ backup \in [Pages -> Content]
    /\ renders \in [Pages -> Nat]
    /\ pc \in [Threads -> Steps]
    /\ page \in [Threads -> Pages]
    /\ ver \in [Threads -> Nat]
    /\ outcome \in [Threads -> Outcomes]
    /\ crashes \in Nat

Init ==
    /\ staging = [p \in Pages |-> Absent]
    /\ final = [p \in Pages |-> Absent]
    /\ backup = [p \in Pages |-> Absent]
    /\ renders = [p \in Pages |-> 0]
    /\ pc = [t \in Threads |-> "idle"]
    /\ page \in [Threads -> Pages]
    /\ ver = [t \in Threads |-> 0]
    /\ outcome = [t \in Threads |-> "none"]
    /\ crashes = 0

----------------------------------------------------------------------------
InFlight(p) == \E t \in Threads : pc[t] # "idle" /\ page[t] = p

Goto(t, step) ==
    /\ pc' = [pc EXCEPT ![t] = step]
    /\ UNCHANGED <<renders, page, ver, outcome, crashes>>

\* prerenderPost returns (result "ok") or an exception leaves it.
End(t, result) ==
    /\ pc' = [pc EXCEPT ![t] = "idle"]
    /\ outcome' = [outcome EXCEPT ![t] = result]
    /\ UNCHANGED <<renders, page, ver, crashes>>

\* rename(2) of a directory: the source must exist and the target must not,
\* unless it is empty (a Torn directory may be).
CanRename(src, dst) == src # Absent /\ dst \in {Absent, Torn}
RenameFails(src, dst) == src = Absent \/ dst # Absent

\* The two steps of remove_all(backup); its error code is ignored.
Unlink(p) ==
    /\ \/ backup' = [backup EXCEPT ![p] = IF @ = Absent THEN Absent ELSE Torn]
       \/ "remove" \in Faults /\ UNCHANGED backup
    /\ UNCHANGED <<staging, final>>

RemoveDir(p) ==
    /\ \/ backup' = [backup EXCEPT ![p] = IF @ = Torn THEN Absent ELSE @]
       \/ "remove" \in Faults /\ UNCHANGED backup
    /\ UNCHANGED <<staging, final>>

----------------------------------------------------------------------------
\* The child begins to write page p into its staging directory.
StartRender(t, p) ==
    /\ pc[t] = "idle"
    /\ Overlap \/ ~InFlight(p)
    /\ renders[p] < MaxRenders
    /\ staging' = [staging EXCEPT ![p] = Torn]
    /\ renders' = [renders EXCEPT ![p] = @ + 1]
    /\ page' = [page EXCEPT ![t] = p]
    /\ ver' = [ver EXCEPT ![t] = renders[p] + 1]
    /\ pc' = [pc EXCEPT ![t] = "render"]
    /\ outcome' = [outcome EXCEPT ![t] = "none"]
    /\ UNCHANGED <<final, backup, crashes>>

\* The child is done and has reported its result.  What it wrote last is
\* incomplete if the directory was moved away under it.
FinishRender(t) ==
    /\ pc[t] = "render"
    /\ staging' = [staging EXCEPT
                     ![page[t]] = IF @ = Absent THEN Torn ELSE ver[t]]
    /\ Goto(t, "sanity")
    /\ UNCHANGED <<final, backup>>

\* The child died or reported an error: prerenderPost throws before the swap.
FailRender(t) ==
    /\ pc[t] = "render"
    /\ End(t, "render")
    /\ UNCHANGED dirs

\* 1. Basic sanity checks, and the parent of finalDir.
CheckStaging(t) ==
    /\ pc[t] = "sanity"
    /\ \/ staging[page[t]] # Absent /\ Goto(t, "clear")
       \/ staging[page[t]] = Absent /\ End(t, "staging")
       \/ staging[page[t]] # Absent /\ "parent" \in Faults /\ End(t, "parent")
    /\ UNCHANGED dirs

\* 2. Remove any previous leftover backup.
ClearBackup(t) ==
    /\ pc[t] = "clear"
    /\ Unlink(page[t])
    /\ Goto(t, "clearDir")

ClearBackupDir(t) ==
    /\ pc[t] = "clearDir"
    /\ RemoveDir(page[t])
    /\ Goto(t, "check")

\* 3. If finalDir exists, move it to backupDir.  exists(finalDir, ec) that fails
\* says no, and nothing is moved.
CheckFinal(t) ==
    /\ pc[t] = "check"
    /\ \/ final[page[t]] # Absent /\ Goto(t, "stash")
       \/ /\ final[page[t]] = Absent \/ "exists" \in Faults
          /\ Goto(t, "install")
    /\ UNCHANGED dirs

\* Faulty variant: finalDir is removed instead of moved aside.
Stash_Deletes(t) ==
    /\ pc[t] = "stash"
    /\ final' = [final EXCEPT ![page[t]] = Absent]
    /\ Goto(t, "install")
    /\ UNCHANGED <<staging, backup>>

\* Move finalDir aside.
Stash(t) ==
    LET p == page[t] IN
    /\ pc[t] = "stash"
    /\ \/ /\ CanRename(final[p], backup[p])
          /\ backup' = [backup EXCEPT ![p] = final[p]]
          /\ final' = [final EXCEPT ![p] = Absent]
          /\ Goto(t, "install")
       \/ /\ RenameFails(final[p], backup[p]) \/ "stash" \in Faults
          /\ End(t, "stash")
          /\ UNCHANGED <<final, backup>>
    /\ UNCHANGED staging

\* Faulty variant: the error code of the rename is not looked at.
Install_Unchecked(t) ==
    LET p == page[t] IN
    /\ pc[t] = "install"
    /\ \/ /\ CanRename(staging[p], final[p])
          /\ final' = [final EXCEPT ![p] = staging[p]]
          /\ staging' = [staging EXCEPT ![p] = Absent]
       \/ /\ RenameFails(staging[p], final[p]) \/ "install" \in Faults
          /\ UNCHANGED <<staging, final>>
    /\ Goto(t, "cleanup")
    /\ UNCHANGED backup

\* 4. Rename stagingDir -> finalDir.
Install(t) ==
    LET p == page[t] IN
    /\ pc[t] = "install"
    /\ \/ /\ CanRename(staging[p], final[p])
          /\ final' = [final EXCEPT ![p] = staging[p]]
          /\ staging' = [staging EXCEPT ![p] = Absent]
          /\ Goto(t, "cleanup")
       \/ /\ RenameFails(staging[p], final[p]) \/ "install" \in Faults
          /\ Goto(t, "rollback")
          /\ UNCHANGED <<staging, final>>
    /\ UNCHANGED backup

\* Faulty variant: no roll back before the error is raised.
Rollback_Missing(t) ==
    /\ pc[t] = "rollback"
    /\ End(t, "install")
    /\ UNCHANGED dirs

\* Try to roll back: move backup back to finalDir.
Rollback(t) ==
    LET p == page[t] IN
    /\ pc[t] = "rollback"
    /\ \/ /\ CanRename(backup[p], final[p])
          /\ final' = [final EXCEPT ![p] = backup[p]]
          /\ backup' = [backup EXCEPT ![p] = Absent]
       \/ /\ RenameFails(backup[p], final[p]) \/ "rollback" \in Faults
          /\ UNCHANGED <<final, backup>>
    /\ End(t, "install")
    /\ UNCHANGED staging

\* 5. Cleanup: remove backupDir (best effort).
Cleanup(t) ==
    /\ pc[t] = "cleanup"
    /\ Unlink(page[t])
    /\ Goto(t, "cleanupDir")

CleanupDir(t) ==
    /\ pc[t] = "cleanupDir"
    /\ RemoveDir(page[t])
    /\ End(t, "ok")

\* The service is killed and started again: nothing of a swap in progress
\* survives but the directories, and main does not look at them.
Crash ==
    /\ crashes < MaxCrashes
    /\ crashes' = crashes + 1
    /\ pc' = [t \in Threads |-> "idle"]
    /\ outcome' = [t \in Threads |-> "none"]
    /\ UNCHANGED <<staging, final, backup, renders, page, ver>>

\* The bounds are used up and every call has ended.
Quiescent ==
    /\ \A t \in Threads : pc[t] = "idle"
    /\ \A p \in Pages : renders[p] = MaxRenders
    /\ UNCHANGED vars

Swap(t) ==
    \/ CheckStaging(t) \/ ClearBackup(t) \/ ClearBackupDir(t) \/ CheckFinal(t)
    \/ Stash(t) \/ Install(t) \/ Rollback(t) \/ Cleanup(t) \/ CleanupDir(t)

Render(t) == FinishRender(t) \/ FailRender(t)

Next ==
    \/ \E t \in Threads, p \in Pages : StartRender(t, p)
    \/ \E t \in Threads : Render(t) \/ Swap(t)
    \/ Crash
    \/ Quiescent

Spec == Init /\ [][Next]_vars

\* A thread inside prerenderPost keeps running, and its child ends.
FairSpec == Spec /\ \A t \in Threads : WF_vars(Render(t) \/ Swap(t))

----------------------------------------------------------------------------
\* The version of page p that the site still has: the one it serves, or the
\* one a swap has moved aside.
Stored(p) == IF final[p] # Absent THEN final[p] ELSE backup[p]

Store == INSTANCE PageStore WITH stored <- [p \in Pages |-> Stored(p)]

\* The swap implements PageStore: whatever the threads, the errors of the
\* calls and the rollbacks do, a page once published is never lost, never
\* incomplete and never replaced by an older rendering.
PublishesPages == Store!Spec

\* The environment under which the swap keeps PageStore's promise: a client
\* stages a page again only after its last request was answered, the rename
\* that rolls back does not fail, and the service is not killed.
Careful == ~Overlap /\ "rollback" \notin Faults
NoCrash == MaxCrashes = 0

\* The inductive invariant behind PublishesPages.  At most one call works on a
\* page; while it does, its rendering is the newest of the page, is whole in
\* staging unless it was installed, and what the site has is older until then.
\* Until a first crash the site is never torn either, and a page that is out of
\* finalDir has a thread that is about to put one there.
BeforeInstall == {"sanity", "clear", "clearDir", "check", "stash", "install"}

OneSwapPerPage ==
    \A t, u \in Threads :
        pc[t] # "idle" /\ pc[u] # "idle" /\ page[t] = page[u] => t = u

ThreadInv(t) ==
    LET p == page[t] IN
    /\ pc[t] # "idle" => ver[t] = renders[p]
    /\ pc[t] = "render" => staging[p] = Torn
    /\ pc[t] \in BeforeInstall \union {"rollback"} => staging[p] = ver[t]
    /\ pc[t] \in BeforeInstall \union {"render", "rollback"} /\ Stored(p) \in Nat
         => Stored(p) < ver[t]
    /\ pc[t] = "stash" => final[p] # Absent
    /\ pc[t] \in {"cleanup", "cleanupDir"} => final[p] = ver[t]

Stashed(p) == final[p] = Absent /\ backup[p] # Absent

PageInv(p) ==
    /\ Stored(p) \in Nat => Stored(p) <= renders[p]
    /\ backup[p] \in Nat => backup[p] <= renders[p]
    /\ crashes = 0 /\ Stashed(p)
         => \E t \in Threads : page[t] = p /\ pc[t] \in {"install", "rollback"}
    /\ crashes = 0 => Stored(p) # Torn

IInv ==
    /\ TypeOK
    /\ OneSwapPerPage
    /\ \A t \in Threads : ThreadInv(t)
    /\ \A p \in Pages : PageInv(p)

\* The page is missing from finalDir only between the rename to backupDir and
\* the rename of stagingDir (or its roll back); no error leaves it missing.
OutageOnlyInSwap ==
    \A p \in Pages :
        final[p] = Absent /\ backup[p] # Absent
            => \E t \in Threads : page[t] = p /\ pc[t] \in {"install", "rollback"}

\* A call that returns without an exception has published what its own child
\* rendered, and that is what the site serves when it returns.
ReturnMeansServed ==
    [][\A t \in Threads :
         pc[t] = "cleanupDir" /\ outcome'[t] = "ok" => final'[page[t]] = ver[t]]_vars

\* A call that fails leaves the page it found: what is served when the
\* exception is raised is what the site had when the call began to swap.
FailureKeepsPage ==
    [][\A t \in Threads :
         pc[t] # "idle" /\ outcome'[t] \in {"staging", "parent", "stash", "install"}
             /\ pc'[t] = "idle" => final'[page[t]] = Stored(page[t])]_vars

\* Under FairSpec a reader who finds no page where one was published finds it
\* again: each swap that moved a page aside puts one back.
OutageEnds ==
    \A p \in Pages : (final[p] = Absent /\ backup[p] # Absent) ~> final[p] # Absent

\* "Try to roll back: move backup back to finalDir": with no I/O error a
\* rename of stagingDir that fails leaves a page in finalDir.
RollbackRestores ==
    [][\A t \in Threads :
         pc[t] = "rollback" /\ outcome'[t] = "install" => final'[page[t]] # Absent]_vars

\* Step 2 removes only a leftover: while a backup is being deleted the page
\* itself is in finalDir.
LeftoverIsRedundant ==
    \A t \in Threads : pc[t] = "clearDir" /\ backup[page[t]] = Torn
                          => final[page[t]] # Absent

=============================================================================
