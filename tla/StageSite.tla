----------------------------- MODULE StageSite ------------------------------
(***************************************************************************)
(* stagePost down to the directories: the requests of LivePosts, with the  *)
(* steps of FolderSwap in the place where LivePosts has one step for the   *)
(* whole of prerenderPost.                                                 *)
(*                                                                         *)
(* A request is also the thread of its own call: from its fork to the end  *)
(* of the swap, pc[r] says where it is.  An exception of the swap reaches  *)
(* the catch clauses of StagePostOp in the same step; a kill freezes all   *)
(* calls where they are, and the restarted process knows nothing of them   *)
(* but what is in the directories.  The renderings of a page are numbered  *)
(* by FolderSwap, the versions of a row by LivePosts: ver[r] is the row    *)
(* version that rendering number rver[r] was made from.                    *)
(*                                                                         *)
(* site and shown, which are part of LivePosts, are histories here: what   *)
(* was last, and what was ever, put in place.  What a reader finds is      *)
(* final.                                                                  *)
(***************************************************************************)
EXTENDS LivePosts

CONSTANTS
    Absent, Torn, \* see FolderSwap
    SwapFaults    \* the calls of the swap that may fail

VARIABLES
    staging, final, backup, renders, pc, page, rver, outcome \* of FolderSwap

FS == INSTANCE FolderSwap
        WITH Threads <- Requests, Pages <- Posts, ver <- rver,
             crashes <- restarts, Faults <- SwapFaults,
             MaxRenders <- Cardinality(Requests), MaxCrashes <- MaxRestarts

dirs == <<staging, final, backup>>
swap == <<dirs, renders, pc, page, rver, outcome>>
siteVars == <<vars, swap>>

\* A post is staged again only after the last answer (what happens otherwise is
\* FolderSwap's to say), the renderer may fail but its pipes and its child can
\* be made, and the rename that rolls back does not fail.
ASSUME SiteAssumption == /\ IsFiniteSet(Requests) /\ Posts # {}
                         /\ Absent \notin Nat /\ Torn \notin Nat /\ Absent # Torn
                         /\ ~Overlap
                         /\ "render" \in Faults /\ "skip" \notin Faults
                         /\ SwapFaults \subseteq FS!Calls \ {"rollback"}

SiteInit ==
    /\ Init
    /\ staging = [p \in Posts |-> Absent]
    /\ final = [p \in Posts |-> Absent]
    /\ backup = [p \in Posts |-> Absent]
    /\ renders = [p \in Posts |-> 0]
    /\ pc = [r \in Requests |-> "idle"]
    /\ page = [r \in Requests |-> CHOOSE p \in Posts : TRUE]
    /\ rver = [r \in Requests |-> 0]
    /\ outcome = [r \in Requests |-> "none"]

----------------------------------------------------------------------------
\* The version of the row of p that its rendering number n shows.
RowVersion(p, n) ==
    ver[CHOOSE r \in Requests : post[r] = p /\ rver[r] = n]

\* The steps of all requests but those inside prerenderPost.
Outside(r) ==
    /\ \/ \E p \in Posts \union {NoPost} : Accept(r, p)
       \/ Handler(r)
    /\ UNCHANGED swap

\* The payload goes to a new child, which begins to write.
Fork(r) ==
    /\ Alive
    /\ st[r] = "render" /\ pc[r] = "idle"
    /\ FS!StartRender(r, post[r])
    /\ UNCHANGED vars

\* Everything from the child's answer to the second rename, and the removal of
\* the backup after it.
InSwap(r) ==
    /\ Alive
    /\ FS!FinishRender(r) \/ FS!CheckStaging(r) \/ FS!ClearBackup(r)
         \/ FS!ClearBackupDir(r) \/ FS!CheckFinal(r) \/ FS!Stash(r)
         \/ FS!Cleanup(r) \/ FS!CleanupDir(r)
    /\ pc'[r] = "idle" => outcome'[r] = "ok"
    /\ UNCHANGED vars

\* The rename of stagingDir to finalDir puts a version on the site; what is
\* left of prerenderPost cannot fail.
InstallPage(r) ==
    LET p == post[r]
        v == RowVersion(p, staging[p]) IN
    /\ Alive
    /\ FS!Install(r)
    /\ \/ /\ pc'[r] = "cleanup"
          /\ site' = [site EXCEPT ![p] = v]
          /\ shown' = shown \union {<<p, v>>}
          /\ Goto(r, "publish")
          /\ UNCHANGED <<row, events>>
       \/ /\ pc'[r] = "rollback"
          /\ UNCHANGED <<st, reply, world>>
    /\ UNCHANGED <<process, kind, post, res, clears, ver>>

\* Faulty variant: the exception of a failed child or swap is swallowed.
Throw_Swallowed(r) ==
    /\ Alive
    /\ FS!FailRender(r) \/ FS!CheckStaging(r) \/ FS!Stash(r) \/ FS!Rollback(r)
    /\ pc'[r] = "idle"
    /\ Goto(r, "publish")
    /\ UNCHANGED <<process, kind, post, res, clears, ver, world>>

\* The child fails, or the swap throws: prerenderPost ends with an exception.
Throw(r) ==
    /\ Alive
    /\ FS!FailRender(r) \/ FS!CheckStaging(r) \/ FS!Stash(r) \/ FS!Rollback(r)
    /\ pc'[r] = "idle"
    /\ Caught(r)
    /\ UNCHANGED <<restarts, kind, post, res, ver, world>>

\* Faulty variant: an exception of the redis sender is swallowed.
Publish_Swallows(r) ==
    /\ pc[r] = "idle"
    /\ PublishEvent_Swallows(r)
    /\ UNCHANGED swap

\* prerenderPost has returned: the event is published.
Publish(r) ==
    /\ pc[r] = "idle"
    /\ PublishEvent(r)
    /\ UNCHANGED swap

RestartSite == Restart /\ FS!Crash

SiteNext ==
    \/ \E r \in Requests : \/ Outside(r) \/ Fork(r) \/ InSwap(r) \/ InstallPage(r)
                           \/ Throw(r) \/ Publish(r)
    \/ (Stop \/ Exit \/ Crash \/ Quiescent) /\ UNCHANGED swap
    \/ RestartSite

SiteSpec == SiteInit /\ [][SiteNext]_siteVars

----------------------------------------------------------------------------
\* The inductive invariant: those of the parts, and how they fit together.
Served(r) ==
    /\ kind[r] = "stage" /\ res[r] = "row"
    /\ st[r] = "publish" \/ reply[r] = "success"

CallInv(r) ==
    /\ pc[r] # "idle" => page[r] = post[r] /\ rver[r] # 0
    /\ pc[r] \in {"cleanup", "cleanupDir"} => st[r] = "publish"
    /\ pc[r] \notin {"idle", "cleanup", "cleanupDir"} => st[r] = "render"
    /\ rver[r] # 0 => post[r] \in Posts /\ rver[r] <= renders[post[r]]
    /\ rver[r] # 0 => \A o \in Requests \ {r} : post[o] = post[r] => rver[o] # rver[r]
    /\ st[r] \in (Fresh \union {"result"}) \ {"orphan"} => rver[r] = 0
    /\ Served(r) /\ ver[r] = row[post[r]] => final[post[r]] = rver[r]

SiteIInv ==
    /\ IInv
    /\ SerialInv
    /\ FS!IInv
    /\ \A r \in Requests : CallInv(r)

\* Where the whole copy of a page is: on the site or aside; or, when a kill had
\* left it aside and step 2 has removed it, in the staging directory of the call
\* that found it so.  If that call could not install it, its exception says so.
GaveUp(r) == outcome[r] = "install"

CopyInv ==
    /\ \A r \in Requests : GaveUp(r) => st[r] \in {"reply", "done"}
    /\ \A p \in Posts :
         /\ restarts = 0 /\ site[p] # 0 => FS!Stored(p) # Absent
         /\ restarts = 1 /\ site[p] # 0
              => \/ FS!Stored(p) \in Nat
                 \/ /\ final[p] = Absent
                    /\ \E r \in Requests :
                         /\ page[r] = p
                         /\ pc[r] \in {"clearDir", "check", "install", "rollback"}
                 \/ \E r \in Requests : post[r] = p /\ GaveUp(r)

\* stagePost with all the steps of the swap does nothing that LivePosts, where
\* prerenderPost is one step, does not do.
ImplementsLivePosts == Spec

\* The directory that readers find holds the rendering of the newest version
\* of the row, once its request was answered with success.
NewestIsServed ==
    \A r \in Requests :
        /\ kind[r] = "stage" /\ res[r] = "row" /\ reply[r] = "success"
        /\ ver[r] = row[post[r]]
        => final[post[r]] = rver[r]

\* After one kill of the process at any point, and whatever the restarted one
\* does, a whole copy of every page that was once on the site is still on disk,
\* unless the rename of a later staging failed too.
CopySurvives ==
    restarts <= 1 =>
        \A p \in Posts :
            site[p] # 0 => \/ \E d \in {staging[p], final[p], backup[p]} : d \in Nat
                           \/ \E r \in Requests : post[r] = p /\ outcome[r] = "install"

\* When main has returned after a signal, no swap was cut in half: every page
\* that was put on the site is there, and was announced unless the redis sender
\* threw.
ExitIsOrderly ==
    life = "exited" /\ restarts = 0
        => /\ \A p \in Posts : site[p] # 0 => final[p] \in Nat
           /\ \A e \in shown \ events :
                 \E r \in Requests : e = <<post[r], ver[r]>> /\ reply[r] = "error"
=============================================================================
