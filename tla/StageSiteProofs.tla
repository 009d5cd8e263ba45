-------------------------- MODULE StageSiteProofs --------------------------
(***************************************************************************)
(* Proofs about StageSite for any requests, posts, threads and pool.       *)
(***************************************************************************)
EXTENDS StageSite, LivePostsProofs, FiniteSetTheorems

\* The proofs about FolderSwap, for the swaps of StageSite.
FSP == INSTANCE FolderSwapProofs
        WITH Threads <- Requests, Pages <- Posts, ver <- rver,
             crashes <- restarts, Faults <- SwapFaults,
             MaxRenders <- Cardinality(Requests), MaxCrashes <- MaxRestarts

USE SiteAssumption

LEMMA SwapAssumptions ==
  FSP!ContentAssumption /\ FSP!ParameterAssumption /\ FSP!Careful
<1>1. Cardinality(Requests) \in Nat
  BY FS_CardinalityType
<1>2. SwapFaults \subseteq FSP!Calls \ {"rollback"}
  BY DEF FSP!Calls, FS!Calls
<1> QED
  BY <1>1, <1>2, OptionAssumption
     DEF FSP!ContentAssumption, FSP!ParameterAssumption, FSP!Careful

\* FS and FSP name the same definitions.
LEMMA SameInv == FS!IInv <=> FSP!IInv
BY DEF FS!IInv, FS!TypeOK, FS!OneSwapPerPage, FS!ThreadInv, FS!PageInv, FS!Stored,
       FS!Stashed, FS!BeforeInstall, FS!Content, FS!Steps, FS!Outcomes,
       FSP!IInv, FSP!TypeOK, FSP!OneSwapPerPage, FSP!ThreadInv, FSP!PageInv,
       FSP!Stored, FSP!Stashed, FSP!BeforeInstall, FSP!Content, FSP!Steps,
       FSP!Outcomes

LEMMA SameStart ==
  ASSUME NEW r, NEW p PROVE FS!StartRender(r, p) <=> FSP!StartRender(r, p)
BY DEF FS!StartRender, FS!InFlight, FSP!StartRender, FSP!InFlight

LEMMA SameRender ==
  ASSUME NEW r PROVE FS!FinishRender(r) \/ FS!FailRender(r) <=> FSP!Render(r)
BY DEF FS!FinishRender, FS!FailRender, FS!Goto, FS!End, FS!dirs,
       FSP!Render, FSP!FinishRender, FSP!FailRender, FSP!Goto, FSP!End, FSP!dirs

LEMMA SameSwap ==
  ASSUME NEW r
  PROVE  /\ FS!CheckStaging(r) <=> FSP!CheckStaging(r)
         /\ FS!ClearBackup(r) <=> FSP!ClearBackup(r)
         /\ FS!ClearBackupDir(r) <=> FSP!ClearBackupDir(r)
         /\ FS!CheckFinal(r) <=> FSP!CheckFinal(r)
         /\ FS!Stash(r) <=> FSP!Stash(r)
         /\ FS!Install(r) <=> FSP!Install(r)
         /\ FS!Rollback(r) <=> FSP!Rollback(r)
         /\ FS!Cleanup(r) <=> FSP!Cleanup(r)
         /\ FS!CleanupDir(r) <=> FSP!CleanupDir(r)
<1> USE DEF FS!Goto, FS!End, FS!dirs, FS!CanRename, FS!RenameFails, FS!Unlink,
            FS!RemoveDir, FSP!Goto, FSP!End, FSP!dirs, FSP!CanRename,
            FSP!RenameFails, FSP!Unlink, FSP!RemoveDir
<1>1. FS!CheckStaging(r) <=> FSP!CheckStaging(r)
  BY DEF FS!CheckStaging, FSP!CheckStaging
<1>2. FS!ClearBackup(r) <=> FSP!ClearBackup(r)
  BY DEF FS!ClearBackup, FSP!ClearBackup
<1>3. FS!ClearBackupDir(r) <=> FSP!ClearBackupDir(r)
  BY DEF FS!ClearBackupDir, FSP!ClearBackupDir
<1>4. FS!CheckFinal(r) <=> FSP!CheckFinal(r)
  BY DEF FS!CheckFinal, FSP!CheckFinal
<1>5. FS!Stash(r) <=> FSP!Stash(r)
  BY DEF FS!Stash, FSP!Stash
<1>6. FS!Install(r) <=> FSP!Install(r)
  BY DEF FS!Install, FSP!Install
<1>7. FS!Rollback(r) <=> FSP!Rollback(r)
  BY DEF FS!Rollback, FSP!Rollback
<1>8. FS!Cleanup(r) <=> FSP!Cleanup(r)
  BY DEF FS!Cleanup, FSP!Cleanup
<1>9. FS!CleanupDir(r) <=> FSP!CleanupDir(r)
  BY DEF FS!CleanupDir, FSP!CleanupDir
<1> QED
  BY <1>1, <1>2, <1>3, <1>4, <1>5, <1>6, <1>7, <1>8, <1>9

\* A step of a swap: the request is alive in prerenderPost or past it, and all
\* but its own place and its own page stay.
InCall(r) == InSwap(r) \/ InstallPage(r) \/ Throw(r)

LEMMA InCallStep ==
  ASSUME NEW r \in Requests, InCall(r)
  PROVE  FSP!Render(r) \/ FSP!Swap(r)
BY SameRender, SameSwap DEF InCall, InSwap, InstallPage, Throw, FSP!Swap

\* The steps outside the calls leave the number of restarts alone.
LEMMA SameRun ==
  ASSUME NEW r \in Requests, Outside(r) \/ Publish(r)
  PROVE  UNCHANGED <<swap, restarts>>
BY DEF Outside, Publish, Accept, Handler, process, world, Acquire, StartStage,
       StartFetchPosts, StartFetchAuthor, StartCreateAuthor, StartPage,
       StartModerate, Execute, ExecuteOrphan, HandlePosts, HandleAuthor,
       HandleNewAuthor, HandleStaged, Send, PublishEvent

\* What StageSite does to the directories is what FolderSwap does.
LEMMA SwapStep ==
  ASSUME IInv, [SiteNext]_siteVars
  PROVE  [FSP!Next]_(FSP!vars)
<1>1. ASSUME NEW r \in Requests, Outside(r) \/ Publish(r)
      PROVE  UNCHANGED FSP!vars
  BY <1>1, SameRun DEF swap, dirs, FSP!vars
<1>2. ASSUME NEW r \in Requests, Fork(r)
      PROVE  FSP!Next
  <2>1. post[r] \in Posts
    BY <1>2 DEF Fork, IInv, RequestInv, Blocking
  <2> QED
    BY <1>2, <2>1, SameStart DEF Fork, FSP!Next
<1>3. ASSUME NEW r \in Requests, InCall(r)
      PROVE  FSP!Next
  BY <1>3, InCallStep DEF FSP!Next
<1>4. CASE RestartSite
  BY <1>4 DEF RestartSite, FS!Crash, FSP!Crash, FSP!Next
<1>5. CASE (Stop \/ Exit \/ Crash \/ Quiescent) /\ UNCHANGED swap
  BY <1>5 DEF Stop, Exit, Crash, Quiescent, vars, process, swap, dirs, FSP!vars
<1>6. CASE UNCHANGED siteVars
  BY <1>6 DEF siteVars, vars, process, swap, dirs, FSP!vars
<1> QED
  BY <1>1, <1>2, <1>3, <1>4, <1>5, <1>6 DEF SiteNext, InCall

LEMMA SwapInv ==
  ASSUME IInv, FS!IInv, [SiteNext]_siteVars
  PROVE  FS!IInv'
<1>1. FSP!IInv
  BY SameInv
<1>2. FSP!IInv'
  BY <1>1, SwapStep, SwapAssumptions, FSP!Inductive
<1>3. (FS!IInv <=> FSP!IInv)'
  BY SameInv, PTL
<1> QED
  BY <1>2, <1>3

----------------------------------------------------------------------------
\* No two requests of a post have a rendering of the same number.
LEMMA RowVersionIs ==
  ASSUME SiteIInv, NEW r \in Requests, rver[r] # 0
  PROVE  RowVersion(post[r], rver[r]) = ver[r]
<1>1. \A o \in Requests : post[o] = post[r] /\ rver[o] = rver[r] => o = r
  BY DEF SiteIInv, CallInv
<1>2. (CHOOSE o \in Requests : post[o] = post[r] /\ rver[o] = rver[r]) = r
  BY <1>1
<1> QED
  BY <1>2 DEF RowVersion

\* A request in the swap works on its own post, alone; no answered request of
\* that post has the newest version of its row.
LEMMA CallFacts ==
  ASSUME SiteIInv, NEW r \in Requests, pc[r] # "idle"
  PROVE  /\ post[r] \in Posts /\ page[r] = post[r] /\ kind[r] = "stage"
         /\ rver[r] = renders[post[r]] /\ rver[r] \in Nat \ {0}
         /\ Blocking(r)
         /\ \A o \in Requests \ {r} :
               post[o] = post[r] => ~(Served(o) /\ ver[o] = row[post[o]]) /\ pc[o] = "idle"
<1>1. /\ TypeOK /\ RequestInv(r) /\ CallInv(r) /\ SerialInv
      /\ FS!TypeOK /\ FS!ThreadInv(r)
  BY DEF SiteIInv, IInv, FS!IInv
<1>2. Blocking(r) /\ page[r] = post[r] /\ rver[r] # 0 /\ kind[r] = "stage" /\ res[r] = "row"
  BY <1>1 DEF CallInv, Blocking, RequestInv
<1>3. post[r] \in Posts /\ ver[r] # 0 /\ InProgress(r)
  BY <1>1, <1>2 DEF RequestInv, SerialInv, InProgress, Blocking
<1>4. rver[r] = renders[post[r]] /\ rver[r] \in Nat
  BY <1>1, <1>2 DEF FS!ThreadInv, FS!TypeOK
<1>5. ASSUME NEW o \in Requests \ {r}, post[o] = post[r]
      PROVE  ~(Served(o) /\ ver[o] = row[post[o]]) /\ pc[o] = "idle"
  <2>1. ver[o] < ver[r] /\ ver[r] <= row[post[r]] /\ ~InProgress(o)
    BY <1>1, <1>3, <1>5 DEF SerialInv
  <2>2. ver[o] \in Nat /\ ver[r] \in Nat /\ row[post[r]] \in Nat
    BY <1>1, <1>3 DEF TypeOK
  <2>3. pc[o] = "idle"
    BY <2>1 DEF SiteIInv, CallInv, InProgress
  <2> QED
    BY <1>5, <2>1, <2>2, <2>3
<1> QED
  BY <1>2, <1>3, <1>4, <1>5

\* A step of the swap leaves the other requests and their pages alone.
LEMMA CallOthers ==
  ASSUME SiteIInv, NEW r \in Requests, InCall(r)
  PROVE  /\ pc[r] # "idle"
         /\ UNCHANGED <<renders, page, rver, restarts, kind, post, res, ver, row>>
         /\ \A o \in Requests \ {r} :
               UNCHANGED <<pc[o], st[o], reply[o], clears[o]>>
         /\ \A p \in Posts \ {post[r]} :
               UNCHANGED <<staging[p], final[p], backup[p]>>
<1>1. FSP!IInv /\ TypeOK
  BY SameInv DEF SiteIInv, IInv
<1>2. FSP!TypeOK /\ FSP!OneSwapPerPage /\ (FSP!Render(r) \/ FSP!Swap(r))
  BY <1>1, InCallStep DEF FSP!IInv
<1>3. /\ pc[r] # "idle"
      /\ UNCHANGED <<renders, page, rver, restarts>>
      /\ \A o \in Requests \ {r} : pc'[o] = pc[o]
  BY <1>2, SwapAssumptions, FSP!OneSwapKept
<1>4. \A p \in Posts \ {page[r]} :
         UNCHANGED <<staging[p], final[p], backup[p]>>
  BY <1>2, SwapAssumptions, FSP!OtherPagesKept
<1>5. page[r] = post[r]
  BY <1>3, CallFacts
<1>6. /\ UNCHANGED <<kind, post, res, ver, row>>
      /\ \A o \in Requests \ {r} : UNCHANGED <<st[o], reply[o], clears[o]>>
  BY <1>1 DEF InCall, InSwap, InstallPage, Throw, Caught, Clear, Answer, Goto,
              vars, request, world, TypeOK
<1> QED
  BY <1>3, <1>4, <1>5, <1>6

\* Where a step of the swap takes its request.
LEMMA CallPlace ==
  ASSUME SiteIInv, NEW r \in Requests, InCall(r)
  PROVE  \/ /\ InSwap(r) /\ UNCHANGED <<vars, renders, page, rver>>
            /\ pc[r] \in {"cleanup", "cleanupDir"}
            /\ pc'[r] \in {"cleanupDir", "idle"} /\ UNCHANGED final
         \/ /\ InSwap(r) /\ UNCHANGED <<vars, renders, page, rver>>
            /\ pc[r] \notin {"idle", "cleanup", "cleanupDir"}
            /\ pc'[r] \notin {"idle", "cleanup", "cleanupDir"}
         \/ /\ InstallPage(r) /\ pc[r] = "install" /\ pc'[r] = "rollback"
            /\ UNCHANGED vars
         \/ /\ InstallPage(r) /\ pc[r] = "install" /\ pc'[r] = "cleanup"
            /\ final'[post[r]] = rver[r] /\ st'[r] = "publish"
            /\ Prerendered(r)
         \/ /\ Throw(r) /\ pc'[r] = "idle"
            /\ pc[r] \notin {"idle", "cleanup", "cleanupDir"}
            /\ Prerendered(r) /\ st'[r] = "reply" /\ reply'[r] = "error"
<1>1. /\ TypeOK /\ CallInv(r) /\ FS!TypeOK /\ FS!ThreadInv(r)
      /\ post[r] \in Posts /\ page[r] = post[r] /\ rver[r] # 0
  BY CallOthers, CallFacts DEF SiteIInv, IInv, FS!IInv
<1>2. CASE InSwap(r)
  BY <1>1, <1>2, CallOthers
     DEF InSwap, FS!FinishRender, FS!CheckStaging, FS!ClearBackup, FS!ClearBackupDir,
         FS!CheckFinal, FS!Stash, FS!Cleanup, FS!CleanupDir, FS!Goto, FS!End,
         FS!Unlink, FS!RemoveDir, FS!TypeOK
<1>3. CASE InstallPage(r)
  <2>1. pc[r] = "install" /\ st[r] = "render" /\ staging[post[r]] = rver[r]
    BY <1>1, <1>3 DEF InstallPage, FS!Install, CallInv, FS!ThreadInv, FS!BeforeInstall
  <2>2. RowVersion(post[r], staging[post[r]]) = ver[r]
    BY <1>1, <2>1, RowVersionIs
  <2>3. CASE pc'[r] = "rollback"
    BY <1>3, <2>1, <2>3 DEF InstallPage, vars, process, request, world
  <2>4. CASE pc'[r] = "cleanup"
    <3>1. final'[post[r]] = rver[r]
      BY <1>1, <1>3, <2>1, <2>4 DEF InstallPage, FS!Install, FS!Goto, FS!TypeOK
    <3>2. Prerendered(r) /\ st'[r] = "publish"
      BY <1>1, <1>3, <2>1, <2>2, <2>4
         DEF InstallPage, Prerendered, Goto, process, TypeOK
    <3> QED
      BY <1>3, <2>1, <2>4, <3>1, <3>2
  <2> QED
    BY <1>3, <2>3, <2>4 DEF InstallPage
<1>4. CASE Throw(r)
  <2>1. pc'[r] = "idle" /\ pc[r] \notin {"idle", "cleanup", "cleanupDir"}
    BY <1>4 DEF Throw, FS!FailRender, FS!CheckStaging, FS!Stash, FS!Rollback
  <2>2. st[r] = "render"
    BY <1>1, <2>1 DEF CallInv
  <2>3. Prerendered(r) /\ st'[r] = "reply" /\ reply'[r] = "error"
    BY <1>1, <1>4, <2>2 DEF Throw, Prerendered, Caught, Answer, world, TypeOK
  <2> QED
    BY <1>4, <2>1, <2>3
<1> QED
  BY <1>2, <1>3, <1>4 DEF InCall

\* Every step is one of LivePosts, or leaves its variables alone.
LEMMA Implements ==
  ASSUME SiteIInv, [SiteNext]_siteVars
  PROVE  [Next]_vars
<1>1. ASSUME NEW r \in Requests, InCall(r)
      PROVE  [Next]_vars
  BY <1>1, CallPlace DEF Next, Advance
<1> QED
  BY <1>1 DEF SiteNext, InCall, Outside, Fork, Publish, RestartSite, siteVars, Next, Advance

LEMMA PartsKept ==
  ASSUME SiteIInv, [SiteNext]_siteVars
  PROVE  IInv' /\ SerialInv' /\ FS!IInv'
<1>1. IInv /\ SerialInv /\ FS!IInv /\ [Next]_vars
  BY Implements DEF SiteIInv
<1>2. IInv'
  BY <1>1, Inductive
<1>3. SerialInv'
  BY <1>1, SerialStep
<1>4. FS!IInv'
  BY <1>1, SwapInv
<1> QED
  BY <1>2, <1>3, <1>4

----------------------------------------------------------------------------
\* How the parts fit together, one kind of step at a time.
LEMMA OutsideKeeps ==
  ASSUME SiteIInv, NEW r \in Requests, Outside(r), NEW o \in Requests
  PROVE  CallInv(o)'
<1>1. /\ TypeOK /\ SerialInv
      /\ \A q \in Requests : RequestInv(q) /\ CallInv(q) /\ ver[q] \in Nat
      /\ \A p \in Posts : row[p] \in Nat
      /\ UNCHANGED <<staging, final, backup, renders, pc, page, rver>>
  BY DEF SiteIInv, IInv, TypeOK, Outside, swap, dirs
<1>2. CASE \E p \in Posts \union {NoPost} : Accept(r, p)
  <2>1. PICK p \in Posts \union {NoPost} : Accept(r, p)
    BY <1>2
  <2>2. /\ UNCHANGED <<kind, res, ver, reply, row>>
        /\ st[r] = "new" /\ st'[r] \in {"waiting", "start"}
        /\ \A q \in Requests \ {r} : st'[q] = st[q] /\ post'[q] = post[q]
    BY <1>1, <2>1 DEF Accept, Goto, TypeOK, world
  <2>3. rver[r] = 0 /\ pc[r] = "idle" /\ res[r] = "none"
    BY <1>1, <2>2 DEF CallInv, RequestInv, Fresh
  <2> QED
    BY <1>1, <2>2, <2>3 DEF CallInv, Served, Fresh
<1>3. CASE Steady(r)
  <2>1. /\ UNCHANGED <<kind, post, res, ver, row>>
        /\ \A q \in Requests \ {r} : st'[q] = st[q] /\ reply'[q] = reply[q]
        /\ st[r] \in {"waiting", "start", "reply"} /\ st'[r] \in {"start", "query", "reply", "done"}
        /\ st[r] = "reply" => st'[r] = "done" /\ reply'[r] = reply[r]
    BY <1>1, <1>3, SteadyStep DEF TypeOK, world
  <2>2. pc[r] = "idle" /\ (st[r] # "reply" => rver[r] = 0 /\ res[r] = "none")
    BY <1>1, <2>1 DEF CallInv, RequestInv, Fresh
  <2> QED
    BY <1>1, <2>1, <2>2 DEF CallInv, Served, Fresh
<1>4. CASE Execute(r) \/ ExecuteOrphan(r)
  <2>1. /\ UNCHANGED <<kind, post, reply>>
        /\ \A q \in Requests \ {r} : st'[q] = st[q] /\ res'[q] = res[q] /\ ver'[q] = ver[q]
        /\ st[r] \in {"query", "orphan"} /\ st'[r] \in {"result", "done"}
        /\ st'[r] = "result" => st[r] = "query"
        /\ reply[r] = "none" /\ pc[r] = "idle"
        /\ \A p \in Posts : row[p] <= row'[p]
    BY <1>1, <1>4 DEF Execute, ExecuteOrphan, TypeOK, RequestInv, CallInv, Fresh
  <2>2. kind[o] = "stage" /\ res[o] = "row" => post[o] \in Posts /\ ver[o] <= row[post[o]]
    BY <1>1 DEF RequestInv, SerialInv
  <2>3. \A p \in Posts : row'[p] \in Nat
    BY <1>1, <1>4 DEF Execute, ExecuteOrphan, TypeOK
  <2>4. o # r /\ Served(o)' /\ ver'[o] = row'[post[o]] => Served(o) /\ ver[o] = row[post[o]]
    BY <1>1, <2>1, <2>2, <2>3 DEF Served
  <2> QED
    BY <1>1, <2>1, <2>4 DEF CallInv, Served, Fresh
<1>5. CASE Handled(r)
  <2>1. /\ UNCHANGED <<kind, post, res, ver, row>>
        /\ \A q \in Requests \ {r} : st'[q] = st[q] /\ reply'[q] = reply[q]
        /\ st[r] = "result" /\ st'[r] \in {"result", "reply", "render"}
        /\ reply'[r] = "success" => kind[r] # "stage" \/ res[r] = "empty"
    BY <1>1, <1>5, HandledStep DEF TypeOK, world, RequestInv
  <2>2. pc[r] = "idle" /\ rver[r] = 0
    BY <1>1, <2>1 DEF CallInv, Fresh
  <2> QED
    BY <1>1, <2>1, <2>2 DEF CallInv, Served, Fresh
<1> QED
  BY <1>2, <1>3, <1>4, <1>5 DEF Outside, Handler, Steady, Handled

LEMMA ForkKeeps ==
  ASSUME SiteIInv, NEW r \in Requests, Fork(r), NEW o \in Requests
  PROVE  CallInv(o)'
<1>1. /\ \A q \in Requests : CallInv(q)
      /\ RequestInv(r) /\ FS!TypeOK
      /\ UNCHANGED <<st, kind, post, res, ver, reply, row, final>>
  BY DEF SiteIInv, IInv, FS!IInv, Fork, FS!StartRender, vars, request, world
<1>2. post[r] \in Posts /\ st[r] = "render" /\ reply[r] = "none"
  BY <1>1 DEF Fork, RequestInv, Blocking
<1>3. /\ pc'[r] = "render" /\ page'[r] = post[r] /\ rver'[r] = renders[post[r]] + 1
      /\ renders'[post[r]] = renders[post[r]] + 1 /\ renders[post[r]] \in Nat
      /\ \A q \in Requests \ {r} : pc'[q] = pc[q] /\ page'[q] = page[q] /\ rver'[q] = rver[q]
      /\ \A p \in Posts \ {post[r]} : renders'[p] = renders[p]
      /\ \A q \in Requests : rver[q] \in Nat
  BY <1>1, <1>2 DEF Fork, FS!StartRender, FS!TypeOK
<1>4. CASE o = r
  BY <1>1, <1>2, <1>3, <1>4 DEF CallInv, Served, Fresh
<1>5. CASE o # r
  BY <1>1, <1>2, <1>3, <1>5 DEF CallInv, Served, Fresh
<1> QED
  BY <1>4, <1>5

LEMMA CallKeeps ==
  ASSUME SiteIInv, NEW r \in Requests, InCall(r), NEW o \in Requests
  PROVE  CallInv(o)'
<1>1. /\ \A q \in Requests : CallInv(q)
      /\ TypeOK /\ FS!TypeOK
      /\ \A q \in Requests : kind[q] = "stage" /\ res[q] = "row" => post[q] \in Posts
  BY DEF SiteIInv, IInv, RequestInv, FS!IInv
<1>2. UNCHANGED <<renders, page, rver, kind, post, res, ver, row>>
  BY CallOthers
<1>3. CASE o # r
  <2>1. pc'[o] = pc[o] /\ st'[o] = st[o] /\ reply'[o] = reply[o]
    BY <1>3, CallOthers
  <2>2. Served(o)' /\ ver'[o] = row'[post[o]] => final'[post[o]] = rver[o]
    <3> SUFFICES ASSUME Served(o)', ver'[o] = row'[post[o]]
                 PROVE  final'[post[o]] = rver[o]
      OBVIOUS
    <3>1. Served(o) /\ ver[o] = row[post[o]] /\ post[o] \in Posts
      BY <1>1, <1>2, <2>1 DEF Served
    <3>2. post[o] # post[r]
      BY <1>3, <3>1, CallOthers, CallFacts
    <3> QED
      BY <1>1, <3>1, <3>2, CallOthers DEF CallInv
  <2> QED
    BY <1>1, <1>2, <2>1, <2>2 DEF CallInv, Served
<1>4. CASE o = r
  <2>1. /\ page[r] = post[r] /\ rver[r] # 0 /\ RequestInv(r)
        /\ st[r] \in {"render", "publish"} /\ reply[r] = "none"
    BY CallOthers, CallFacts DEF SiteIInv, IInv, RequestInv, Blocking
  <2>2. /\ rver[r] # 0 => post[r] \in Posts /\ rver[r] <= renders[post[r]]
        /\ \A q \in Requests \ {r} : post[q] = post[r] => rver[q] # rver[r]
    BY <1>1, <2>1 DEF CallInv
  <2>3. CASE pc[r] \in {"cleanup", "cleanupDir"}
    BY <1>1, <1>2, <1>4, <2>1, <2>2, <2>3, CallPlace
       DEF CallInv, Served, vars, request, Fresh, InSwap
  <2>4. CASE pc[r] \notin {"cleanup", "cleanupDir"}
    <3>1. st[r] = "render" /\ pc[r] # "idle"
      BY <1>1, <2>4, CallOthers DEF CallInv
    <3>2. CASE UNCHANGED vars
      BY <1>1, <1>2, <1>4, <2>1, <2>2, <2>4, <3>1, <3>2, CallPlace
         DEF CallInv, Served, vars, request, Fresh, Prerendered
    <3>3. CASE pc'[r] = "cleanup" /\ final'[post[r]] = rver[r] /\ st'[r] = "publish"
      BY <1>1, <1>2, <1>4, <2>1, <2>2, <3>3 DEF CallInv, Served, Fresh
    <3>4. CASE pc'[r] = "idle" /\ st'[r] = "reply" /\ reply'[r] = "error"
      BY <1>1, <1>2, <1>4, <2>1, <2>2, <3>4 DEF CallInv, Served, Fresh
    <3> QED
      BY <2>4, <3>1, <3>2, <3>3, <3>4, CallPlace
  <2> QED
    BY <2>3, <2>4
<1> QED
  BY <1>3, <1>4

LEMMA PublishKeeps ==
  ASSUME SiteIInv, NEW r \in Requests, Publish(r), NEW o \in Requests
  PROVE  CallInv(o)'
<1>1. /\ \A q \in Requests : CallInv(q)
      /\ UNCHANGED <<final, renders, pc, page, rver, kind, post, res, ver, row>>
      /\ \A q \in Requests \ {r} : st'[q] = st[q] /\ reply'[q] = reply[q]
      /\ pc[r] = "idle" /\ st[r] = "publish" /\ st'[r] = "reply"
  BY DEF SiteIInv, IInv, TypeOK, Publish, swap, dirs, PublishEvent, Caught, Answer
<1> QED
  BY <1>1 DEF CallInv, Served, Fresh

LEMMA RestartKeeps ==
  ASSUME SiteIInv, RestartSite, NEW o \in Requests
  PROVE  CallInv(o)'
<1>1. /\ \A q \in Requests : CallInv(q)
      /\ UNCHANGED <<final, renders, page, rver, kind, post, ver, row>>
      /\ pc'[o] = "idle"
  BY DEF SiteIInv, RestartSite, Restart, FS!Crash, world
<1>2. /\ st'[o] \in Fresh \union {"result", "publish"} => st[o] = "new" \/ st'[o] = "orphan"
      /\ Served(o)' => Served(o)
  BY DEF SiteIInv, IInv, TypeOK, RestartSite, Restart, InProgress, Served, Fresh
<1> QED
  BY <1>1, <1>2 DEF CallInv, Fresh

----------------------------------------------------------------------------
LEMMA SiteInitInv == SiteInit => SiteIInv
<1> SUFFICES ASSUME SiteInit PROVE SiteIInv
  OBVIOUS
<1>1. IInv /\ SerialInv
  BY InitInv, SerialInit DEF SiteInit
<1>2. FSP!Init
  BY DEF SiteInit, Init, FSP!Init
<1>3. FS!IInv
  BY <1>2, SwapAssumptions, SameInv, FSP!InitInv
<1>4. ASSUME NEW r \in Requests
      PROVE  CallInv(r)
  BY DEF SiteInit, Init, CallInv, Served
<1> QED
  BY <1>1, <1>3, <1>4 DEF SiteIInv

LEMMA SiteInductive == SiteIInv /\ [SiteNext]_siteVars => SiteIInv'
<1> SUFFICES ASSUME SiteIInv, [SiteNext]_siteVars
             PROVE  SiteIInv'
  OBVIOUS
<1>1. ASSUME NEW o \in Requests
      PROVE  CallInv(o)'
  <2>1. CASE (Stop \/ Exit \/ Crash \/ Quiescent) /\ UNCHANGED swap
    BY <1>1, <2>1 DEF SiteIInv, Stop, Exit, Crash, Quiescent, vars, request, world,
                      swap, dirs, CallInv, Served
  <2>2. CASE UNCHANGED siteVars
    BY <1>1, <2>2 DEF SiteIInv, siteVars, vars, request, world, swap, dirs, CallInv, Served
  <2> QED
    BY <1>1, <2>1, <2>2, OutsideKeeps, ForkKeeps, CallKeeps, PublishKeeps, RestartKeeps
       DEF SiteNext, InCall
<1> QED
  BY <1>1, PartsKept DEF SiteIInv

\* For any requests, posts, threads, connections, faults of the forward calls,
\* kills and restarts, as long as a post is staged again only after the last
\* answer: requests, rows and directories stay in step.
THEOREM SiteInvariance == SiteSpec => []SiteIInv
BY SiteInitInv, SiteInductive, PTL DEF SiteSpec

\* stagePost with every step of the swap does what LivePosts, where
\* prerenderPost is one step, does.
THEOREM Refinement == SiteSpec => ImplementsLivePosts
<1>1. SiteInit => Init
  BY DEF SiteInit
<1> QED
  BY <1>1, Implements, SiteInvariance, PTL DEF SiteSpec, ImplementsLivePosts, Spec

\* So what LivePosts promises the swap delivers.  The event goes out only after
\* the rename to finalDir.
THEOREM SiteInOrder == SiteSpec => []EventFollowsPage
BY Refinement, PageEventAnswer, PTL DEF ImplementsLivePosts

\* No success is answered for a swap that threw: its exception ends the request
\* with an error.
THEOREM SiteSuccess == SiteSpec => []SuccessMeansPublished
BY Refinement, SuccessPublished, PTL DEF ImplementsLivePosts

\* The version that a successful answer was about is the one the site shows, so
\* long as it is the newest of the row.
THEOREM SiteInStep == SiteSpec => []SiteCatchesUp
BY Refinement, CatchesUp, PTL DEF ImplementsLivePosts

\* The renames put no older rendering over a newer one, whichever calls a kill
\* has cut short.
THEOREM SiteForward == SiteSpec => SiteAdvances
BY Refinement, Advances, PTL DEF ImplementsLivePosts

\* What readers find in finalDir is the rendering of the newest version of the
\* row, once its request was answered with success.
THEOREM NewestServed == SiteSpec => []NewestIsServed
<1>1. SiteIInv => NewestIsServed
  BY DEF SiteIInv, CallInv, Served, NewestIsServed
<1> QED
  BY <1>1, SiteInvariance, PTL

----------------------------------------------------------------------------
\* The end of main: no call is left when it comes, and a version that was shown
\* and not announced is that of a request on its way to its event or its error.
NoCallLeft == life = "exited" => \A r \in Requests : ~Blocking(r)

Announced ==
    \A e \in shown \ events :
       \E r \in Requests : /\ e = <<post[r], ver[r]>>
                           /\ st[r] = "publish" \/ reply[r] = "error"

LEMMA AnnouncedStep ==
  ASSUME IInv, NoCallLeft, Announced, [Next]_vars, ~Restart
  PROVE  NoCallLeft' /\ Announced'
<1>1. TypeOK /\ \A r \in Requests : RequestInv(r)
  BY DEF IInv
<1>2. ASSUME NEW r \in Requests, NEW p \in Posts \union {NoPost}, Accept(r, p)
      PROVE  NoCallLeft' /\ Announced'
  <2>1. /\ st[r] = "new" /\ reply[r] = "none" /\ st'[r] \in {"waiting", "start"}
        /\ UNCHANGED <<life, reply, ver, shown, events>>
        /\ \A o \in Requests \ {r} : st'[o] = st[o] /\ post'[o] = post[o]
    BY <1>1, <1>2 DEF Accept, Goto, TypeOK, process, world, RequestInv, Fresh
  <2> QED
    BY <2>1 DEF NoCallLeft, Announced, Blocking
<1>3. ASSUME NEW r \in Requests, Advance(r)
      PROVE  NoCallLeft' /\ Announced'
  <2>1. /\ UNCHANGED <<kind, post>>
        /\ \A o \in Requests \ {r} : UNCHANGED <<st[o], ver[o], reply[o]>>
    BY <1>1, <1>3, AdvanceOthers
  <2>2. CASE Steady(r)
    <3>1. /\ UNCHANGED <<life, ver, shown, events>>
          /\ ~Blocking(r) /\ ~Blocking(r)'
          /\ reply[r] = "error" => reply'[r] = "error"
      BY <1>1, <2>2, SteadyStep DEF process, world, TypeOK, Blocking, RequestInv, Fresh
    <3> QED
      BY <2>1, <3>1 DEF NoCallLeft, Announced, Blocking
  <2>3. CASE Execute(r) \/ ExecuteOrphan(r)
    <3>1. /\ UNCHANGED <<life, shown, events>>
          /\ ~Blocking(r) /\ ~Blocking(r)' /\ reply[r] = "none"
      BY <1>1, <2>3 DEF Execute, ExecuteOrphan, process, TypeOK, Blocking, RequestInv, Fresh
    <3> QED
      BY <2>1, <3>1 DEF NoCallLeft, Announced, Blocking
  <2>4. CASE Handled(r)
    <3>1. /\ UNCHANGED <<ver, shown, events>> /\ life = "up" /\ life' \in {"up", "crashed"}
          /\ ~Blocking(r) /\ reply[r] = "none"
      BY <1>1, <2>4, HandledStep
         DEF world, TypeOK, Blocking, RequestInv, Handled, HandlePosts, HandleAuthor,
             HandleNewAuthor, HandleStaged, CanRun
    <3> QED
      BY <2>1, <3>1 DEF NoCallLeft, Announced, Blocking
  <2>5. CASE Prerendered(r)
    <3>1. /\ UNCHANGED <<ver, events>> /\ st[r] = "render" /\ reply[r] = "none"
          /\ life' # "exited"
          /\ \/ shown' = shown
             \/ shown' = shown \union {<<post[r], ver[r]>>} /\ st'[r] = "publish"
      BY <1>1, <2>5 DEF Prerendered, Alive, Caught, Goto, Answer, TypeOK, RequestInv
    <3> QED
      BY <2>1, <3>1 DEF NoCallLeft, Announced, Blocking
  <2>6. CASE PublishEvent(r)
    <3>1. /\ UNCHANGED <<ver, shown>> /\ life' # "exited"
          /\ \/ events' = events \union {<<post[r], ver[r]>>}
             \/ UNCHANGED events /\ reply'[r] = "error"
      BY <1>1, <2>6 DEF PublishEvent, Alive, Caught, Answer, TypeOK
    <3> QED
      BY <2>1, <3>1 DEF NoCallLeft, Announced, Blocking
  <2> QED
    BY <1>3, <2>2, <2>3, <2>4, <2>5, <2>6, AdvanceCases
<1>4. CASE Stop \/ Exit \/ Crash \/ UNCHANGED vars
  BY <1>4 DEF Stop, Exit, Crash, vars, request, world, process, NoCallLeft, Announced, Blocking
<1> QED
  BY <1>2, <1>3, <1>4 DEF Next, Quiescent

\* Before the first restart, a page once installed is in finalDir or aside.
StillStored == \A p \in Posts : site[p] # 0 => FSP!Stored(p) # Absent

LEMMA KeptInCall ==
  ASSUME SiteIInv, StillStored, restarts = 0, NEW r \in Requests, InCall(r),
         NEW p \in Posts, site[p] # 0
  PROVE  FSP!Stored(p)' # Absent
<1>1. FSP!IInv /\ page[r] = post[r] /\ post[r] \in Posts
  BY CallOthers, CallFacts, SameInv DEF SiteIInv
<1>2. FSP!Stored(p)' = FSP!Stored(p) \/ FSP!Store!Newer(FSP!Stored(p)', FSP!Stored(p))
  BY <1>1, InCallStep, SwapAssumptions, FSP!StoredStep
<1>3. FSP!Stored(p) # Absent
  BY DEF StillStored
<1> QED
  BY <1>2, <1>3 DEF FSP!Store!Newer

LEMMA StoredKept ==
  ASSUME SiteIInv, StillStored, restarts = 0, [SiteNext]_siteVars, ~RestartSite
  PROVE  StillStored'
<1>1. FSP!IInv /\ TypeOK
  BY SameInv DEF SiteIInv, IInv
<1>2. ASSUME NEW r \in Requests, InCall(r), NEW p \in Posts, site'[p] # 0
      PROVE  FSP!Stored(p)' # Absent
  <2>1. page[r] = post[r] /\ post[r] \in Posts
    BY <1>2, CallOthers, CallFacts
  <2>2. CASE UNCHANGED vars \/ Throw(r)
    <3>1. site'[p] = site[p]
      BY <2>2 DEF vars, world, Throw
    <3> QED
      BY <1>2, <2>1, <3>1, KeptInCall
  <2>3. CASE final'[post[r]] = rver[r] /\ Prerendered(r)
    <3>1. rver[r] \in Nat
      BY <1>2, CallOthers, CallFacts
    <3>2. CASE p = post[r]
      BY <2>3, <3>1, <3>2 DEF FSP!Stored
    <3>3. CASE p # post[r]
      <4>1. site'[p] = site[p]
        BY <1>1, <2>1, <2>3, <3>3 DEF Prerendered, TypeOK
      <4> QED
        BY <1>2, <4>1, KeptInCall
    <3> QED
      BY <3>2, <3>3
  <2> QED
    BY <1>2, <2>2, <2>3, CallPlace
<1>3. CASE \A r \in Requests : ~InCall(r)
  <2>1. UNCHANGED <<final, backup>>
    BY <1>3 DEF SiteNext, InCall, Outside, Fork, FS!StartRender, Publish, swap, dirs, siteVars
  <2>2. UNCHANGED site
    BY <1>1, <1>3 DEF SiteNext, InCall, Outside, Fork, FS!StartRender, Publish, siteVars, vars, world,
       PublishEvent, Stop, Exit, Crash, Quiescent, Accept, Handler, Acquire, StartStage,
       StartFetchPosts, StartFetchAuthor, StartCreateAuthor, StartPage,
       StartModerate, Execute, ExecuteOrphan, HandlePosts, HandleAuthor,
       HandleNewAuthor, HandleStaged, Send
  <2> QED
    BY <2>1, <2>2 DEF StillStored, FSP!Stored
<1> QED
  BY <1>2, <1>3 DEF StillStored

LEMMA RunsKept ==
  ASSUME SiteIInv, [SiteNext]_siteVars
  PROVE  UNCHANGED restarts \/ RestartSite
<1>1. ASSUME NEW r \in Requests, InCall(r)
      PROVE  UNCHANGED restarts
  BY <1>1, CallOthers
<1> QED
  BY <1>1, SameRun DEF SiteNext, InCall, Fork, Stop, Exit, Crash, Quiescent, siteVars,
                       vars, process

\* For any run of the service that ends after a signal, before it is started
\* again: no swap was cut in half, and what was put on the site is there and
\* was announced, unless its request was answered with an error.
THEOREM OrderlyExit == SiteSpec => []ExitIsOrderly
<1> DEFINE Inv == restarts = 0 => NoCallLeft /\ Announced /\ StillStored
<1>1. SiteInit => Inv
  BY DEF SiteInit, Init, NoCallLeft, Announced, StillStored
<1>2. ASSUME SiteIInv, Inv, [SiteNext]_siteVars
      PROVE  Inv'
  <2>1. IInv /\ [Next]_vars /\ restarts \in Nat
    BY <1>2, Implements DEF SiteIInv, IInv, TypeOK
  <2>2. CASE restarts' = restarts
    <3>1. ~Restart /\ ~RestartSite
      BY <2>1, <2>2 DEF Restart, RestartSite
    <3> QED
      BY <1>2, <2>1, <2>2, <3>1, AnnouncedStep, StoredKept
  <2>3. CASE RestartSite
    BY <2>1, <2>3 DEF RestartSite, Restart
  <2> QED
    BY <1>2, <2>2, <2>3, RunsKept
<1>3. ASSUME SiteIInv, Inv
      PROVE  ExitIsOrderly
  <2> SUFFICES ASSUME life = "exited", restarts = 0
               PROVE  /\ \A p \in Posts : site[p] # 0 => final[p] \in Nat
                      /\ \A e \in shown \ events :
                            \E r \in Requests : e = <<post[r], ver[r]>> /\ reply[r] = "error"
    BY DEF ExitIsOrderly
  <2>1. \A r \in Requests : ~Blocking(r) /\ pc[r] \notin {"install", "rollback"}
    BY <1>3 DEF NoCallLeft, SiteIInv, CallInv, Blocking
  <2>2. ASSUME NEW p \in Posts, site[p] # 0
        PROVE  final[p] \in Nat
    <3>1. /\ FSP!TypeOK /\ FSP!PageInv(p)
      BY <1>3, SameInv DEF SiteIInv, FSP!IInv
    <3>2. FSP!Stored(p) # Absent /\ FSP!Stored(p) # Torn /\ ~FSP!Stashed(p)
      BY <1>3, <2>1, <2>2, <3>1 DEF StillStored, FSP!PageInv
    <3> QED
      BY <2>2, <3>1, <3>2 DEF FSP!Stored, FSP!Stashed, FSP!TypeOK, FSP!Content
  <2>3. ASSUME NEW e \in shown \ events
        PROVE  \E r \in Requests : e = <<post[r], ver[r]>> /\ reply[r] = "error"
    BY <1>3, <2>1 DEF Announced, Blocking
  <2> QED
    BY <2>2, <2>3
<1> QED
  BY <1>1, <1>2, <1>3, SiteInvariance, PTL DEF SiteSpec
----------------------------------------------------------------------------
\* The copies of a page, over one kill.
LEMMA SameStored == ASSUME NEW p PROVE FS!Stored(p) = FSP!Stored(p)
BY DEF FS!Stored, FSP!Stored

LEMMA GivenUp ==
  ASSUME SiteIInv, CopyInv, [SiteNext]_siteVars, NEW o \in Requests
  PROVE  /\ GaveUp(o)' => st'[o] \in {"reply", "done"}
         /\ GaveUp(o) => post'[o] = post[o] /\ (GaveUp(o)' \/ RestartSite)
<1>1. /\ TypeOK /\ FS!TypeOK
      /\ GaveUp(o) => st[o] \in {"reply", "done"}
  BY DEF SiteIInv, IInv, FS!IInv, CopyInv
<1>2. ASSUME NEW r \in Requests, Outside(r)
      PROVE  /\ UNCHANGED outcome
             /\ st[o] \in {"reply", "done"} => post'[o] = post[o] /\ st'[o] \in {"reply", "done"}
  <2>1. UNCHANGED outcome
    BY <1>2 DEF Outside, swap
  <2>2. CASE \E p \in Posts \union {NoPost} : Accept(r, p)
    BY <1>1, <2>1, <2>2 DEF Accept, Goto, TypeOK
  <2>3. CASE Handler(r)
    <3>1. Steady(r) \/ Execute(r) \/ ExecuteOrphan(r) \/ Handled(r)
      BY <2>3 DEF Handler, Steady, Handled
    <3>2. UNCHANGED post /\ \A q \in Requests \ {r} : st'[q] = st[q]
      BY <1>1, <2>3, AdvanceOthers DEF Advance
    <3>3. CASE st[r] \in {"reply", "done"}
      BY <1>1, <2>1, <3>1, <3>2, <3>3, SteadyStep
         DEF Execute, ExecuteOrphan, Handled, HandlePosts, HandleAuthor,
             HandleNewAuthor, HandleStaged, TypeOK
    <3> QED
      BY <2>1, <3>2, <3>3
  <2> QED
    BY <1>2, <2>2, <2>3 DEF Outside
<1>3. ASSUME NEW r \in Requests, Fork(r)
      PROVE  /\ UNCHANGED <<st, post>> /\ st[r] = "render"
             /\ outcome'[r] = "none" /\ (o # r => outcome'[o] = outcome[o])
  BY <1>1, <1>3 DEF Fork, FS!StartRender, vars, request, FS!TypeOK
<1>4. ASSUME NEW r \in Requests, InCall(r)
      PROVE  /\ UNCHANGED post /\ st[r] \in {"render", "publish"}
             /\ outcome'[r] = "install" => outcome[r] = "install" \/ st'[r] = "reply"
             /\ o # r => outcome'[o] = outcome[o] /\ st'[o] = st[o]
  <2>1. UNCHANGED post /\ st[r] \in {"render", "publish"} /\ (o # r => st'[o] = st[o])
    BY <1>4, CallOthers, CallFacts DEF Blocking
  <2>2. FSP!Render(r) \/ FSP!Swap(r)
    BY <1>4, InCallStep
  <2>3. outcome' = outcome \/ \E x \in FS!Outcomes : outcome' = [outcome EXCEPT ![r] = x]
    BY <2>2 DEF FSP!Render, FSP!Swap, FSP!FinishRender, FSP!FailRender,
       FSP!CheckStaging, FSP!ClearBackup, FSP!ClearBackupDir, FSP!CheckFinal, FSP!Stash,
       FSP!Install, FSP!Rollback, FSP!Cleanup, FSP!CleanupDir, FSP!Goto, FSP!End, FS!Outcomes
  <2>4. CASE Throw(r)
    <3>1. outcome'[r] = "install" => st'[r] = "reply"
      BY <1>1, <2>4 DEF Throw, Caught, Answer, TypeOK
    <3> QED
      BY <1>1, <2>1, <2>3, <3>1 DEF FS!TypeOK
  <2>5. CASE InSwap(r) \/ InstallPage(r)
    BY <1>1, <2>1, <2>3, <2>5
       DEF InSwap, InstallPage, FS!FinishRender, FS!CheckStaging, FS!ClearBackup,
           FS!ClearBackupDir, FS!CheckFinal, FS!Stash, FS!Cleanup, FS!CleanupDir,
           FS!Install, FS!Goto, FS!End, FS!TypeOK
  <2> QED
    BY <1>4, <2>4, <2>5 DEF InCall
<1>5. ASSUME NEW r \in Requests, Publish(r)
      PROVE  /\ UNCHANGED <<outcome, post>> /\ st[r] = "publish"
             /\ o # r => st'[o] = st[o]
  BY <1>1, <1>5 DEF Publish, PublishEvent, Caught, Answer, swap, TypeOK
<1>6. CASE RestartSite
  <2>1. ~GaveUp(o)' /\ UNCHANGED post
    BY <1>6 DEF RestartSite, Restart, FS!Crash, GaveUp
  <2> QED
    BY <1>6, <2>1
<1>7. CASE ((Stop \/ Exit \/ Crash \/ Quiescent) /\ UNCHANGED swap) \/ UNCHANGED siteVars
  BY <1>1, <1>7 DEF Stop, Exit, Crash, Quiescent, vars, request, swap, siteVars, GaveUp
<1> QED
  BY <1>1, <1>2, <1>3, <1>4, <1>5, <1>6, <1>7 DEF SiteNext, InCall, GaveUp

\* Outside the calls neither finalDir, backupDir nor the site change.
LEMMA QuietOutside ==
  ASSUME SiteIInv, [SiteNext]_siteVars, \A r \in Requests : ~InCall(r)
  PROVE  /\ UNCHANGED <<final, backup, site>>
         /\ RestartSite \/ \A o \in Requests :
              pc[o] # "idle" => pc'[o] = pc[o] /\ page'[o] = page[o]
<1>1. TypeOK /\ FS!TypeOK
  BY DEF SiteIInv, IInv, FS!IInv
<1>2. ASSUME NEW r \in Requests, Outside(r)
      PROVE  UNCHANGED <<swap, site>>
  BY <1>2 DEF Outside, world, Accept, Handler, Acquire, StartStage,
       StartFetchPosts, StartFetchAuthor, StartCreateAuthor, StartPage,
       StartModerate, Execute, ExecuteOrphan, HandlePosts, HandleAuthor,
       HandleNewAuthor, HandleStaged, Send
<1>3. ASSUME NEW r \in Requests, Fork(r)
      PROVE  /\ UNCHANGED <<final, backup, site>>
             /\ \A o \in Requests : pc[o] # "idle" => pc'[o] = pc[o] /\ page'[o] = page[o]
  BY <1>1, <1>3 DEF Fork, FS!StartRender, vars, world, FS!TypeOK
<1>4. ASSUME NEW r \in Requests, Publish(r)
      PROVE  UNCHANGED <<swap, site>>
  BY <1>4 DEF Publish, PublishEvent
<1>5. CASE RestartSite
  BY <1>5 DEF RestartSite, Restart, FS!Crash, world
<1>6. CASE ((Stop \/ Exit \/ Crash \/ Quiescent) /\ UNCHANGED swap) \/ UNCHANGED siteVars
  BY <1>6 DEF Stop, Exit, Crash, Quiescent, vars, world, swap, dirs, siteVars
<1> QED
  BY <1>2, <1>3, <1>4, <1>5, <1>6 DEF SiteNext, InCall, swap, dirs

\* The whole copy of page p after one restart.
Copied(p) ==
    \/ FSP!Stored(p) \in Nat
    \/ \E r \in Requests : page[r] = p /\ FSP!Restaging(r)
    \/ \E r \in Requests : post[r] = p /\ GaveUp(r)

LEMMA CopiedInCall ==
  ASSUME SiteIInv, CopyInv, [SiteNext]_siteVars, NEW r \in Requests, InCall(r),
         NEW p \in Posts, Copied(p)
  PROVE  Copied(p)'
<1>1. /\ FSP!IInv /\ page[r] = post[r] /\ post[r] \in Posts
      /\ ~RestartSite /\ UNCHANGED <<page, post>> /\ pc[r] # "idle"
  <2>1. FSP!IInv /\ UNCHANGED <<page, post, restarts>> /\ pc[r] # "idle" /\ restarts \in Nat
    BY CallOthers, SameInv DEF SiteIInv, IInv, TypeOK
  <2> QED
    BY <2>1, CallFacts DEF RestartSite, Restart
<1>2. ASSUME NEW o \in Requests, post[o] = p, GaveUp(o)
      PROVE  Copied(p)'
    BY <1>1, <1>2, GivenUp DEF Copied
<1>3. CASE p # post[r]
  <2>1. /\ FSP!Stored(p)' = FSP!Stored(p)
        /\ \A o \in Requests : page[o] = p => (FSP!Restaging(o)' <=> FSP!Restaging(o))
    BY <1>1, <1>3, CallOthers DEF FSP!Stored, FSP!Restaging
  <2> QED
    BY <1>1, <1>2, <2>1 DEF Copied
<1>4. CASE p = post[r]
  <2>1. CASE FSP!Stored(p) \in Nat \/ FSP!Restaging(r)
    <3>1. \/ FSP!Stored(p)' \in Nat
          \/ FSP!Restaging(r)'
          \/ pc[r] = "rollback" /\ outcome'[r] = "install"
      BY <1>1, <1>4, <2>1, InCallStep, SwapAssumptions, FSP!WholeKept DEF FSP!Stored
    <3> QED
      BY <1>1, <1>4, <3>1 DEF Copied, GaveUp
  <2>2. ASSUME NEW o \in Requests, page[o] = p, FSP!Restaging(o)
        PROVE  o = r
    BY <1>1, <1>4, <2>2 DEF FSP!IInv, FSP!OneSwapPerPage, FSP!Restaging
  <2> QED
    BY <1>2, <2>1, <2>2 DEF Copied
<1> QED
  BY <1>3, <1>4


LEMMA CopyKept ==
  ASSUME SiteIInv, CopyInv, [SiteNext]_siteVars
  PROVE  CopyInv'
<1>1. /\ FSP!IInv /\ TypeOK
      /\ restarts = 0 => StillStored
      /\ restarts = 1 => \A p \in Posts : site[p] # 0 => Copied(p)
  BY SameInv, SameStored
     DEF SiteIInv, IInv, CopyInv, StillStored, Copied, FSP!Restaging
<1>2. restarts' = 0 => StillStored'
  BY <1>1, StoredKept, RunsKept DEF RestartSite, Restart, TypeOK
<1>3. ASSUME restarts' = 1, NEW p \in Posts, site'[p] # 0
      PROVE  Copied(p)'
  <2>1. CASE RestartSite
    <3>1. restarts = 0 /\ UNCHANGED <<final, backup, site>>
      BY <1>1, <1>3, <2>1 DEF RestartSite, Restart, FS!Crash, world, TypeOK
    <3>2. FSP!Stored(p) # Absent /\ FSP!Stored(p) # Torn /\ FSP!Stored(p) \in FSP!Content
      BY <1>1, <1>3, <3>1
         DEF StillStored, FSP!IInv, FSP!PageInv, FSP!TypeOK, FSP!Stored
    <3> QED
      BY <3>1, <3>2 DEF Copied, FSP!Stored, FSP!Content
  <2>2. CASE restarts = 1 /\ \E r \in Requests : InCall(r)
    <3>1. PICK r \in Requests : InCall(r)
      BY <2>2
    <3>2. CASE site'[p] = site[p]
      BY <1>1, <1>3, <2>2, <3>1, <3>2, CopiedInCall
    <3>3. CASE site'[p] # site[p]
      <4>1. final'[post[r]] = rver[r] /\ Prerendered(r)
        BY <3>1, <3>3, CallPlace DEF vars, world, Throw
      <4>2. p = post[r] /\ rver[r] \in Nat
        BY <1>1, <3>1, <3>3, <4>1, CallOthers, CallFacts DEF Prerendered, TypeOK
      <4> QED
        BY <4>1, <4>2 DEF Copied, FSP!Stored
    <3> QED
      BY <3>2, <3>3
  <2>3. CASE restarts = 1 /\ ~RestartSite /\ \A r \in Requests : ~InCall(r)
    <3>1. UNCHANGED <<final, backup, site>> /\ Copied(p)
      BY <1>1, <1>3, <2>3, QuietOutside
    <3>2. CASE FSP!Stored(p) \in Nat
      BY <3>1, <3>2 DEF Copied, FSP!Stored
    <3>3. ASSUME NEW o \in Requests, page[o] = p, FSP!Restaging(o)
          PROVE  Copied(p)'
      BY <2>3, <3>1, <3>3, QuietOutside DEF Copied, FSP!Restaging
    <3>4. ASSUME NEW o \in Requests, post[o] = p, GaveUp(o)
          PROVE  Copied(p)'
      BY <2>3, <3>4, GivenUp DEF Copied
    <3> QED
      BY <3>1, <3>2, <3>3, <3>4 DEF Copied
  <2> QED
    BY <1>3, <2>1, <2>2, <2>3, RunsKept
<1>4. ASSUME NEW p \in Posts
      PROVE  FS!Stored(p)' = FSP!Stored(p)'
  BY DEF FS!Stored, FSP!Stored
<1> QED
  BY <1>2, <1>3, <1>4, GivenUp DEF CopyInv, StillStored, Copied, FSP!Restaging

\* One kill at any moment, in any number of calls, and whatever the restarted
\* process does: a whole copy of every page that was on the site is on disk,
\* unless the rename of a later staging failed too.
THEOREM OneKill == SiteSpec => []CopySurvives
<1>1. SiteInit => CopyInv
  BY DEF SiteInit, Init, CopyInv, GaveUp
<1>2. ASSUME SiteIInv, CopyInv
      PROVE  CopySurvives
  <2>1. SUFFICES ASSUME restarts <= 1, NEW p \in Posts, site[p] # 0
                 PROVE  \/ \E d \in {staging[p], final[p], backup[p]} : d \in Nat
                        \/ \E r \in Requests : post[r] = p /\ outcome[r] = "install"
    BY DEF CopySurvives
  <2>2. /\ FSP!IInv /\ restarts \in {0, 1}
    BY <1>2, <2>1, SameInv DEF SiteIInv, IInv, TypeOK
  <2>3. CASE restarts = 0
    <3>1. FSP!Stored(p) # Absent /\ FSP!Stored(p) # Torn /\ FSP!Stored(p) \in FSP!Content
      BY <1>2, <2>1, <2>2, <2>3, SameStored
         DEF CopyInv, FSP!IInv, FSP!PageInv, FSP!TypeOK, FSP!Stored
    <3> QED
      BY <3>1 DEF FSP!Stored, FSP!Content
  <2>4. CASE restarts = 1
    <3>1. Copied(p)
      BY <1>2, <2>1, <2>4, SameStored DEF CopyInv, Copied, FSP!Restaging
    <3>2. ASSUME NEW o \in Requests, page[o] = p, FSP!Restaging(o)
          PROVE  staging[p] \in Nat
      BY <2>2, <3>2 DEF FSP!IInv, FSP!ThreadInv, FSP!TypeOK, FSP!Restaging, FSP!BeforeInstall
    <3> QED
      BY <3>1, <3>2 DEF Copied, FSP!Stored, GaveUp
  <2> QED
    BY <2>2, <2>3, <2>4
<1> QED
  BY <1>1, <1>2, CopyKept, SiteInvariance, PTL DEF SiteSpec
=============================================================================
