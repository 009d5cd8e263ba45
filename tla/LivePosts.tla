----------------------------- MODULE LivePosts -----------------------------
(***************************************************************************)
(* The requests of the service, from the router to the answer: the route   *)
(* handlers of livepostsvc/routes and the io_context threads that main.cpp *)
(* runs them on, sharing a pool of database connections, the posts, the    *)
(* prerendered site and the redis channel.                                 *)
(*                                                                         *)
(* A handler is a chain of callbacks, each run to its end by one thread:   *)
(* the route function, the callback with the query's result, and the       *)
(* answer posted to the session's strand.  StagePostOp's result callback   *)
(* calls prerenderPost and so keeps its thread; it is three steps here     *)
(* (HandleResult, Prerendered, PublishEvent), all others are one.          *)
(* prerenderPost itself is Prerender and FolderSwap: here it shows the     *)
(* version of the row it was given, does nothing, or throws.  StageSite    *)
(* puts the steps of the swap in its place.                                *)
(*                                                                         *)
(* The process may be stopped by a signal, killed, or end by an exception, *)
(* and is started again: what its requests had in memory is gone, what the *)
(* database, the site and the subscribers have is not.                     *)
(*                                                                         *)
(* Kinds of request: "stage" (stagePost), "posts" (fetchPosts), "author"   *)
(* (fetchAuthor), "newAuthor" (createAuthor), "page" (homePage and         *)
(* healthCheck) and "moderate".  createPost runs a transaction: see        *)
(* CreatePost.                                                             *)
(***************************************************************************)
EXTENDS Integers, FiniteSets

CONSTANTS
    Requests,   \* bound: the requests, each made once
    Posts,      \* the rows of "Posts"
    NoPost,     \* the id of no row
    Kinds,      \* the kinds of request made
    NumThreads, \* --threads
    PoolSize,   \* connections of the database pool
    Faults,     \* what may go wrong
    Overlap,    \* may a post be staged again before the last answer?
    MayStop,    \* may a signal stop the service?
    MaxRestarts \* bound: times the service is started again

AllKinds == {"stage", "posts", "author", "newAuthor", "page", "moderate"}
AllFaults == {"query", "decode", "render", "skip", "publish", "answer"}

ASSUME PostAssumption == NoPost \notin Posts
ASSUME SizeAssumption == NumThreads \in Nat \ {0} /\ PoolSize \in Nat \ {0}
ASSUME OptionAssumption == /\ Kinds \subseteq AllKinds
                           /\ Faults \subseteq AllFaults
                           /\ Overlap \in BOOLEAN
                           /\ MayStop \in BOOLEAN
                           /\ MaxRestarts \in Nat

VARIABLES
    life,    \* of the process: "up", "stopping", or ended
    restarts, \* times it was started again
    st,      \* where a request is
    kind,    \* what it asks
    post,    \* the post it stages
    res,     \* the PGresult of its query
    clears,  \* the times PQclear was called on it
    ver,     \* the version of the row its UPDATE returned
    reply,   \* the answer
    row,     \* updates of each row so far: its version
    site,    \* the version each page of the site shows
    shown,   \* history: the versions that the site has shown
    events   \* the PostStageEvents published: post and version

request == <<st, kind, post, res, clears, ver, reply>>
world == <<row, site, shown, events>>
process == <<life, restarts>>
vars == <<process, request, world>>

Lives == {"up", "stopping", "exited", "crashed"}
Steps == {"new", "waiting", "start", "query", "result", "render", "publish",
          "reply", "done", "orphan"}
Results == {"none", "null", "fatal", "empty", "row"}
Versions == Posts \X Nat

TypeOK ==
    /\ life \in Lives
    /\ restarts \in Nat
    /\ st \in [Requests -> Steps]
    /\ kind \in [Requests -> AllKinds]
    /\ post \in [Requests -> Posts \union {NoPost}]
    /\ res \in [Requests -> Results]
    /\ clears \in [Requests -> Nat]
    /\ ver \in [Requests -> Nat]
    /\ reply \in [Requests -> {"none", "success", "error"}]
    /\ row \in [Posts -> Nat]
    /\ site \in [Posts -> Nat]
    /\ shown \in SUBSET Versions
    /\ events \in SUBSET Versions

Init ==
    /\ life = "up"
    /\ restarts = 0
    /\ st = [r \in Requests |-> "new"]
    /\ kind \in [Requests -> Kinds]
    /\ post = [r \in Requests |-> NoPost]
    /\ res = [r \in Requests |-> "none"]
    /\ clears = [r \in Requests |-> 0]
    /\ ver = [r \in Requests |-> 0]
    /\ reply = [r \in Requests |-> "none"]
    /\ row = [p \in Posts |-> 0]
    /\ site = [p \in Posts |-> 0]
    /\ shown = {}
    /\ events = {}

----------------------------------------------------------------------------
Alive == life \in {"up", "stopping"}

InProgress(r) == st[r] \notin {"new", "done", "orphan"}

\* A thread runs a StagePostOp through prerenderPost and what follows it.
Blocking(r) == st[r] \in {"render", "publish"}

\* The io_context still runs handlers, and has a thread free for one.
CanRun == /\ life = "up"
          /\ Cardinality({r \in Requests : Blocking(r)}) < NumThreads

\* A request with DbRequirement::Required holds a connection of the pool from
\* before its handler starts until its answer is sent.
NeedsDb(r) == kind[r] # "moderate"
Holds_NeverReturned(r) == NeedsDb(r) /\ st[r] \notin {"new", "waiting"}
Holds(r) == NeedsDb(r) /\ InProgress(r) /\ st[r] # "waiting"

Goto(r, step) == st' = [st EXCEPT ![r] = step] /\ UNCHANGED reply

\* sendSuccess, sendError: the answer is posted to the session's strand.
Answer(r, a) ==
    /\ st' = [st EXCEPT ![r] = "reply"]
    /\ reply' = [reply EXCEPT ![r] = a]

Clear(r) == clears' = [clears EXCEPT ![r] = @ + 1]

----------------------------------------------------------------------------
\* A request arrives and is routed; if its route requires the database it
\* waits for a connection.
Accept(r, p) ==
    /\ life = "up"
    /\ st[r] = "new"
    /\ kind[r] # "stage" => p = NoPost
    /\ p = NoPost \/ Overlap \/ ~\E o \in Requests : InProgress(o) /\ post[o] = p
    /\ post' = [post EXCEPT ![r] = p]
    /\ Goto(r, IF NeedsDb(r) THEN "waiting" ELSE "start")
    /\ UNCHANGED <<process, kind, res, clears, ver, world>>

Acquire(r) ==
    /\ life = "up"
    /\ st[r] = "waiting"
    /\ Cardinality({o \in Requests : Holds(o)}) < PoolSize
    /\ Goto(r, "start")
    /\ UNCHANGED <<process, kind, post, res, clears, ver, world>>

\* start() of an Op runs parseReq, which answers an invalid request, and doWork,
\* which sends the query of a valid one.
StartStage(r) ==
    /\ CanRun
    /\ st[r] = "start" /\ kind[r] = "stage"
    /\ Answer(r, "error") \/ Goto(r, "query")
    /\ UNCHANGED <<process, kind, post, res, clears, ver, world>>

\* fetchPosts has no parameters that could be invalid.
StartFetchPosts(r) ==
    /\ CanRun
    /\ st[r] = "start" /\ kind[r] = "posts"
    /\ Goto(r, "query")
    /\ UNCHANGED <<process, kind, post, res, clears, ver, world>>

\* fetchAuthor: an empty authId is an error.
StartFetchAuthor(r) ==
    /\ CanRun
    /\ st[r] = "start" /\ kind[r] = "author"
    /\ Answer(r, "error") \/ Goto(r, "query")
    /\ UNCHANGED <<process, kind, post, res, clears, ver, world>>

StartCreateAuthor(r) ==
    /\ CanRun
    /\ st[r] = "start" /\ kind[r] = "newAuthor"
    /\ Answer(r, "error") \/ Goto(r, "query")
    /\ UNCHANGED <<process, kind, post, res, clears, ver, world>>

\* healthCheck and homePage.
StartPage(r) ==
    /\ CanRun
    /\ st[r] = "start" /\ kind[r] = "page"
    /\ Answer(r, "success")
    /\ UNCHANGED <<process, kind, post, res, clears, ver, world>>

\* moderate: an invalid request, or a producer that throws, is an error.
StartModerate(r) ==
    /\ CanRun
    /\ st[r] = "start" /\ kind[r] = "moderate"
    /\ Answer(r, "success") \/ Answer(r, "error")
    /\ UNCHANGED <<process, kind, post, res, clears, ver, world>>

\* The database runs the query.  An UPDATE of a row gives the row its next
\* version, also when the connection is lost before the result is read.
Execute(r) ==
    /\ st[r] = "query"
    /\ st' = [st EXCEPT ![r] = "result"]
    /\ \/ /\ kind[r] = "stage" /\ post[r] \in Posts
          /\ row' = [row EXCEPT ![post[r]] = @ + 1]
          /\ ver' = [ver EXCEPT ![r] = row[post[r]] + 1]
          /\ \/ res' = [res EXCEPT ![r] = "row"]
             \/ "query" \in Faults /\ res' = [res EXCEPT ![r] = "null"]
       \/ /\ kind[r] = "stage" /\ post[r] = NoPost
          /\ res' = [res EXCEPT ![r] = "empty"]
          /\ UNCHANGED <<row, ver>>
       \/ /\ kind[r] # "stage"
          /\ \E x \in {"empty", "row"} : res' = [res EXCEPT ![r] = x]
          /\ kind[r] = "newAuthor" => res'[r] = "row"
          /\ UNCHANGED <<row, ver>>
       \/ /\ "query" \in Faults
          /\ \E x \in {"null", "fatal"} : res' = [res EXCEPT ![r] = x]
          /\ UNCHANGED <<row, ver>>
    /\ UNCHANGED <<process, kind, post, clears, reply, site, shown, events>>

\* The query of a process that is gone may still be run, or not.
ExecuteOrphan(r) ==
    /\ st[r] = "orphan"
    /\ st' = [st EXCEPT ![r] = "done"]
    /\ \/ /\ kind[r] = "stage" /\ post[r] \in Posts
          /\ row' = [row EXCEPT ![post[r]] = @ + 1]
       \/ UNCHANGED row
    /\ UNCHANGED <<process, kind, post, res, clears, ver, reply, site,
                   shown, events>>

\* onWorkResult of every Op, up to the rows: no result, or one of an error.
Failed(r) ==
    \/ res[r] = "null" /\ Answer(r, "error") /\ UNCHANGED clears
    \/ res[r] = "fatal" /\ Answer(r, "error") /\ Clear(r)

\* dump() or sendSuccess throws, after PQclear(res) but inside the same try:
\* the catch clause clears the result again and sends an error.  Clearing it
\* again is undefined behaviour, which the process may or may not survive.
CaughtLate(r) ==
    /\ clears' = [clears EXCEPT ![r] = @ + 2]
    /\ Answer(r, "error")
    /\ life' \in {life, "crashed"}

\* Rows are decoded by the model library, which throws a std::exception or a
\* std::string; FetchPostOp and FetchAuthorOp catch only the former.  The
\* other leaves the handler and run(), and ends the process.
Decoded(r) ==
    \/ /\ res[r] \in {"empty", "row"}
       /\ \/ Answer(r, "success") /\ Clear(r) /\ UNCHANGED life
          \/ "answer" \in Faults /\ CaughtLate(r)
    \/ /\ "decode" \in Faults /\ res[r] = "row"
       /\ \/ Answer(r, "error") /\ Clear(r) /\ UNCHANGED life
          \/ life' = "crashed" /\ UNCHANGED <<st, reply, clears>>

HandlePosts(r) ==
    /\ CanRun
    /\ st[r] = "result" /\ kind[r] = "posts"
    /\ (Failed(r) /\ UNCHANGED life) \/ Decoded(r)
    /\ UNCHANGED <<restarts, kind, post, res, ver, world>>

HandleAuthor(r) ==
    /\ CanRun
    /\ st[r] = "result" /\ kind[r] = "author"
    /\ (Failed(r) /\ UNCHANGED life) \/ Decoded(r)
    /\ UNCHANGED <<restarts, kind, post, res, ver, world>>

\* CreateAuthorOp: the new row, or an exception of either kind.
HandleNewAuthor(r) ==
    /\ CanRun
    /\ st[r] = "result" /\ kind[r] = "newAuthor"
    /\ \/ Failed(r) /\ UNCHANGED life
       \/ /\ res[r] = "row" /\ Clear(r) /\ UNCHANGED life
          /\ Answer(r, "success") \/ ("decode" \in Faults /\ Answer(r, "error"))
       \/ res[r] = "row" /\ "answer" \in Faults /\ CaughtLate(r)
    /\ UNCHANGED <<restarts, kind, post, res, ver, world>>

\* Faulty variant: the event goes out before the page is rendered.
HandleStaged_EventFirst(r) ==
    /\ CanRun
    /\ st[r] = "result" /\ kind[r] = "stage"
    /\ \/ Failed(r) /\ UNCHANGED events
       \/ res[r] = "empty" /\ Clear(r) /\ Answer(r, "success") /\ UNCHANGED events
       \/ /\ res[r] = "row" /\ Clear(r) /\ Goto(r, "render")
          /\ events' = events \union {<<post[r], ver[r]>>}
    /\ UNCHANGED <<process, kind, post, res, ver, row, site, shown>>

\* Faulty variant: the row is not cleared before prerenderPost.
HandleStaged_Leaks(r) ==
    /\ CanRun
    /\ st[r] = "result" /\ kind[r] = "stage"
    /\ \/ Failed(r)
       \/ res[r] = "empty" /\ Clear(r) /\ Answer(r, "success")
       \/ res[r] = "row" /\ UNCHANGED clears /\ Goto(r, "render")
    /\ UNCHANGED <<process, kind, post, res, ver, world>>

\* StagePostOp: no row is a success; the row that was updated is cleared and
\* handed to prerenderPost.
HandleStaged(r) ==
    /\ CanRun
    /\ st[r] = "result" /\ kind[r] = "stage"
    /\ \/ Failed(r) /\ UNCHANGED life
       \/ res[r] = "empty" /\ Clear(r) /\ Answer(r, "success") /\ UNCHANGED life
       \/ res[r] = "empty" /\ "answer" \in Faults /\ CaughtLate(r)
       \/ res[r] = "row" /\ Clear(r) /\ Goto(r, "render") /\ UNCHANGED life
       \/ /\ res[r] = "row" /\ "decode" \in Faults
          /\ Clear(r) /\ Answer(r, "error") /\ UNCHANGED life
    /\ UNCHANGED <<restarts, kind, post, res, ver, world>>

\* The catch clauses of StagePostOp::onWorkResult: PQclear(res), sendError.
\* The result was cleared before prerenderPost: clearing it again is undefined
\* behaviour, which the process may or may not survive.
Caught(r) ==
    /\ Clear(r)
    /\ Answer(r, "error")
    /\ life' \in {life, "crashed"}

\* prerenderPost returns or throws.  It also returns, with nothing done, when
\* it could not make its pipes or its child.
Prerendered(r) ==
    LET p == post[r] IN
    /\ Alive
    /\ st[r] = "render"
    /\ \/ /\ site' = [site EXCEPT ![p] = ver[r]]
          /\ shown' = shown \union {<<p, ver[r]>>}
          /\ Goto(r, "publish")
          /\ UNCHANGED <<life, clears>>
       \/ /\ "skip" \in Faults
          /\ Goto(r, "publish")
          /\ UNCHANGED <<life, site, shown, clears>>
       \/ /\ "render" \in Faults
          /\ Caught(r)
          /\ UNCHANGED <<site, shown>>
    /\ UNCHANGED <<restarts, kind, post, res, ver, row, events>>

\* Faulty variant: an exception of the redis sender is swallowed.
PublishEvent_Swallows(r) ==
    /\ Alive
    /\ st[r] = "publish"
    /\ Answer(r, "success")
    /\ \/ events' = events \union {<<post[r], ver[r]>>}
       \/ "publish" \in Faults /\ UNCHANGED events
    /\ UNCHANGED <<process, kind, post, res, clears, ver, row, site, shown>>

\* redis->publish, and the answer, which may fail after the event is out.
PublishEvent(r) ==
    /\ Alive
    /\ st[r] = "publish"
    /\ \/ /\ events' = events \union {<<post[r], ver[r]>>}
          /\ Answer(r, "success")
          /\ UNCHANGED <<life, clears>>
       \/ "publish" \in Faults /\ Caught(r) /\ UNCHANGED events
       \/ /\ "answer" \in Faults /\ Caught(r)
          /\ events' = events \union {<<post[r], ver[r]>>}
    /\ UNCHANGED <<restarts, kind, post, res, ver, row, site, shown>>

\* The strand sends the answer; the operation ends and its connection goes
\* back to the pool.
Send(r) ==
    /\ CanRun
    /\ st[r] = "reply"
    /\ Goto(r, "done")
    /\ UNCHANGED <<process, kind, post, res, clears, ver, world>>

\* The signal handler: ioc.stop().  No handler starts after it.
Stop ==
    /\ MayStop
    /\ life = "up"
    /\ life' = "stopping"
    /\ UNCHANGED <<restarts, request, world>>

\* Faulty variant: main returns without joining the threads.
Exit_NoJoin ==
    /\ life = "stopping"
    /\ life' = "exited"
    /\ UNCHANGED <<restarts, request, world>>

\* Every run() has returned and every thread has been joined.
Exit ==
    /\ life = "stopping"
    /\ \A r \in Requests : ~Blocking(r)
    /\ life' = "exited"
    /\ UNCHANGED <<restarts, request, world>>

\* The process is killed.
Crash ==
    /\ Alive
    /\ restarts < MaxRestarts
    /\ life' = "crashed"
    /\ UNCHANGED <<restarts, request, world>>

\* It is started again.  The requests it had not answered are forgotten, but
\* for the queries that the database has not run yet.
Restart ==
    /\ ~Alive
    /\ restarts < MaxRestarts
    /\ restarts' = restarts + 1
    /\ life' = "up"
    /\ st' = [r \in Requests |-> IF st[r] = "query" THEN "orphan"
                                 ELSE IF InProgress(r) THEN "done" ELSE st[r]]
    /\ res' = [r \in Requests |-> IF InProgress(r) THEN "none" ELSE res[r]]
    /\ clears' = [r \in Requests |-> IF InProgress(r) THEN 0 ELSE clears[r]]
    /\ reply' = [r \in Requests |-> IF InProgress(r) THEN "none" ELSE reply[r]]
    /\ UNCHANGED <<kind, post, ver, world>>

\* All requests are answered, or the process has ended.
Quiescent ==
    /\ \/ \A r \in Requests : st[r] = "done"
       \/ ~Alive /\ \A r \in Requests : st[r] \notin {"query", "orphan"}
    /\ UNCHANGED vars

\* What advances a request, but for the two steps of a blocked thread.
Handler(r) ==
    \/ Acquire(r) \/ StartStage(r) \/ StartFetchPosts(r) \/ StartFetchAuthor(r)
    \/ StartCreateAuthor(r) \/ StartPage(r) \/ StartModerate(r)
    \/ Execute(r) \/ ExecuteOrphan(r) \/ HandlePosts(r) \/ HandleAuthor(r)
    \/ HandleNewAuthor(r) \/ HandleStaged(r) \/ Send(r)

Advance(r) == Handler(r) \/ Prerendered(r) \/ PublishEvent(r)

Next ==
    \/ \E r \in Requests : \/ \E p \in Posts \union {NoPost} : Accept(r, p)
                           \/ Advance(r)
    \/ Stop \/ Exit \/ Crash \/ Restart
    \/ Quiescent

Spec == Init /\ [][Next]_vars

\* Threads, database and renderings keep going, and after a signal main ends.
FairSpec ==
    Spec /\ WF_vars(Exit) /\ \A r \in Requests : WF_vars(Advance(r))

----------------------------------------------------------------------------
\* The inductive invariant: how far the callbacks of a request have come
\* decides what its query has returned, been cleared, shown and answered.
Fresh == {"new", "waiting", "start", "query", "orphan"}

RequestInv(r) ==
    /\ st[r] \in Fresh => res[r] = "none"
    /\ st[r] \in Fresh \union {"result"} => clears[r] = 0
    /\ st[r] \in Fresh \union {"result", "render", "publish"} => reply[r] = "none"
    /\ Blocking(r) => kind[r] = "stage" /\ res[r] = "row" /\ clears[r] = 1
    /\ kind[r] = "stage" /\ res[r] = "row" => post[r] \in Posts

IInv == TypeOK /\ \A r \in Requests : RequestInv(r)

\* A post that is not staged twice at the same time: the request in progress
\* has the newest version that any request was given, and the site shows the
\* newest version of the row once a request for it is past its rendering.
SerialInv ==
    \A r \in Requests :
        LET p == post[r] IN
        /\ st[r] \in Fresh \ {"orphan"} => ver[r] = 0
        /\ kind[r] = "stage" /\ res[r] = "row" => ver[r] # 0
        /\ p \in Posts => ver[r] <= row[p]
        /\ p \in Posts /\ InProgress(r)
             => \A o \in Requests \ {r} :
                   post[o] = p => ~InProgress(o) /\ (ver[r] # 0 => ver[o] < ver[r])
        /\ kind[r] = "stage" /\ res[r] = "row" /\ ver[r] = row[p]
             /\ (st[r] = "publish" \/ reply[r] = "success")
             => site[p] = ver[r]

\* The version in the hands of a request that has still to render is newer than
\* the page that is there.
AheadInv ==
    /\ \A p \in Posts : site[p] <= row[p]
    /\ \A r \in Requests :
         kind[r] = "stage" /\ res[r] = "row" /\ st[r] \in {"result", "render"}
             => site[post[r]] < ver[r]

\* With "skip" out of the way, the page comes first, then its event, then the
\* answer.
PublishInv(r) ==
    /\ st[r] = "publish" => <<post[r], ver[r]>> \in shown
    /\ kind[r] = "stage" /\ reply[r] = "success" /\ res[r] = "row"
         => <<post[r], ver[r]>> \in events \intersect shown

\* Whatever the order of the callbacks, a subscriber who is told of a version
\* of a post finds that the site has shown it: the event follows the page.
EventFollowsPage == events \subseteq shown

\* A stage request is answered with success only when its page has been shown
\* and its event sent, or when there was no such post.
SuccessMeansPublished ==
    \A r \in Requests :
        kind[r] = "stage" /\ reply[r] = "success" /\ res[r] = "row"
            => <<post[r], ver[r]>> \in events \intersect shown

\* A stage request that was answered with success and whose update of the row
\* is still the newest is what the site shows: no older rendering has come
\* after it, whatever was killed, failed or ran late.
SiteCatchesUp ==
    \A r \in Requests :
        /\ st[r] = "done" /\ kind[r] = "stage"
        /\ reply[r] = "success" /\ res[r] = "row"
        /\ ver[r] = row[post[r]]
        => site[post[r]] = ver[r]

\* Over all the lives of the process the site is a PageStore: no page goes back
\* to an older version of its row, even if a query of a killed process or a
\* rendering that took long comes after the restart.
Site == INSTANCE PageStore WITH Pages <- Posts, Absent <- 0, stored <- site
SiteAdvances == Site!Spec

\* Whatever is thrown where, no PGresult is lost: by the time of the answer it
\* has been given back, for an answer "success" exactly once and for an error at
\* most once too often (see ResultClearedOnce).
ResultGivenBack ==
    \A r \in Requests :
        st[r] \in {"reply", "done"}
            => IF res[r] \in {"none", "null"} THEN clears[r] = 0
               ELSE /\ clears[r] \in {1, 2}
                    /\ reply[r] = "success" => clears[r] = 1

\* Every PGresult is given back exactly once by the time of the answer.  Not so
\* when something throws after PQclear: prerenderPost, publish, dump, sendSuccess.
ResultClearedOnce ==
    \A r \in Requests :
        st[r] \in {"reply", "done"}
            => clears[r] = (IF res[r] \in {"none", "null"} THEN 0 ELSE 1)

\* Every request that was accepted is answered while the service is up: none
\* waits for ever for a thread or for a connection.
EveryRequestAnswered ==
    \A r \in Requests : InProgress(r) ~> (st[r] = "done" \/ life # "up")
=============================================================================
