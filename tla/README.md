# A specification of LivePostSvc

TLA+ modules, model-checking configurations and proofs for the LivePosts REST
service of this repository (`src/livepostsvc`): a Boost.Asio server that keeps
posts in PostgreSQL, prerenders a staged post with a node child process, puts
the page on a static site by swapping directories, and tells others through
redis.

## The system

| Component | Source | State it keeps | Operations |
|---|---|---|---|
| Folder swap | `prerender/Prerender.cpp` 21-90 | the directories `posts/<slug>`, its `.bak` and the staging directory | `atomic_folder_swap`, `swap_single_post` |
| Prerender | `prerender/Prerender.cpp` 92-266, `Prerender.h` | two pipes and a child process per call; the descriptor table of the process | `prerenderPost`, `write_all` |
| Request handlers | `routes/*.cpp`, `routes/Routes.h` | one Op object per request: parameters, `PGresult`, the answer | `stagePost`, `fetchPosts`, `fetchAuthor`, `createAuthor`, `moderate`, `homePage`, `healthCheck` |
| Create post | `routes/CreatePost.cpp` | a transaction on a pooled connection; the answer body | `createPost` |
| Slugger | `routes/slugger.h` | none (pure functions) | `ascii_normalize`, `slugify_basic`, `smart_trim`, `short_hash`, `make_slug` |
| Main | `main.cpp` | the environment, the io_context and its threads, the signal set, the pool, the route table | start-up checks, self-test, listening, `ioc.run`, the signal handler, join and exit code |
| Load client | `cpputest/load.cpp`, `load.h` | a list of posts and the ids it has read | puts posts through `createPost`, sleeps, deletes them through a route that does not exist |
| Legacy routes | `routes/Routes.cpp` | a transaction | `allocatePost`, `findUserById`: not compiled, not routed |
| External | RwllttNet library, redis library, `posts-vite-app` | sessions, connections, the stream, the renderer | `PQClient`, `PQClientPool`, `DbOpBase`, `publish`, `produce` |

How they interact. A request is routed by the server library; a route with
`DbRequirement::Required` is given a connection of the pool first. The handler
parses, sends its query and returns; the callback with the `PGresult` runs on
any io thread and dispatches the answer to the session's strand. `stagePost`
calls `prerenderPost` in that callback, which forks the renderer, talks to it
over two pipes while blocking its thread, and swaps the directories; then the
event is published and the answer sent. `createPost` goes through a transaction
driven by `DbOpBase` and produces a stream event after COMMIT. A signal calls
`ioc.stop()`; `main` joins the threads and returns.

What is hard about it, and where it is looked at:

- *Directories shared by threads, and a process killed between two renames*
  (FolderSwap). Correct means: a page once served is never lost, torn or
  replaced by an older one, and an error leaves the page that was there.
- *fork in a multi-threaded server* (Prerender). A child inherits the pipe ends
  of all the calls in progress; end of file depends on every one of them being
  closed. A signal may break off a call that blocks. Correct means: calls end,
  replies are whole, descriptors return.
- *Callbacks over a fixed set of threads and connections, in a process that
  may be stopped, killed and started again* (LivePosts). Correct means: page
  before event before answer, no result lost, each request answered.
- *A row in the database, a directory on the disk and an answer, none of which
  changes together with another* (StageSite). Correct means: what readers find
  is the newest version that was answered with success, a kill loses no page,
  and a signal cuts no swap in half.
- *Threads that are made while handlers already run, exceptions and signals at
  any time* (ServiceMain). Correct means: no thread outlives `main`, the exit
  code can be trusted, the signal is not lost.
- *Failure in and after a transaction* (CreatePost). Correct means: no event
  without a post, no success without both, no row left for another request's
  COMMIT.
- *A client that has to guess what happened* (LoadClient). Correct means: the
  ids it has are of posts that exist, and only named errors leave it in doubt.
- *String processing at its boundaries* (Slugger).

The hazards, each with its line and the properties that are about it, are
listed in `PROJECT.json`.

## The modules

| Module | What it is |
|---|---|
| `PageStore` | abstract: pages are absent or published in a version; a step publishes a newer version of one page |
| `FolderSwap`, `MCFolderSwap`, `FolderSwapProofs` | the swap, one action per system call; its instances; its proofs |
| `Prerender`, `MCPrerender`, `PrerenderProofs` | `prerenderPost` with its pipes and child; its instances; its proofs |
| `LivePosts`, `MCLivePosts`, `LivePostsProofs` | requests, threads, pool, posts, site, events and restarts; its instances; its proofs |
| `StageSite`, `MCStageSite`, `StageSiteProofs` | the composition: the requests of `LivePosts` with the steps of `FolderSwap` inside `stagePost`; its instance; its proofs, the refinement of `LivePosts` among them |
| `PostLog` | abstract: posts are added one at a time and announced once they are there |
| `CreatePost`, `CreatePostProofs` | the transaction and the event; its proofs |
| `LoadClient`, `MCLoadClient`, `LoadClientProofs` | the load client beside other clients of `CreatePost`; the instance of both; its proofs |
| `ServiceMain`, `MCServiceMain`, `ServiceMainProofs` | `main` from its first check to its return; its instance; its proofs |
| `Slugger`, `SluggerProofs` | the slug functions over sequences of byte kinds; their proofs |

`LivePosts` says what `stagePost` promises with the rendering in one step, and
`StageSite` shows that the code with all its system calls keeps that promise;
`FolderSwap` and `CreatePost` implement `PageStore` and `PostLog` in the same
way; so does the site of `LivePosts`, over restarts. `ServiceMain` treats handlers as black boxes that end, which `Prerender`
shows of the only one that blocks.

Definitions whose name ends in `_Something` and whose comment begins with
"Faulty variant" are deliberately wrong versions of the definition before the
underscore. They are used nowhere; substituting one for its original must make
the property that `PROJECT.json` names under `mutants` fail.

### FolderSwap

`staging`, `final` and `backup` hold, for each page, the content of its three
directories: `Absent`, `Torn` (some of its files) or the version of a whole
rendering. `pc[t]` is the system call thread `t` makes next. `remove_all` takes
two steps (entries, then the directory), so that a crash or another thread can
come between. `rename` fails if its source is missing or its target is there
and not empty; `Faults` adds I/O errors on any call (an error of
`exists(finalDir)` counts as "not there", as it does in the code). A `Torn` directory may be
empty, so a rename onto it may either work or fail. `Overlap` says whether two
calls may work on one page at the same time; nothing in the service prevents it.
`Crash` is the end and the restart of the process between any two calls: the
threads forget what they did, the directories stay.

### Prerender

`fds[q]` is the set of pipe ends that process `q` holds; `Fork` copies the
service's whole set. A reader sees end of file when no process holds the write
end. `HighEnds` are the ends that may get a descriptor of 1024 or more, beyond
the child's closing loop. Payload and output are counted in chunks; a pipe
holds `Capacity`. The child reads its input to the end, writes its output and
exits; nothing in the repository fixes the order, so it may also write before it
has read everything, but it keeps reading while its output is blocked, as node's
streams do; with `ChildFaults` it may die at any point.

A signal to the service breaks off a system call that blocks, because the
handlers of asio's signal set are installed without SA_RESTART. `write_all`
tries again (line 103), so nothing of it is in the model; `ReadInterrupted` ends
the loop of reads as a -1 does in the code, and `Wait` may go on to the swap
without having reaped the child. `cut[c]` remembers which calls were broken off.
A child that lives on after an interrupted read may still be rendering when its
call has ended: for the directories this is an overlap of two renderings, which
FolderSwap and StageSite exclude where they assume `~Overlap`.

A write without a reader raises SIGPIPE, which nothing in the service ignores,
so it ends the service; the branch where write_all throws instead is kept for
environments that ignore the signal.

### LivePosts

One request per element of `Requests`, with one action per route for the first
callback (`StartStage`, `StartFetchPosts`, ...) and one for the callback with
the result (`HandleStaged`, `HandlePosts`, ...). Only `stagePost` occupies a
thread over several steps (`render`, `publish`); `CanRun` is "a thread is free
and the io_context not stopped". A row's version is the number of its UPDATEs,
a page's the version it was rendered from. `prerenderPost` is one step here: it
shows the version, does nothing (`skip`: no pipe or no child) or throws
(`render`). `ver[r]` is read by the query and used after the rendering, so the
order in which overlapping stagings reach the site is free. `answer` is an
exception of `dump()` or `sendSuccess`, which the handlers call inside their try
after `PQclear` (`CaughtLate`, and the last way out of `PublishEvent`). Clearing a
result a second time is undefined behaviour: the process may or may not survive it.

`Stop` is `ioc.stop()`, `Exit` the return of `main` after the join, `Crash` a
kill, `Restart` the next process. A request of the old process is forgotten; a
query it had sent is an `orphan`, which the database runs later or not at all.

### StageSite

The state is that of `LivePosts` and of `FolderSwap`; a request is the thread
of its own call. `Fork`, the steps of the swap, `InstallPage` and `Throw` take
the place of the one step `Prerendered`: the rename to `finalDir` is the moment
at which `site` and `shown`, which are histories here, change, since nothing
after it can fail. `final` is what readers find. `RowVersion` relates the two
ways of counting: the renderings of a page and the versions of its row.
`SiteAssumption` fixes what is needed for the promises to hold: stagings of one
post do not overlap, `prerenderPost` can make its pipes and child, and the
rename of the rollback does not fail.

### CreatePost

`tx[k]` and `pending[k]` are the transaction of a connection and the rows in
it, `rows` the committed ones, `stream` the events. A result may be lost after
the server has executed its command, for COMMIT too. `DbOpBase` is not in the
repository: that it sends BEGIN before `doWork`, and COMMIT or ROLLBACK as
`state_` says on `advance()`, is inferred from how `CreatePostOp` uses it.
Likewise that the pool hands out only connections whose holder has finished.

### LoadClient

`EXTENDS CreatePost`. The client is a loop in one thread: `Put` sends a request
when no other is under way (or finds the service gone), `Receive` takes its
answer, of which only a post with an id counts, `Sleep` ends a batch, `Delete`
asks for the deletion of each post of it, which does nothing because `main.cpp`
has no such route, and `NextLoop` begins again. Requests that are not `Mine`
are those of other clients. The threads `t1` and `t2` of the source are
comments.

### ServiceMain

`at` is the place in `main`, `wrong` what is wrong with the environment or the
command line, `node` and `script` the two files of the self-test. `thread[t]`
is what each thread does: it is in `run()`, runs a handler, or is back.
`Unwind` is the way of an exception through `main`: the vector of threads is
destroyed first, and with a thread in it that is not joined the process ends
(`terminated`) before a catch clause can return a failure. A signal before
`signals.add` kills; the first one after it is delivered once, to any thread
in `run()`; further ones do nothing.

### Slugger

A title is a sequence of kinds of bytes; accented letters are the two bytes of
UTF-8. `pc` is the function at work. The loop of `ascii_normalize` and the one
that replaces white space and collapses dashes in `slugify_basic` take a byte at
a time; what follows on the whole string (no dash at an end, the cut of
`smart_trim`) is one step each. The hash is one symbol.

## What the runs check

| Run | Instance | Shows |
|---|---|---|
| `swap` | 2 threads, 2 pages, 3 renderings of each, every fault but the rollback's, no crash, fairness | refinement of PageStore; outage only inside a swap, and it ends; a failure keeps the page; the backup that is deleted is not the only copy |
| `swap_crash` | the same with 1 crash | a call that returns has its rendering served, over whatever the crash left |
| `swap_overlap` (violation) | two calls for one page | the rollback finds no backup |
| `swap_leftover` (violation) | 1 crash | the leftover backup that is deleted was the only copy |
| `calls` | 2 calls on 2 threads, low descriptors, every fault, fairness | isolation of children, whole replies and swaps only of a finished child's unless a signal breaks off read or waitpid, no leak, a missing reader only by the death of the call's own child, nobody waiting for another call's child; calls end |
| `high_descriptors` (violation) | 2 calls, high descriptors, no faults, fairness | end of file never comes: both calls block |
| `stage` | 3 stagings of 2 posts, 2 threads, 2 connections, every fault but `skip` and the rollback's, a signal, 1 kill and restart, symmetry | refinement of LivePosts; page before event before success; readers find the newest answered version; a copy survives the kill; an orderly exit cuts no swap |
| `answers` | 2 requests of any kind, 1 thread, 1 connection, every fault, a signal, 1 kill and restart, fairness | every result given back, exactly once for a success and at most once too often for an error; every request answered |
| `cleared_twice` (violation) | 2 stagings, exceptions of prerenderPost or publish | the result is cleared twice |
| `create` | the load client with 2 requests and another client with 1, 2 connections, every fault, a kill, fairness | refinement of PostLog; failed work leaves no post; success means announced; the client's ids are of posts, and it is in doubt only after named errors; all are answered |
| `main` | 2 workers, `--threads` 0 to 3, at most one thing wrong, 3 handlers, signals at any time, fairness | no thread left; an honest exit code; as many threads as asked for; a signal ends the service |
| `slug` | titles of up to 6 bytes, limit 3 | well-formed slugs; trimming by whole words |

The violations are disagreements between the code and its own comments; they
are listed with quotations under `findings` in `PROJECT.json`.

The models contain more behaviours that a reader should know of, which no run
is about because no comment or test promises otherwise, or because reading the
code settles them:

- Step 2 of `atomic_folder_swap` ignores the error of removing a leftover backup
  ("best effort; on error we still continue", Prerender.cpp:45), but the rename
  of step 3 then fails because the backup is not empty (line 51), and the swap
  throws. `FailureKeepsPage` shows that the old page stays.
- An exception between `fork` and `waitpid` (`write_all`, line 99 on; no output,
  line 226; an unreadable or error reply, lines 231 and 236) leaves the child
  unreaped for good, and one of `write_all` the two pipe ends open as well:
  `DescriptorsReturned` excepts that outcome.
- A signal that arrives while `read` blocks ends the loop of reads as if the
  output were complete (line 216): the call throws, or goes on if all was there.
  One that arrives during `waitpid` ("Wait for child", line 240) lets the swap
  begin with the child unreaped (line 242). `ReplyIsWhole` names both.
- The other handlers too run `dump()` and `sendSuccess` inside their try after
  `PQclear` (FetchPost.cpp:111-117, FetchAuthor.cpp:119-125,
  CreateAuthor.cpp:114-128, and StagePost.cpp:122-123 and 143): an exception of
  these clears the result a second time. `ResultGivenBack` says what is left:
  nothing is lost, and a request that is answered with success has its result
  cleared once.
- `stagePost` answers success when `prerenderPost` could not create its pipes or
  its child, since these are plain returns (lines 114, 130).
  `SuccessMeansPublished` is checked without them.
- `ioc.stop()` abandons the requests in progress, so a staged row may never be
  rendered; the comment of main.cpp:336 waits "until signaled and work is
  complete". `ExitIsOrderly` says what is kept: a handler that has begun runs
  to its end.
- " - ready for signal to stop." (main.cpp:310) is printed, and requests are
  accepted, before `signals.add`: a signal in between kills the process.
- `async_wait` is called once (main.cpp:319): a second signal does nothing, also
  while the join waits for a handler.
- The self-test accepts a file that anybody may execute or read (main.cpp:53),
  not only one that the service may.
- With `--threads 0` the server listens first and `reserve` throws then
  (main.cpp:328); `main` returns a failure without having handled anything.
- `fetchPosts` lists a row from its UPDATE on, before its page is there; if the
  rendering fails, until the post is staged again.
- A post that is staged again under another title gets another directory; the
  page under the old one stays.
- A client that creates a post again after "COMMIT redis event failed", a lost
  COMMIT result or no answer at all has it twice. `UnknownOnlyAfterError` shows
  that these are the only cases in which it does not know.
- The home page has "just hard coded page data" but requires a database
  connection (main.cpp:289) and waits for one.
- An accented letter puts a capital into the slug: the first byte of its UTF-8
  form is looked up in the Latin-1 table of `ascii_normalize`, which holds
  capitals and is not lowered; the second byte is dropped (slugger.h:81).

**Bounds.** Two threads and two pages are what two swaps need to disturb each
other or not; three renderings let a page be published, replaced, and replaced
again over a leftover. In Prerender two calls on two threads suffice for
inheritance in both directions, and let a call begin while the other's child is
still alive or already dead; payload and output of two chunks through a pipe of
one make every write and read block. In StageSite three stagings give two of
one post and one of another, or three of one, so that a staging follows a
failed, a killed or a successful one while another page is being swapped; one
restart separates any two of them, and the query of the killed process may run
after the second. Three transactions on two connections give each connection a
second user. Two worker threads and `--threads` up to three cover a vector that
is empty, partly and wholly filled when an exception unwinds it; three handlers
let every thread be in one when the signal comes. A slug limit of 3 with titles
of 6 puts a dash before, at, just behind and beyond the limit. Requests, calls
and renderings are each made once or counted; the guards and initial states name the bound
(`MaxRenders`, `MaxCrashes`, `MaxRestarts`, `MaxHandlers`, `MaxTitle`).

`stage` uses the symmetry of its requests: it checks invariants and a step
simulation, no liveness. `CHECK_DEADLOCK FALSE` is set in `high_descriptors`,
where two children really wait on each other for ever.

**Fairness.** FolderSwap and Prerender assume weak fairness of each thread
that is inside a call and of each child: the operating system schedules them. In
Prerender this leaves out the signals that break off a call and the crash of a
child: either would end a wait that nothing else ends.
LivePosts assumes it of each request's next step (the database answers, the
renderer ends, which Prerender shows, and the io_context runs a handler that
is ready), and of the end of `main` after a signal; no request has to arrive.
CreatePost assumes it of each operation that has begun, LoadClient of the client
too: it is a loop without an exit. ServiceMain assumes weak fairness of the
steps of `main`, of a thread that returns from a stopped `run()`, and of the end
of a handler (Prerender's `EveryCallEnds` is the case that is not obvious);
and strong fairness of the delivery of the signal, because threads go in and
out of handlers while it waits and the io_context takes completions in the
order of their queue. No fairness is assumed of faults, signals, kills or
clients other than the load client.

## What is proved

All proofs are checked by tlapm for every value of the constants.

- **FolderSwap.** `TypeCorrect` is unconditional. The rest is under `Careful`:
  at most one call per page at a time and a rename back that does not fail;
  `swap_overlap` shows that the first cannot be dropped. The inductive
  invariant `IInv` holds across crashes; it adds to the types that one thread
  works on a page (`OneSwapPerPage`), what staging, final and backup hold at
  each step of it (`ThreadInv`: its rendering is the newest of the page and
  whole until it is installed) and what is true of a page that nobody works on
  (`PageInv`). It is needed because neither "never lost" nor "never older" says
  why a rename must succeed or what a rollback brings back. From it `Served`,
  crashes included, and under `NoCrash` also `OutageBounded`,
  `LeftoverRedundant` (`swap_leftover` shows what a crash does to it),
  `Rollbacks`, and `Refinement`: Spec implements `PageStore`.
- **Prerender.** `Invariance`: which ends the service holds at each step of a
  call (`ServiceInv`), that a live child holds its own ends of the two pipes
  (`ChildInv`), and hence that, unless a signal broke the read off, the service is
  past its last read only when the child has ended and all of its output is there
  (`ReplyInv`). `WholeReply`,
  `NoLeak` and `ReaderStays` follow without assumptions; `ChildrenIsolated` and
  `NoCircle` under `HighEnds = {}`. `NoCircle` is the safety half of "calls end":
  a call that waits in a read, a write or `waitpid` waits for its own child,
  which can go on, or for a child just forked that has still to close its copies
  of the pipe ends. It rests on the lemma `Holders` (who may hold a pipe end) and
  on the counts of what was written and taken in `ServiceInv` and `ChildInv`.
- **LivePosts.** `Invariance` for any requests, threads, pool, faults and
  restarts; `PageEventAnswer` and `SuccessPublished` unless prerenderPost may
  return with nothing done; `GivenBack` under every fault, and `ClearedOnce` unless
  prerenderPost, publish, `dump()` or `sendSuccess` may throw (`cleared_twice`
  shows why); `CatchesUp` when
  stagings of a post do not overlap either. The last needs `SerialInv`: the one
  request in progress for a post has a higher version than all before it, and
  the site follows it. `Advances` adds `AheadInv` (what has still to be rendered
  is newer than what is there): the site implements `PageStore` also over kills,
  restarts and the late queries of killed processes. TLC has checked `AheadInv`
  and the property on the instance of `stage`; no run repeats it.
- **StageSite.** Under `SiteAssumption`. `SiteInvariance` joins the invariants
  of the two parts with `CallInv`, which says how the place of a request and
  that of its swap correspond, and that the directory holds the rendering of
  the newest answered version. The steps of the swap are not proved again: the
  lemmas of `FolderSwapProofs` are cited through an instance. `Refinement`
  shows that the composition implements `LivePosts`, so `SiteInOrder`,
  `SiteSuccess`, `SiteInStep` and `SiteForward` are corollaries of the theorems
  there; `NewestServed` and
  `OrderlyExit` speak of the directories, which LivePosts does not know. The
  latter has an invariant of its own: before the first restart a page once
  installed is in `finalDir` or aside for the length of a swap, and a version
  that was shown and not announced is that of a request on its way. `OneKill` (`CopySurvives`) needs another,
  `CopyInv`: after one restart a page that was shown is whole on the site or
  aside, or it is the rendering in the staging directory of the call that found
  the leftover and removed it, or that call has failed at the rename. Its steps
  cite `WholeKept` of `FolderSwapProofs`: a step of a swap that finds a whole copy, in
  place, aside or in its own staging directory, leaves one, unless it ends a call
  whose rename has failed.
- **CreatePost.** `Invariance`: a connection is held by one request, holds at
  most that request's row, and is clean in the pool. From it `NoStrayPost`,
  `Announced`, and `Refinement`: Spec implements `PostLog`. The proof rests on
  one lemma, `OwnTransaction`: a step of a request changes no other
  connection and commits no other row.
- **LoadClient.** `ClientInvariance`: every step of the client and the service
  is one of CreatePost or leaves it alone, so its invariant carries over; added
  to it is what the client knows. `UnknownAfterError` follows from both.
  `IsClient` states the refinement (the behaviours of the loaded service are
  behaviours of CreatePost), and `LoadedLog` and `LoadedAnswers` carry over what
  was proved there, down to `PostLog`.
- **ServiceMain.** `Invariance` for any number of threads and handlers:
  `PlaceInv` counts the threads made at each place of `main`, `ThreadsInv` says
  what they may be doing, and that no request is handled in an environment the
  checks should have refused. `NoneLeft`, `HonestExit` and `Strength` follow,
  the last by counting.
- **Slugger.** `Invariance` says, for titles of any length, what each function
  hands to the next: only bytes a slug may have; single dashes, and none at an
  end; the cut. `WellFormed` and `WholeWords` follow for every limit. The loops
  need no induction over the sequence, since they are steps of the
  specification; of the operators, `NoEndsKeeps` is about the two dashes erased
  at the ends, and `TrimmedAt` shows by cases (short enough, a dash in reach, none)
  that `smart_trim` cuts behind the last whole word that fits. `MaxOfBounded` is
  what they need of the greatest element of a set.

Assumed of the constants, in the modules and by name: finiteness where things
are counted, that "no value" is no value, sizes at least 1, and for StageSite
what is said above. TLC evaluates each of them in a run.

Only model-checked: the liveness properties (`OutageEnds`, `EveryCallEnds`,
`EveryRequestAnswered`, `EveryCreateAnswered`, `ClientMovesOn`, `SignalEnds`),
which are out of the prover's reach, since they need fairness and ENABLED. Every
invariant and action property of the passing runs is a theorem. What the runs
with an expected violation look for is, of course, not: `cleared_twice`,
`swap_overlap`, `swap_leftover` and `high_descriptors` show that the
corresponding assumptions of the theorems cannot be dropped.

## Not modelled

- `routes/Routes.cpp` (`allocatePost`, `findUserById`): it is in no target of
  `livepostsvc/CMakeLists.txt`, its declarations in `Routes.h` and its routes in
  `main.cpp` are comments. No state of the program reaches it.
- xxhash32 and `short_hash`: 32-bit arithmetic whose digits no property tells
  apart.
- The renderer (`posts-vite-app`, a submodule), and with it the choice of
  directory names: pages are named by their post.
- RwllttNet and the redis libraries beyond what the handlers rely on; sessions,
  timeouts of connections and HTTP itself are theirs.
- Logging, the text of messages, the headers of answers, build and deployment
  files.
- A result of the renderer with `ok` false but without an "error" member is
  treated by the code like any other result, and is not told apart here.
- An exception of `produce` that is no std::exception (CreatePost.cpp:187 catches
  nothing else) would end the process; in CreatePost that is one more reason for
  its `Crash`.
- The PGRES_COMMAND_OK branch of `CreatePostOp`, which an INSERT ... RETURNING
  never takes.

## Plan

1. `PageStore`, `FolderSwap` and its proofs: done.
2. `Prerender` and its proofs: done.
3. `LivePosts` with restarts and orphaned queries, and its proofs: done.
4. `PostLog`, `CreatePost` and its proofs: done.
5. `Slugger` and its proofs: done.
6. `StageSite`, the composition of 1 and 3, its refinement and proofs: done.
7. `ServiceMain` and its proofs: done.
8. `LoadClient`, a client in doubt about its posts, and its proofs: done.
9. Left: stagings that overlap in StageSite, once something in the service
   orders them.
