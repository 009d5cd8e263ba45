---------------------------- MODULE CreatePost -----------------------------
(***************************************************************************)
(* createPost of livepostsvc/routes: the one operation that runs a         *)
(* transaction (BEGIN, INSERT, COMMIT or ROLLBACK) and produces an event   *)
(* after it, for several requests that share the connections of a pool.    *)
(*                                                                         *)
(* The base class DbOpBase and the pool belong to the server library; they *)
(* are external, and modelled from how CreatePostOp drives them: a valid   *)
(* request is given a connection and a BEGIN; state_ = Rollback or Commit  *)
(* followed by advance() sends that command; the connection goes back to   *)
(* the pool when the operation ends.  An INSERT ... RETURNING never        *)
(* answers PGRES_COMMAND_OK, so that branch of onWorkResult is left out.   *)
(***************************************************************************)
EXTENDS Integers, FiniteSets

CONSTANTS
    Requests,    \* bound: the requests, each made once and for its own post
    Connections, \* the database pool
    None,        \* no connection
    Faults,      \* what may go wrong
    MayCrash     \* may the service be killed?

AllFaults == {"insert", "lost", "decode", "commit", "redis"}

ASSUME NoneAssumption == None \notin Connections
ASSUME OptionAssumption == Faults \subseteq AllFaults /\ MayCrash \in BOOLEAN

VARIABLES
    up,       \* the service runs
    st,       \* where an operation is
    conn,     \* the connection it holds
    res,      \* the PGresult its callback gets
    reply,    \* its answer
    tx,       \* each connection's transaction: "idle", "open" or "failed"
    pending,  \* the posts inserted in it
    rows,     \* the posts committed
    stream    \* the posts whose event was produced

database == <<tx, pending, rows>>
vars == <<up, st, conn, res, reply, database, stream>>

Steps == {"new", "waiting", "start", "insert", "onWork", "commit", "onCommit",
          "rollback", "done"}
Replies == {"none", "success", "invalid", "workFailed", "commitFailed",
            "eventFailed"}

TypeOK ==
    /\ up \in BOOLEAN
    /\ st \in [Requests -> Steps]
    /\ conn \in [Requests -> Connections \union {None}]
    /\ res \in [Requests -> {"none", "null", "fatal", "row", "command"}]
    /\ reply \in [Requests -> Replies]
    /\ tx \in [Connections -> {"idle", "open", "failed"}]
    /\ pending \in [Connections -> SUBSET Requests]
    /\ rows \in SUBSET Requests
    /\ stream \in SUBSET Requests

Init ==
    /\ up = TRUE
    /\ st = [r \in Requests |-> "new"]
    /\ conn = [r \in Requests |-> None]
    /\ res = [r \in Requests |-> "none"]
    /\ reply = [r \in Requests |-> "none"]
    /\ tx = [k \in Connections |-> "idle"]
    /\ pending = [k \in Connections |-> {}]
    /\ rows = {}
    /\ stream = {}

----------------------------------------------------------------------------
Free(k) == \A r \in Requests : conn[r] # k

Goto(r, step) == st' = [st EXCEPT ![r] = step]
Reply(r, a) == reply' = [reply EXCEPT ![r] = a]
Result(r, x) == res' = [res EXCEPT ![r] = x]

\* Faulty variant: a failed operation keeps its connection.
Finish_KeepsConnection(r) == Goto(r, "done") /\ UNCHANGED conn

\* The operation is over and its connection goes back to the pool.
Finish(r) == Goto(r, "done") /\ conn' = [conn EXCEPT ![r] = None]

\* A transaction ends; that of a lost connection is rolled back by the server,
\* and the pool connects again.
EndTx(k) ==
    /\ tx' = [tx EXCEPT ![k] = "idle"]
    /\ pending' = [pending EXCEPT ![k] = {}]

Discard(k) == EndTx(k) /\ UNCHANGED rows
Store(k) == EndTx(k) /\ rows' = rows \union pending[k]

\* The process ends, and the server rolls every transaction back.
Die ==
    /\ up' = FALSE
    /\ tx' = [k \in Connections |-> "idle"]
    /\ pending' = [k \in Connections |-> {}]
    /\ UNCHANGED <<st, conn, res, reply, rows, stream>>

----------------------------------------------------------------------------
\* The route requires the database: the request waits for a connection.
Arrive(r) ==
    /\ st[r] = "new"
    /\ Goto(r, "waiting")
    /\ UNCHANGED <<up, conn, res, reply, database, stream>>

Acquire(r, k) ==
    /\ st[r] = "waiting" /\ Free(k)
    /\ Goto(r, "start")
    /\ conn' = [conn EXCEPT ![r] = k]
    /\ UNCHANGED <<up, res, reply, database, stream>>

\* start(): parseReq answers a request that is not JSON or not a valid post.
Reject(r) ==
    /\ st[r] = "start"
    /\ Finish(r)
    /\ Reply(r, "invalid")
    /\ UNCHANGED <<up, res, database, stream>>

\* BEGIN, which is only a warning inside a transaction that was left open:
\* what that holds stays in it.
Begin(r) ==
    LET k == conn[r] IN
    /\ st[r] = "start"
    /\ Goto(r, "insert")
    /\ tx' = [tx EXCEPT ![k] = IF @ = "idle" THEN "open" ELSE @]
    /\ UNCHANGED <<up, conn, res, reply, pending, rows, stream>>

\* doWork: INSERT ... RETURNING, and what the server makes of it.
Insert(r) ==
    LET k == conn[r] IN
    /\ st[r] = "insert"
    /\ Goto(r, "onWork")
    /\ \/ /\ tx[k] = "open"
          /\ Result(r, "row")
          /\ pending' = [pending EXCEPT ![k] = @ \union {r}]
          /\ UNCHANGED <<tx, rows>>
       \/ /\ "insert" \in Faults
          /\ Result(r, "fatal")
          /\ tx' = [tx EXCEPT ![k] = "failed"]
          /\ pending' = [pending EXCEPT ![k] = {}]
          /\ UNCHANGED rows
       \/ "lost" \in Faults /\ Result(r, "null") /\ Discard(k)
    /\ UNCHANGED <<up, conn, reply, stream>>

\* Faulty variant: a failure ends the operation without a ROLLBACK.
OnWorkResult_NoRollback(r) ==
    /\ st[r] = "onWork"
    /\ \/ res[r] = "row" /\ Goto(r, "commit") /\ UNCHANGED <<reply, conn>>
       \/ /\ res[r] \in {"null", "fatal"} \/ "decode" \in Faults
          /\ Finish(r)
          /\ Reply(r, "workFailed")
    /\ UNCHANGED <<up, res, database, stream>>

\* handleWork and onWorkResult.  A row that does not decode is an error if the
\* exception is a std::exception; any other ends the process.
OnWorkResult(r) ==
    /\ st[r] = "onWork"
    /\ \/ /\ res[r] = "row" /\ Goto(r, "commit")
          /\ UNCHANGED <<up, conn, res, reply, database, stream>>
       \/ /\ res[r] \in {"null", "fatal"} \/ "decode" \in Faults
          /\ Goto(r, "rollback")
          /\ Reply(r, "workFailed")
          /\ UNCHANGED <<up, conn, res, database, stream>>
       \/ res[r] = "row" /\ "decode" \in Faults /\ Die

\* state_ = Rollback, advance(): ROLLBACK.
Rollback(r) ==
    /\ st[r] = "rollback"
    /\ Finish(r)
    /\ Discard(conn[r])
    /\ UNCHANGED <<up, res, reply, stream>>

\* state_ = Commit, advance(): COMMIT, which may be done although its result
\* never arrives.  COMMIT of a failed transaction succeeds, with nothing done.
Commit(r) ==
    LET k == conn[r] IN
    /\ st[r] = "commit"
    /\ Goto(r, "onCommit")
    /\ \/ Result(r, "command") /\ Store(k)
       \/ "commit" \in Faults /\ Result(r, "fatal") /\ Discard(k)
       \/ "lost" \in Faults /\ Result(r, "null") /\ (Store(k) \/ Discard(k))
    /\ UNCHANGED <<up, conn, reply, stream>>

\* Faulty variant: the result of COMMIT is not looked at.
OnCommit_Unchecked(r) ==
    /\ st[r] = "onCommit"
    /\ Finish(r)
    /\ Reply(r, "success")
    /\ stream' = stream \union {r}
    /\ UNCHANGED <<up, res, database>>

\* Faulty variant: an exception of the redis sender is swallowed.
OnCommit_Swallows(r) ==
    /\ st[r] = "onCommit"
    /\ Finish(r)
    /\ \/ res[r] \in {"null", "fatal"} /\ Reply(r, "commitFailed") /\ UNCHANGED stream
       \/ /\ res[r] = "command"
          /\ Reply(r, "success")
          /\ stream' \in {stream, stream \union {r}}
    /\ UNCHANGED <<up, res, database>>

\* onCommit: the event is produced and the post returned.  An exception of the
\* redis sender, raised before or after the event is in the stream, makes the
\* answer an error although the post is there.
OnCommit(r) ==
    /\ st[r] = "onCommit"
    /\ Finish(r)
    /\ \/ res[r] \in {"null", "fatal"} /\ Reply(r, "commitFailed") /\ UNCHANGED stream
       \/ /\ res[r] = "command"
          /\ stream' = stream \union {r}
          /\ Reply(r, "success")
       \/ /\ res[r] = "command" /\ "redis" \in Faults
          /\ stream' \in {stream, stream \union {r}}
          /\ Reply(r, "eventFailed")
    /\ UNCHANGED <<up, res, database>>

Crash == up /\ MayCrash /\ Die

\* Every request has been answered, or the service is gone.
Quiescent ==
    /\ ~up \/ \A r \in Requests : st[r] = "done"
    /\ UNCHANGED vars

Continue(r) ==
    /\ up
    /\ \/ \E k \in Connections : Acquire(r, k)
       \/ Reject(r) \/ Begin(r) \/ Insert(r) \/ OnWorkResult(r)
       \/ Rollback(r) \/ Commit(r) \/ OnCommit(r)

Next ==
    \/ \E r \in Requests : (up /\ Arrive(r)) \/ Continue(r)
    \/ Crash
    \/ Quiescent

Spec == Init /\ [][Next]_vars

\* The pool hands out its free connections, the database answers and the
\* io_context runs the callbacks.  Clients need not send anything.
FairSpec == Spec /\ \A r \in Requests : WF_vars(Continue(r))

----------------------------------------------------------------------------
\* The inductive invariant: a connection in use holds at most its own
\* request's post, one that is free holds none.
Waiting == {"new", "waiting"}
Working == {"start", "insert", "onWork", "commit"}

RequestInv(r) ==
    /\ conn[r] # None => st[r] \in Working \union {"onCommit", "rollback"}
    /\ conn[r] = None => st[r] \in Waiting \union {"done"}
    /\ st[r] = "onWork" => res[r] \in {"null", "fatal", "row"}
    /\ st[r] = "onCommit" => res[r] \in {"null", "fatal", "command"}
    /\ st[r] \in Waiting \union Working \union {"onCommit"} => reply[r] = "none"
    /\ st[r] \in Waiting \union Working \union {"rollback"} => r \notin rows
    /\ st[r] = "onCommit" /\ res[r] = "command" => r \in rows
    /\ st[r] = "rollback" => reply[r] = "workFailed"
    /\ reply[r] \in {"invalid", "workFailed"} => r \notin rows
    /\ reply[r] = "success" => r \in rows \intersect stream
    /\ r \in stream => r \in rows

OneHolder ==
    \A r, o \in Requests : conn[r] = conn[o] /\ conn[r] # None => r = o

TransactionInv(r) ==
    LET k == conn[r] IN
    up /\ k # None =>
      /\ pending[k] \subseteq {r}
      /\ st[r] = "start" => tx[k] = "idle" /\ pending[k] = {}
      /\ st[r] = "insert" => tx[k] = "open" /\ pending[k] = {}
      /\ st[r] = "onWork" /\ res[r] = "row" => tx[k] = "open" /\ pending[k] = {r}
      /\ st[r] = "commit" => tx[k] = "open" /\ pending[k] = {r}
      /\ st[r] = "onCommit" => tx[k] = "idle" /\ pending[k] = {}

\* A connection that waits in the pool is in no transaction: whoever gets it
\* next commits its own work and nobody else's.
PoolIsClean ==
    \A k \in Connections : Free(k) => tx[k] = "idle" /\ pending[k] = {}

IInv ==
    /\ TypeOK
    /\ OneHolder
    /\ PoolIsClean
    /\ \A r \in Requests : RequestInv(r) /\ TransactionInv(r)

Log == INSTANCE PostLog

\* createPost implements PostLog: whatever fails, each COMMIT adds one post,
\* and no event is produced for a post that is not in the table.
CreatesPosts == Log!Spec

\* A client who was told that the work failed has no post, now or later: no
\* other request's COMMIT takes its row along.
FailedWorkLeavesNoPost ==
    \A r \in Requests : reply[r] \in {"invalid", "workFailed"} => r \notin rows

\* A client who was told of success has a post, and its event is in the stream.
SuccessMeansAnnounced ==
    \A r \in Requests : reply[r] = "success" => r \in rows \intersect stream

\* Every request is answered while the service is up: failures give the
\* connection back to those that wait for one.
EveryCreateAnswered ==
    \A r \in Requests : st[r] = "waiting" ~> (reply[r] # "none" \/ ~up)
=============================================================================
