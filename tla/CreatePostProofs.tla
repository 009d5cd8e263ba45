------------------------- MODULE CreatePostProofs --------------------------
(***************************************************************************)
(* Proofs about CreatePost for any requests, pool and faults.              *)
(***************************************************************************)
EXTENDS CreatePost, TLAPS

USE NoneAssumption, OptionAssumption

LEMMA InitInv == Init => IInv
BY DEF Init, IInv, TypeOK, Steps, Replies, OneHolder, PoolIsClean, Free,
       RequestInv, TransactionInv, Waiting, Working

\* What the holder of a connection may do to the database: it changes only
\* the transaction of its own connection, and commits nothing but its own post.
LEMMA OwnTransaction ==
  ASSUME IInv, NEW r \in Requests, up, Continue(r), up'
  PROVE  /\ \A k \in Connections :
              k # conn[r] => tx'[k] = tx[k] /\ pending'[k] = pending[k]
         /\ rows \subseteq rows' /\ rows' \subseteq rows \union {r}
         /\ stream \subseteq stream' /\ stream' \subseteq stream \union {r}
<1> USE DEF IInv, TypeOK, database, Discard, Store, EndTx, Finish, Goto, Reply, Result
<1>1. CASE \E k \in Connections : Acquire(r, k)
  BY <1>1 DEF Acquire
<1>2. CASE Reject(r) \/ Begin(r) \/ Rollback(r)
  BY <1>2 DEF Reject, Begin, Rollback
<1>3. CASE Insert(r)
  BY <1>3 DEF Insert
<1>4. CASE OnWorkResult(r) \/ OnCommit(r)
  BY <1>4 DEF OnWorkResult, OnCommit, Die
<1>5. CASE Commit(r)
  <2>1. conn[r] \in Connections /\ pending[conn[r]] = {r}
    BY <1>5 DEF Commit, RequestInv, TransactionInv, Waiting
  <2> QED
    BY <1>5, <2>1 DEF Commit
<1> QED
  BY <1>1, <1>2, <1>3, <1>4, <1>5 DEF Continue

\* It leaves the other requests alone, and takes no connection they hold.
LEMMA OtherRequests ==
  ASSUME IInv, NEW r \in Requests, Continue(r)
  PROVE  /\ \A o \in Requests \ {r} :
              /\ st'[o] = st[o] /\ conn'[o] = conn[o]
              /\ res'[o] = res[o] /\ reply'[o] = reply[o]
         /\ OneHolder'
<1> USE DEF IInv, TypeOK, OneHolder, Finish, Goto, Reply, Result
<1>1. CASE \E k \in Connections : Acquire(r, k)
  BY <1>1 DEF Acquire, Free
<1>2. CASE Reject(r) \/ Begin(r) \/ Rollback(r)
  BY <1>2 DEF Reject, Begin, Rollback
<1>3. CASE Insert(r) \/ Commit(r)
  BY <1>3 DEF Insert, Commit
<1>4. CASE OnWorkResult(r) \/ OnCommit(r)
  BY <1>4 DEF OnWorkResult, OnCommit, Die
<1> QED
  BY <1>1, <1>2, <1>3, <1>4 DEF Continue

LEMMA ContinueTypes ==
  ASSUME IInv, NEW r \in Requests, Continue(r)
  PROVE  TypeOK'
<1> USE DEF IInv, TypeOK, Steps, Replies, database, Discard, Store, EndTx, Finish,
            Goto, Reply, Result
<1>1. CASE \E k \in Connections : Acquire(r, k)
  BY <1>1 DEF Acquire
<1>2. CASE Reject(r) \/ Begin(r)
  BY <1>2 DEF Reject, Begin
<1>3. CASE Rollback(r)
  BY <1>3 DEF Rollback
<1>4. CASE Insert(r)
  BY <1>4 DEF Insert
<1>5. CASE OnWorkResult(r)
  <2>1. CASE Die
    BY <2>1, <1>5 DEF OnWorkResult, Die
  <2>2. CASE ~Die
    BY <2>2, <1>5 DEF OnWorkResult
  <2> QED
    BY <2>1, <2>2
<1>6. CASE OnCommit(r)
  BY <1>6 DEF OnCommit
<1>7. CASE Commit(r)
  <2>1. conn[r] \in Connections
    BY <1>7 DEF Commit, RequestInv, Waiting
  <2> QED
    BY <1>7, <2>1 DEF Commit
<1> QED
  BY <1>1, <1>2, <1>3, <1>4, <1>5, <1>6, <1>7 DEF Continue

LEMMA ContinueOwn ==
  ASSUME IInv, NEW r \in Requests, Continue(r)
  PROVE  RequestInv(r)' /\ TransactionInv(r)'
<1>1. TypeOK /\ RequestInv(r) /\ TransactionInv(r) /\ up
  BY DEF IInv, Continue
<1> USE DEF TypeOK, RequestInv, TransactionInv, Waiting, Working, database, Discard,
            Store, EndTx, Finish, Goto, Reply, Result
<1>2. CASE \E k \in Connections : Acquire(r, k)
  BY <1>1, <1>2 DEF Acquire, IInv, PoolIsClean
<1>3. CASE Reject(r) \/ Rollback(r)
  BY <1>1, <1>3 DEF Reject, Rollback
<1>4. CASE Begin(r)
  <2>1. conn[r] \in Connections
    BY <1>1, <1>4 DEF Begin
  <2> QED
    BY <1>1, <1>4, <2>1 DEF Begin
<1>5. CASE Insert(r)
  BY <1>1, <1>5 DEF Insert
<1>6. CASE OnWorkResult(r)
  BY <1>1, <1>6 DEF OnWorkResult, Die
<1>7. CASE Commit(r)
  BY <1>1, <1>7 DEF Commit
<1>8. CASE OnCommit(r)
  BY <1>1, <1>8 DEF OnCommit
<1> QED
  BY <1>2, <1>3, <1>4, <1>5, <1>6, <1>7, <1>8 DEF Continue

LEMMA ContinuePool ==
  ASSUME IInv, NEW r \in Requests, Continue(r)
  PROVE  PoolIsClean'
<1>1. TypeOK /\ PoolIsClean /\ OneHolder /\ RequestInv(r) /\ TransactionInv(r) /\ up
  BY DEF IInv, Continue
<1> SUFFICES ASSUME NEW k \in Connections, Free(k)'
             PROVE  tx'[k] = "idle" /\ pending'[k] = {}
  BY DEF PoolIsClean
<1>2. CASE ~up'
  BY <1>1, <1>2 DEF Continue, TypeOK, Acquire, Reject, Begin, Insert, OnWorkResult,
                    Rollback, Commit, OnCommit, Die, Finish
<1>3. CASE up' /\ conn[r] # k
  <2>1. \A o \in Requests \ {r} : conn[o] # k
    BY OtherRequests DEF Free
  <2>2. Free(k)
    BY <1>3, <2>1 DEF Free
  <2> QED
    BY <1>1, <1>3, <2>2, OwnTransaction DEF PoolIsClean
<1>4. CASE up' /\ conn[r] = k
  <2>1. conn'[r] # conn[r]
    BY <1>4 DEF Free
  <2>2. CASE Rollback(r)
    BY <1>1, <1>4, <2>2 DEF Rollback, Discard, EndTx, TypeOK
  <2>3. CASE Reject(r) \/ OnCommit(r)
    BY <1>1, <1>4, <2>3, NoneAssumption
       DEF Reject, OnCommit, database, TransactionInv
  <2>4. CASE \E c \in Connections : Acquire(r, c)
    BY <1>1, <1>4, <2>4 DEF Acquire, RequestInv, Working
  <2>5. CASE Begin(r) \/ Insert(r) \/ OnWorkResult(r) \/ Commit(r)
    BY <2>1, <2>5 DEF Begin, Insert, OnWorkResult, Commit, Die
  <2> QED
    BY <2>2, <2>3, <2>4, <2>5 DEF Continue
<1> QED
  BY <1>2, <1>3, <1>4, <1>1 DEF Continue, TypeOK

LEMMA ContinueStep ==
  ASSUME IInv, NEW r \in Requests, Continue(r)
  PROVE  IInv'
<1>1. TypeOK' /\ OneHolder' /\ PoolIsClean' /\ RequestInv(r)' /\ TransactionInv(r)'
  BY ContinueTypes, OtherRequests, ContinuePool, ContinueOwn
<1>2. ASSUME NEW o \in Requests, o # r
      PROVE  RequestInv(o)' /\ TransactionInv(o)'
  <2>1. RequestInv(o) /\ TransactionInv(o) /\ up
    BY DEF IInv, Continue
  <2>2. st'[o] = st[o] /\ conn'[o] = conn[o] /\ res'[o] = res[o] /\ reply'[o] = reply[o]
    BY <1>2, OtherRequests
  <2>3. CASE ~up'
    BY <2>1, <2>2, <2>3 DEF RequestInv, TransactionInv, Waiting, Working, Continue, Acquire,
         Reject, Begin, Insert, OnWorkResult, Rollback, Commit, OnCommit, Die
  <2>4. CASE up'
    <3>1. (o \in rows' <=> o \in rows) /\ (o \in stream' <=> o \in stream)
      BY <1>2, <2>1, <2>4, OwnTransaction
    <3>2. RequestInv(o)'
      BY <2>1, <2>2, <3>1 DEF RequestInv, Waiting, Working
    <3>3. conn[o] \in Connections => conn[o] # conn[r]
      BY <1>2, NoneAssumption DEF IInv, OneHolder
    <3>4. conn[o] \in Connections =>
            tx'[conn[o]] = tx[conn[o]] /\ pending'[conn[o]] = pending[conn[o]]
      BY <2>1, <2>4, <3>3, OwnTransaction
    <3>5. conn[o] \in Connections \union {None}
      BY DEF IInv, TypeOK
    <3>6. TransactionInv(o)'
      BY <2>1, <2>2, <2>4, <3>4, <3>5 DEF TransactionInv
    <3> QED
      BY <3>2, <3>6
  <2> QED
    BY <2>1, <2>3, <2>4, <1>1 DEF TypeOK
<1> QED
  BY <1>1, <1>2 DEF IInv

LEMMA Inductive == IInv /\ [Next]_vars => IInv'
<1> SUFFICES ASSUME IInv, [Next]_vars
             PROVE  IInv'
  OBVIOUS
<1>1. CASE \E r \in Requests : up /\ Arrive(r)
  BY <1>1 DEF Arrive, Goto, database, IInv, TypeOK, Steps, OneHolder, PoolIsClean, Free,
              RequestInv, TransactionInv, Waiting, Working
<1>2. CASE \E r \in Requests : Continue(r)
  BY <1>2, ContinueStep
<1>3. CASE Crash
  <2> USE <1>3 DEF Crash, Die, IInv
  <2>1. TypeOK'
    BY DEF TypeOK
  <2>2. OneHolder' /\ PoolIsClean'
    BY DEF OneHolder, PoolIsClean
  <2>3. ASSUME NEW r \in Requests
        PROVE  RequestInv(r)' /\ TransactionInv(r)'
    BY DEF RequestInv, TransactionInv, Waiting, Working
  <2> QED
    BY <2>1, <2>2, <2>3
<1>4. CASE UNCHANGED vars
  BY <1>4 DEF vars, database, IInv, TypeOK, OneHolder, PoolIsClean, Free, RequestInv,
              TransactionInv, Waiting, Working
<1> QED
  BY <1>1, <1>2, <1>3, <1>4 DEF Next, Quiescent

\* Whatever fails, a connection is in a transaction only for the request that
\* holds it, and the answers agree with the table and the stream.
THEOREM Invariance == Spec => []IInv
BY InitInv, Inductive, PTL DEF Spec

\* Who is told that the work failed has no post, and never gets one from the
\* COMMIT of another request.
THEOREM NoStrayPost == Spec => []FailedWorkLeavesNoPost
<1>1. IInv => FailedWorkLeavesNoPost
  BY DEF IInv, RequestInv, FailedWorkLeavesNoPost
<1> QED
  BY <1>1, Invariance, PTL

\* Who is told of success has a post, and its event was produced.
THEOREM Announced == Spec => []SuccessMeansAnnounced
<1>1. IInv => SuccessMeansAnnounced
  BY DEF IInv, RequestInv, SuccessMeansAnnounced
<1> QED
  BY <1>1, Invariance, PTL

\* createPost implements PostLog: a step creates one post, announces one that
\* is there, or changes neither the table nor the stream.
THEOREM Refinement == Spec => CreatesPosts
<1>1. Init => Log!Init
  BY DEF Init, Log!Init
<1>2. ASSUME IInv, [Next]_vars
      PROVE  [Log!Next]_<<rows, stream>>
  <2> USE DEF Log!Next, Log!Create, Log!Announce
  <2>1. CASE \E r \in Requests : up /\ Arrive(r)
    BY <2>1 DEF Arrive, database
  <2>2. ASSUME NEW r \in Requests, Continue(r)
        PROVE  [Log!Next]_<<rows, stream>>
    <3>1. CASE \E k \in Connections : Acquire(r, k)
      BY <3>1 DEF Acquire, database
    <3>2. CASE Reject(r) \/ Begin(r) \/ Rollback(r) \/ OnWorkResult(r)
      BY <3>2 DEF Reject, Begin, Rollback, Discard, OnWorkResult, Die, database
    <3>3. CASE Insert(r)
      BY <3>3 DEF Insert, Discard
    <3>4. CASE Commit(r)
      <4>1. pending[conn[r]] = {r} /\ r \notin rows
        BY <1>2, <2>2, <3>4 DEF Commit, Continue, IInv, TypeOK, RequestInv, TransactionInv, Waiting, Working
      <4> QED
        BY <3>4, <4>1 DEF Commit, Store, Discard
    <3>5. CASE OnCommit(r)
      BY <1>2, <3>5 DEF OnCommit, IInv, RequestInv, database
    <3> QED
      BY <2>2, <3>1, <3>2, <3>3, <3>4, <3>5 DEF Continue
  <2>3. CASE Crash \/ UNCHANGED vars
    BY <2>3 DEF Crash, Die, vars, database
  <2> QED
    BY <1>2, <2>1, <2>2, <2>3 DEF Next, Quiescent
<1> QED
  BY <1>1, <1>2, Invariance, PTL DEF Spec, CreatesPosts, Log!Spec
=============================================================================
