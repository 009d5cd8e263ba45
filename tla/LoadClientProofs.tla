------------------------- MODULE LoadClientProofs --------------------------
(***************************************************************************)
(* Proofs about LoadClient.  What the service does is CreatePostProofs'    *)
(* matter: its invariant, and that a step of one request leaves the others *)
(* alone, are cited from there.                                            *)
(***************************************************************************)
EXTENDS LoadClient, CreatePostProofs

USE ClientAssumption

LEMMA LoadInitInv == LoadInit => IInv /\ ClientInv
BY InitInv DEF LoadInit, Init, ClientInv

\* A step of the client, or of those beside it, is a step of createPost or none.
LEMMA LoadStepIsStep == LoadNext => [Next]_vars
<1> SUFFICES ASSUME LoadNext
             PROVE  [Next]_vars
  OBVIOUS
<1>1. CASE Client
  BY <1>1 DEF Client, Put, Receive, Delete, Sleep, NextLoop, Next
<1>2. CASE Elsewhere
  BY <1>2 DEF Elsewhere, Next
<1> QED
  BY <1>1, <1>2 DEF LoadNext

\* The answer to a request that has one does not change any more.
LEMMA AnswerStays ==
  ASSUME IInv, NEW r \in Requests, NEW o \in Requests, Continue(r),
         reply[o] # "none"
  PROVE  reply'[o] = reply[o]
<1>1. CASE o # r
  BY <1>1, OtherRequests
<1>2. CASE o = r
  <2>1. TypeOK /\ st[r] \in {"rollback", "done"}
    BY <1>2 DEF IInv, TypeOK, Steps, RequestInv, Waiting, Working
  <2> QED
    BY <1>2, <2>1 DEF Continue, Acquire, Reject, Begin, Insert, OnWorkResult,
                      Rollback, Commit, OnCommit
<1> QED
  BY <1>1, <1>2

\* The service does not disturb what the client knows.
LEMMA ElsewhereStep ==
  ASSUME IInv, ClientInv, Elsewhere
  PROVE  ClientInv'
<1> USE DEF Elsewhere, ClientInv, client
<1>1. CASE \E r \in Requests \ Mine : up /\ Arrive(r)
  BY <1>1 DEF Arrive, Goto, database, IInv, TypeOK
<1>2. ASSUME NEW r \in Requests, Continue(r)
      PROVE  ClientInv'
  <2>1. rows \subseteq rows' /\ stream \subseteq stream'
    <3>1. CASE up'
      BY <1>2, <3>1, OwnTransaction DEF Continue
    <3>2. CASE ~up'
      BY <1>2, <3>2 DEF Continue, Acquire, Reject, Begin, Insert, OnWorkResult,
                        Rollback, Commit, OnCommit, Die
    <3> QED
      BY <3>1, <3>2
  <2>2. ASSUME NEW o \in Mine \ tried
        PROVE  st'[o] = "new"
    <3>1. o # r
      BY <1>2, <2>2 DEF Continue, Acquire, Reject, Begin, Insert, OnWorkResult,
                        Rollback, Commit, OnCommit
    <3> QED
      BY <1>2, <2>2, <3>1, OtherRequests
  <2>3. ASSUME NEW o \in tried \ {asked}, up'
        PROVE  reply'[o] # "none" /\ (reply'[o] = "success" => o \in known)
    <3>1. up /\ o \in Requests
      BY <1>2 DEF Continue
    <3> QED
      BY <1>2, <2>3, <3>1, AnswerStays
  <2> QED
    BY <2>1, <2>2, <2>3
<1>3. CASE Crash
  BY <1>3 DEF Crash, Die
<1>4. CASE Quiescent
  BY <1>4 DEF Quiescent, vars, database
<1> QED
  BY <1>1, <1>2, <1>3, <1>4

LEMMA ClientStep ==
  ASSUME IInv, ClientInv, Client
  PROVE  ClientInv'
<1> USE DEF ClientInv
<1>1. ASSUME NEW r \in Mine, Put(r)
      PROVE  ClientInv'
  <2>1. CASE up /\ Arrive(r) /\ asked' = r
    BY <1>1, <2>1 DEF Put, Arrive, Goto, database, IInv, TypeOK
  <2>2. CASE ~up /\ UNCHANGED <<vars, asked>>
    BY <1>1, <2>2 DEF Put, vars, database
  <2> QED
    BY <1>1, <2>1, <2>2 DEF Put
<1>2. ASSUME NEW r \in Mine, Receive(r)
      PROVE  ClientInv'
  <2>1. reply[r] = "success" => r \in rows \intersect stream
    BY DEF IInv, RequestInv
  <2> QED
    BY <1>2, <2>1 DEF Receive, vars, database
<1>3. CASE Sleep \/ NextLoop
  BY <1>3 DEF Sleep, NextLoop, vars, database
<1>4. ASSUME NEW r \in Mine, Delete(r)
      PROVE  ClientInv'
  BY <1>4 DEF Delete, vars, database
<1> QED
  BY <1>1, <1>2, <1>3, <1>4 DEF Client

\* The client stays in step with its answers, beside any other clients.
THEOREM ClientInvariance == LoadSpec => [](IInv /\ ClientInv)
<1>1. IInv /\ ClientInv /\ [LoadNext]_loadVars => (IInv /\ ClientInv)'
  <2> SUFFICES ASSUME IInv, ClientInv, [LoadNext]_loadVars
               PROVE  IInv' /\ ClientInv'
    OBVIOUS
  <2>1. IInv'
    BY LoadStepIsStep, Inductive DEF loadVars
  <2>2. CASE Client
    BY <2>1, <2>2, ClientStep
  <2>3. CASE Elsewhere
    BY <2>1, <2>3, ElsewhereStep
  <2>4. CASE UNCHANGED loadVars
    BY <2>1, <2>4 DEF loadVars, client, vars, database, ClientInv
  <2> QED
    BY <2>2, <2>3, <2>4 DEF LoadNext
<1> QED
  BY <1>1, LoadInitInv, PTL DEF LoadSpec

\* A post the client does not know of, though it made it, was answered with an
\* error after the COMMIT, or not at all.
THEOREM UnknownAfterError == LoadSpec => []UnknownOnlyAfterError
<1>1. IInv /\ ClientInv => UnknownOnlyAfterError
  <2> SUFFICES ASSUME IInv, ClientInv, NEW r \in Mine \intersect rows, up, asked # r
               PROVE  r \in known \/ reply[r] \in {"commitFailed", "eventFailed"}
    BY DEF UnknownOnlyAfterError
  <2>1. RequestInv(r) /\ reply[r] \in Replies
    BY DEF IInv, TypeOK
  <2>2. r \in tried
    BY <2>1 DEF ClientInv, RequestInv, Waiting
  <2> QED
    BY <2>1, <2>2 DEF ClientInv, RequestInv, Replies
<1> QED
  BY <1>1, ClientInvariance, PTL

\* The load client is one of the clients CreatePost allows for: its requests
\* come one after another, and its deletions, which no route takes, change
\* nothing in the service.
THEOREM IsClient == LoadSpec => Spec
<1>1. LoadInit => Init
  BY DEF LoadInit
<1>2. [LoadNext]_loadVars => [Next]_vars
  BY LoadStepIsStep DEF loadVars
<1> QED
  BY <1>1, <1>2, PTL DEF LoadSpec, Spec

\* So under its load too createPost adds posts one at a time and announces each
\* once it is there.
THEOREM LoadedLog == LoadSpec => CreatesPosts
BY IsClient, Refinement, PTL

\* And no answer, to this client or to others, says what the table and the
\* stream do not: failed work has left no post, a success is announced.
THEOREM LoadedAnswers == LoadSpec => [](FailedWorkLeavesNoPost /\ SuccessMeansAnnounced)
BY IsClient, NoStrayPost, Announced, PTL
=============================================================================
