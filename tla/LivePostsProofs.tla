-------------------------- MODULE LivePostsProofs --------------------------
(***************************************************************************)
(* Proofs about LivePosts for any requests, posts, threads and pool.       *)
(***************************************************************************)
EXTENDS LivePosts, TLAPS

USE PostAssumption, OptionAssumption

\* The handlers by what they do to their request: give it a step, and maybe an
\* answer; or take the result of its query.
Steady(r) ==
    \/ Acquire(r) \/ StartStage(r) \/ StartFetchPosts(r) \/ StartFetchAuthor(r)
    \/ StartCreateAuthor(r) \/ StartPage(r) \/ StartModerate(r) \/ Send(r)

Handled(r) ==
    HandlePosts(r) \/ HandleAuthor(r) \/ HandleNewAuthor(r) \/ HandleStaged(r)

LEMMA AdvanceCases ==
  ASSUME NEW r, Advance(r)
  PROVE  \/ Steady(r) \/ Execute(r) \/ ExecuteOrphan(r) \/ Handled(r)
         \/ Prerendered(r) \/ PublishEvent(r)
BY DEF Advance, Handler, Steady, Handled

LEMMA SteadyStep ==
  ASSUME TypeOK, NEW r \in Requests, Steady(r)
  PROVE  /\ UNCHANGED <<process, kind, post, res, clears, ver, world>>
         /\ \E x \in Steps, a \in {"none", "success", "error"} :
              /\ st' = [st EXCEPT ![r] = x]
              /\ reply' = [reply EXCEPT ![r] = a]
              /\ \/ st[r] = "waiting" /\ x = "start" /\ a = reply[r]
                 \/ st[r] = "start" /\ x = "query" /\ a = reply[r]
                 \/ st[r] = "start" /\ x = "reply" /\ a # "none"
                 \/ st[r] = "reply" /\ x = "done" /\ a = reply[r]
BY DEF TypeOK, Steps, Steady, Acquire, StartStage, StartFetchPosts, StartFetchAuthor,
       StartCreateAuthor, StartPage, StartModerate, Send, Goto, Answer

LEMMA HandledStep ==
  ASSUME TypeOK, NEW r \in Requests, Handled(r)
  PROVE  /\ UNCHANGED <<restarts, kind, post, res, ver, world>>
         /\ life' \in {life, "crashed"}
         /\ st[r] = "result"
         /\ \/ UNCHANGED <<st, reply, clears>>
            \/ /\ st' = [st EXCEPT ![r] = "reply"]
               /\ \E a \in {"success", "error"} : reply' = [reply EXCEPT ![r] = a]
               /\ reply'[r] = "success" => kind[r] # "stage" \/ res[r] = "empty"
               /\ \/ res[r] = "null" /\ UNCHANGED clears
                  \/ /\ res[r] \in {"fatal", "empty", "row"}
                     /\ clears' = [clears EXCEPT ![r] = @ + 1]
                  \/ /\ "answer" \in Faults /\ reply'[r] = "error"
                     /\ res[r] \in {"empty", "row"}
                     /\ clears' = [clears EXCEPT ![r] = @ + 2]
            \/ /\ kind[r] = "stage" /\ res[r] = "row"
               /\ st' = [st EXCEPT ![r] = "render"] /\ UNCHANGED reply
               /\ clears' = [clears EXCEPT ![r] = @ + 1]
<1> USE DEF TypeOK, Goto, Answer, Clear, CaughtLate, Failed, Decoded, process
<1>1. CASE HandlePosts(r)
  BY <1>1 DEF HandlePosts
<1>2. CASE HandleAuthor(r)
  BY <1>2 DEF HandleAuthor
<1>3. CASE HandleNewAuthor(r)
  BY <1>3 DEF HandleNewAuthor
<1>4. CASE HandleStaged(r)
  BY <1>4 DEF HandleStaged
<1> QED
  BY <1>1, <1>2, <1>3, <1>4 DEF Handled

LEMMA InitInv == Init => IInv
BY DEF Init, IInv, TypeOK, RequestInv, Blocking, Lives, Steps, Results, Versions

\* A step of request r keeps the types, r's own invariant, and everything
\* another request's invariant is about.
LEMMA AdvanceTypes ==
  ASSUME IInv, NEW r \in Requests, Advance(r)
  PROVE  TypeOK'
<1> USE DEF IInv, TypeOK, Lives, Steps, Results, Versions, world, process
<1>1. CASE Steady(r)
  BY <1>1, SteadyStep
<1>2. CASE Execute(r) \/ ExecuteOrphan(r)
  BY <1>2 DEF Execute, ExecuteOrphan
<1>3. CASE Handled(r)
  BY <1>3, HandledStep
<1>4. Blocking(r) => post[r] \in Posts
  BY DEF RequestInv
<1>5. CASE Prerendered(r)
  BY <1>4, <1>5 DEF Prerendered, Caught, Goto, Answer, Clear, Blocking
<1>6. CASE PublishEvent(r)
  BY <1>4, <1>6 DEF PublishEvent, Caught, Answer, Clear, Blocking
<1> QED
  BY <1>1, <1>2, <1>3, <1>5, <1>6, AdvanceCases

LEMMA AdvanceOthers ==
  ASSUME TypeOK, NEW r \in Requests, Advance(r)
  PROVE  /\ UNCHANGED <<kind, post>>
         /\ \A o \in Requests \ {r} :
              UNCHANGED <<st[o], res[o], clears[o], ver[o], reply[o]>>
         /\ shown \subseteq shown' /\ events \subseteq events'
<1> USE DEF TypeOK, world, process
<1>1. CASE Steady(r)
  BY <1>1, SteadyStep
<1>2. CASE Execute(r) \/ ExecuteOrphan(r)
  BY <1>2 DEF Execute, ExecuteOrphan
<1>3. CASE Handled(r)
  BY <1>3, HandledStep
<1>4. CASE Prerendered(r) \/ PublishEvent(r)
  BY <1>4 DEF Prerendered, PublishEvent, Caught, Goto, Answer, Clear
<1> QED
  BY <1>1, <1>2, <1>3, <1>4, AdvanceCases

LEMMA AdvanceOwn ==
  ASSUME IInv, NEW r \in Requests, Advance(r)
  PROVE  RequestInv(r)'
<1>1. TypeOK /\ RequestInv(r)
  BY DEF IInv
<1> USE DEF RequestInv, Blocking, Fresh, TypeOK, world, process
<1>2. CASE Steady(r)
  BY <1>1, <1>2, SteadyStep
<1>3. CASE Execute(r) \/ ExecuteOrphan(r)
  BY <1>1, <1>3 DEF Execute, ExecuteOrphan
<1>4. CASE Handled(r)
  BY <1>1, <1>4, HandledStep
<1>5. CASE Prerendered(r) \/ PublishEvent(r)
  BY <1>1, <1>5 DEF Prerendered, PublishEvent, Caught, Goto, Answer, Clear
<1> QED
  BY <1>2, <1>3, <1>4, <1>5, AdvanceCases

\* A new request changes only itself.
LEMMA AcceptStep ==
  ASSUME IInv, NEW r \in Requests, NEW p \in Posts \union {NoPost}, Accept(r, p)
  PROVE  IInv'
<1>1. TypeOK'
  BY DEF IInv, TypeOK, Accept, Goto, Steps, world, process
<1>2. ASSUME NEW o \in Requests
      PROVE  RequestInv(o)'
  BY DEF IInv, TypeOK, Accept, Goto, world, RequestInv, Blocking, Fresh
<1> QED
  BY <1>1, <1>2 DEF IInv

\* A request that was in progress is as good as one that was never made, but
\* for what it has done to the world.
LEMMA RestartStep ==
  ASSUME IInv, Restart
  PROVE  IInv'
<1>1. TypeOK'
  BY DEF IInv, TypeOK, Restart, Lives, Steps, Results, world
<1>2. ASSUME NEW r \in Requests
      PROVE  RequestInv(r)'
  BY DEF IInv, TypeOK, Restart, RequestInv, InProgress, Blocking, Fresh, Steps
<1> QED
  BY <1>1, <1>2 DEF IInv

LEMMA Inductive == IInv /\ [Next]_vars => IInv'
<1> SUFFICES ASSUME IInv, [Next]_vars
             PROVE  IInv'
  OBVIOUS
<1>1. ASSUME NEW r \in Requests, NEW p \in Posts \union {NoPost}, Accept(r, p)
      PROVE  IInv'
  BY <1>1, AcceptStep
<1>2. ASSUME NEW r \in Requests, Advance(r)
      PROVE  IInv'
  <2>1. TypeOK' /\ RequestInv(r)'
    BY <1>2, AdvanceTypes, AdvanceOwn
  <2>2. ASSUME NEW o \in Requests, o # r
        PROVE  RequestInv(o)'
    BY <1>2, <2>2, AdvanceOthers DEF IInv, RequestInv, Blocking
  <2> QED
    BY <2>1, <2>2 DEF IInv
<1>3. CASE Restart
  BY <1>3, RestartStep
<1>4. CASE Stop \/ Exit \/ Crash \/ UNCHANGED vars
  BY <1>4 DEF Stop, Exit, Crash, vars, request, world, process, IInv, TypeOK, Lives,
              RequestInv, Blocking
<1> QED
  BY <1>1, <1>2, <1>3, <1>4 DEF Next, Quiescent

\* For any requests, threads, connections and faults, stopped or not, killed
\* and started again or not.
THEOREM Invariance == Spec => []IInv
BY InitInv, Inductive, PTL DEF Spec

\* publish comes after prerenderPost and the answer after publish in each call;
\* that no other request, kill or late query gets in between is the lemma.
LEMMA PageThenEvent ==
  ASSUME "skip" \notin Faults
  PROVE  Spec => [](EventFollowsPage /\ SuccessMeansPublished)
<1> DEFINE Inv == EventFollowsPage /\ \A r \in Requests : PublishInv(r)
<1>1. Init => Inv
  BY DEF Init, EventFollowsPage, PublishInv
<1>2. ASSUME Inv, IInv, [Next]_vars
      PROVE  Inv'
  <2>1. ASSUME NEW r \in Requests, NEW p \in Posts \union {NoPost}, Accept(r, p)
        PROVE  Inv'
    BY <1>2, <2>1 DEF Accept, Goto, world, EventFollowsPage, PublishInv, IInv,
                      TypeOK, RequestInv, Fresh
  <2>2. ASSUME NEW r \in Requests, Advance(r)
        PROVE  Inv'
    <3>1. TypeOK /\ RequestInv(r) /\ PublishInv(r)
      BY <1>2 DEF IInv
    <3>2. EventFollowsPage' /\ PublishInv(r)'
      <4> USE DEF EventFollowsPage, PublishInv, TypeOK, world, process
      <4>1. CASE Steady(r)
        BY <1>2, <3>1, <4>1, SteadyStep DEF RequestInv, Fresh
      <4>2. CASE Execute(r) \/ ExecuteOrphan(r)
        BY <1>2, <3>1, <4>2 DEF Execute, ExecuteOrphan, RequestInv, Fresh
      <4>3. CASE Handled(r)
        BY <1>2, <3>1, <4>3, HandledStep DEF RequestInv, Fresh
      <4>4. CASE Prerendered(r)
        BY <1>2, <3>1, <4>4 DEF Prerendered, Caught, Goto, Answer, Clear, RequestInv
      <4>5. CASE PublishEvent(r)
        BY <1>2, <3>1, <4>5 DEF PublishEvent, Caught, Answer, Clear, RequestInv
      <4> QED
        BY <2>2, <4>1, <4>2, <4>3, <4>4, <4>5, AdvanceCases
    <3>3. ASSUME NEW o \in Requests, o # r
          PROVE  PublishInv(o)'
      BY <1>2, <2>2, <3>1, <3>3, AdvanceOthers DEF PublishInv
    <3> QED
      BY <3>2, <3>3
  <2>3. CASE Restart
    BY <1>2, <2>3 DEF Restart, world, EventFollowsPage, PublishInv, IInv, TypeOK,
                      InProgress
  <2>4. CASE Stop \/ Exit \/ Crash \/ UNCHANGED vars
    BY <1>2, <2>4 DEF Stop, Exit, Crash, vars, request, world, process,
                      EventFollowsPage, PublishInv
  <2> QED
    BY <1>2, <2>1, <2>2, <2>3, <2>4 DEF Next, Quiescent
<1>3. Inv => EventFollowsPage /\ SuccessMeansPublished
  BY DEF PublishInv, SuccessMeansPublished
<1> QED
  BY <1>1, <1>2, <1>3, Invariance, PTL DEF Spec

\* The event of a version follows the page, as long as prerenderPost does what
\* it returns from.
THEOREM PageEventAnswer ==
  ASSUME "skip" \notin Faults
  PROVE  Spec => []EventFollowsPage
BY PageThenEvent, PTL

\* An answer "success" to a stage request is given only when its page was shown
\* and its event sent, or no such post exists: over any kills and restarts.
THEOREM SuccessPublished ==
  ASSUME "skip" \notin Faults
  PROVE  Spec => []SuccessMeansPublished
BY PageThenEvent, PTL

\* Whatever goes wrong, a PGresult is given back by the time of the answer: once
\* for a success, once or twice for an error.
THEOREM GivenBack == Spec => []ResultGivenBack
<1> DEFINE Inv(r) == st[r] \in {"reply", "done"}
                       => IF res[r] \in {"none", "null"} THEN clears[r] = 0
                          ELSE /\ clears[r] \in {1, 2}
                               /\ reply[r] = "success" => clears[r] = 1
<1>1. Init => ResultGivenBack
  BY DEF Init, ResultGivenBack
<1>2. ASSUME ResultGivenBack, IInv, [Next]_vars
      PROVE  ResultGivenBack'
  <2>1. ASSUME NEW r \in Requests, NEW p \in Posts \union {NoPost}, Accept(r, p)
        PROVE  ResultGivenBack'
    BY <1>2, <2>1 DEF Accept, Goto, world, ResultGivenBack, IInv, TypeOK
  <2>2. ASSUME NEW r \in Requests, Advance(r)
        PROVE  ResultGivenBack'
    <3>1. TypeOK /\ RequestInv(r) /\ Inv(r)
      BY <1>2 DEF IInv, ResultGivenBack
    <3>2. Inv(r)'
      <4> USE DEF TypeOK, RequestInv, Blocking, Fresh, world, process
      <4>1. CASE Steady(r)
        BY <3>1, <4>1, SteadyStep
      <4>2. CASE Execute(r) \/ ExecuteOrphan(r)
        BY <3>1, <4>2 DEF Execute, ExecuteOrphan
      <4>3. CASE Handled(r)
        BY <3>1, <4>3, HandledStep
      <4>4. CASE Prerendered(r)
        BY <3>1, <4>4 DEF Prerendered, Caught, Goto, Answer, Clear
      <4>5. CASE PublishEvent(r)
        BY <3>1, <4>5 DEF PublishEvent, Caught, Goto, Answer, Clear
      <4> QED
        BY <2>2, <4>1, <4>2, <4>3, <4>4, <4>5, AdvanceCases
    <3>3. ASSUME NEW o \in Requests, o # r
          PROVE  Inv(o)'
      BY <1>2, <2>2, <3>1, <3>3, AdvanceOthers DEF ResultGivenBack
    <3> QED
      BY <3>2, <3>3 DEF ResultGivenBack
  <2>3. CASE Restart
    BY <1>2, <2>3 DEF Restart, ResultGivenBack, IInv, TypeOK, RequestInv,
                      InProgress, Fresh
  <2>4. CASE Stop \/ Exit \/ Crash \/ UNCHANGED vars
    BY <1>2, <2>4 DEF Stop, Exit, Crash, vars, request, ResultGivenBack
  <2> QED
    BY <2>1, <2>2, <2>3, <2>4, <1>2 DEF Next, Quiescent
<1> QED
  BY <1>1, <1>2, Invariance, PTL DEF Spec

\* Every PGresult is cleared exactly once as long as nothing throws after a
\* handler has cleared it: not prerenderPost, not publish, and neither dump()
\* nor sendSuccess of any of the handlers.
THEOREM ClearedOnce ==
  ASSUME Faults \intersect {"render", "publish", "answer"} = {}
  PROVE  Spec => []ResultClearedOnce
<1>1. Init => ResultClearedOnce
  BY DEF Init, ResultClearedOnce
<1>2. ASSUME ResultClearedOnce, IInv, [Next]_vars
      PROVE  ResultClearedOnce'
  <2> DEFINE Inv(r) == st[r] \in {"reply", "done"}
                         => clears[r] = (IF res[r] \in {"none", "null"} THEN 0 ELSE 1)
  <2>1. ASSUME NEW r \in Requests, NEW p \in Posts \union {NoPost}, Accept(r, p)
        PROVE  ResultClearedOnce'
    BY <1>2, <2>1 DEF Accept, Goto, world, ResultClearedOnce, IInv, TypeOK
  <2>2. ASSUME NEW r \in Requests, Advance(r)
        PROVE  ResultClearedOnce'
    <3>1. TypeOK /\ RequestInv(r) /\ Inv(r)
      BY <1>2 DEF IInv, ResultClearedOnce
    <3>2. Inv(r)'
      <4> USE DEF TypeOK, RequestInv, Blocking, Fresh, world, process
      <4>1. CASE Steady(r)
        BY <3>1, <4>1, SteadyStep
      <4>2. CASE Execute(r) \/ ExecuteOrphan(r)
        BY <3>1, <4>2 DEF Execute, ExecuteOrphan
      <4>3. CASE Handled(r)
        BY <3>1, <4>3, HandledStep
      <4>4. CASE Prerendered(r)
        BY <3>1, <4>4 DEF Prerendered, Goto, Answer
      <4>5. CASE PublishEvent(r)
        BY <3>1, <4>5 DEF PublishEvent, Goto, Answer
      <4> QED
        BY <2>2, <4>1, <4>2, <4>3, <4>4, <4>5, AdvanceCases
    <3>3. ASSUME NEW o \in Requests, o # r
          PROVE  Inv(o)'
      BY <1>2, <2>2, <3>1, <3>3, AdvanceOthers DEF ResultClearedOnce
    <3> QED
      BY <3>2, <3>3 DEF ResultClearedOnce
  <2>3. CASE Restart
    BY <1>2, <2>3 DEF Restart, ResultClearedOnce, IInv, TypeOK, RequestInv,
                      InProgress, Fresh
  <2>4. CASE Stop \/ Exit \/ Crash \/ UNCHANGED vars
    BY <1>2, <2>4 DEF Stop, Exit, Crash, vars, request, ResultClearedOnce
  <2> QED
    BY <2>1, <2>2, <2>3, <2>4, <1>2 DEF Next, Quiescent
<1> QED
  BY <1>1, <1>2, Invariance, PTL DEF Spec

----------------------------------------------------------------------------
LEMMA SerialAdvance ==
  ASSUME ~Overlap, "skip" \notin Faults, IInv, SerialInv, NEW r \in Requests, Advance(r)
  PROVE  SerialInv'
<1> DEFINE Ver(o) ==
             /\ st[o] \in Fresh \ {"orphan"} => ver[o] = 0
             /\ kind[o] = "stage" /\ res[o] = "row" => ver[o] # 0
             /\ post[o] \in Posts => ver[o] <= row[post[o]]
           Only(o) ==
             post[o] \in Posts /\ InProgress(o)
               => \A q \in Requests \ {o} :
                    post[q] = post[o]
                      => ~InProgress(q) /\ (ver[o] # 0 => ver[q] < ver[o])
           Shows(o) ==
             kind[o] = "stage" /\ res[o] = "row" /\ ver[o] = row[post[o]]
               /\ (st[o] = "publish" \/ reply[o] = "success")
               => site[post[o]] = ver[o]
<1>1. /\ TypeOK /\ \A o \in Requests : RequestInv(o)
      /\ \A o \in Requests : Ver(o) /\ Only(o) /\ Shows(o)
      /\ \A o \in Requests : ver[o] \in Nat
      /\ \A p \in Posts : row[p] \in Nat
  BY DEF IInv, SerialInv, TypeOK
<1>2. CASE Steady(r)
  <2>1. \A o \in Requests : InProgress(o)' => InProgress(o)
    BY <1>1, <1>2, SteadyStep DEF InProgress, TypeOK
  <2>2. ASSUME NEW o \in Requests
        PROVE  Ver(o)' /\ Only(o)' /\ Shows(o)'
    BY <1>1, <1>2, <2>1, SteadyStep DEF world, TypeOK, Fresh, RequestInv
  <2> QED
    BY <2>2 DEF SerialInv
<1>3. CASE Execute(r)
  <2>1. /\ \A o \in Requests : InProgress(o)' <=> InProgress(o)
        /\ InProgress(r)
    BY <1>1, <1>3 DEF Execute, InProgress, TypeOK
  <2>2. ASSUME NEW o \in Requests
        PROVE  Ver(o)' /\ Shows(o)'
    BY <1>1, <1>3, <2>1 DEF Execute, TypeOK, Fresh, RequestInv
  <2>3. ASSUME NEW o \in Requests
        PROVE  Only(o)'
    BY <1>1, <1>3, <2>1 DEF Execute, TypeOK
  <2> QED
    BY <2>2, <2>3 DEF SerialInv
<1>4. CASE ExecuteOrphan(r)
  <2>1. \A o \in Requests : InProgress(o)' <=> InProgress(o)
    BY <1>1, <1>4 DEF ExecuteOrphan, InProgress, TypeOK
  <2>2. ASSUME NEW o \in Requests
        PROVE  Ver(o)' /\ Only(o)' /\ Shows(o)'
    BY <1>1, <1>4, <2>1 DEF ExecuteOrphan, TypeOK, Fresh, RequestInv
  <2> QED
    BY <2>2 DEF SerialInv
<1>5. CASE Handled(r)
  <2>1. \A o \in Requests : InProgress(o)' <=> InProgress(o)
    BY <1>1, <1>5, HandledStep DEF InProgress, TypeOK
  <2>2. ASSUME NEW o \in Requests
        PROVE  Ver(o)' /\ Only(o)' /\ Shows(o)'
    BY <1>1, <1>5, <2>1, HandledStep DEF world, TypeOK, Fresh, RequestInv
  <2> QED
    BY <2>2 DEF SerialInv
<1>6. CASE Prerendered(r) \/ PublishEvent(r)
  <2>1. /\ \A o \in Requests : InProgress(o)' <=> InProgress(o)
        /\ InProgress(r) /\ st[r] \in {"render", "publish"}
        /\ st'[r] \in {"publish", "reply"}
        /\ UNCHANGED <<kind, post, res, ver, row>>
        /\ \A o \in Requests \ {r} : st'[o] = st[o] /\ reply'[o] = reply[o]
    BY <1>1, <1>6 DEF Prerendered, PublishEvent, Caught, Goto, Answer, InProgress, TypeOK
  <2>2. /\ post[r] \in Posts /\ kind[r] = "stage" /\ res[r] = "row"
        /\ ver[r] # 0
    BY <1>1, <2>1 DEF RequestInv, Blocking
  <2>3. ASSUME NEW o \in Requests
        PROVE  Ver(o)' /\ Only(o)'
    <3>1. Ver(o)'
      BY <1>1, <2>1 DEF Fresh
    <3>2. Only(o)'
      BY <1>1, <2>1
    <3> QED
      BY <3>1, <3>2
  <2>4. CASE Prerendered(r)
    <3>1. ASSUME NEW o \in Requests
          PROVE  Shows(o)'
      <4>1. CASE o = r
        BY <1>1, <2>1, <2>2, <2>4, <4>1 DEF Prerendered, Caught, Goto, Answer, TypeOK, RequestInv
      <4>2. CASE o # r /\ post[o] = post[r]
        BY <1>1, <2>1, <2>2, <4>2
      <4>3. CASE o # r /\ post[o] # post[r]
        <5>1. kind[o] = "stage" /\ res[o] = "row" => post[o] \in Posts
          BY <1>1 DEF RequestInv
        <5> QED
          BY <1>1, <2>1, <2>2, <2>4, <4>3, <5>1 DEF Prerendered, TypeOK
      <4> QED
        BY <4>1, <4>2, <4>3
    <3> QED
      BY <2>3, <3>1 DEF SerialInv
  <2>5. CASE PublishEvent(r)
    <3>1. ASSUME NEW o \in Requests
          PROVE  Shows(o)'
      BY <1>1, <2>1, <2>2, <2>5 DEF PublishEvent, Caught, Answer, TypeOK, RequestInv
    <3> QED
      BY <2>3, <3>1 DEF SerialInv
  <2> QED
    BY <1>6, <2>4, <2>5
<1> QED
  BY <1>2, <1>3, <1>4, <1>5, <1>6, AdvanceCases

LEMMA SerialAccept ==
  ASSUME ~Overlap, IInv, SerialInv, NEW r \in Requests,
         NEW p \in Posts \union {NoPost}, Accept(r, p)
  PROVE  SerialInv'
<1>1. /\ TypeOK /\ \A o \in Requests : RequestInv(o)
      /\ \A o \in Requests : ver[o] \in Nat
      /\ \A q \in Posts : row[q] \in Nat
  BY DEF IInv, TypeOK
<1>2. /\ UNCHANGED <<kind, res, ver, reply, row, site>>
      /\ st[r] = "new" /\ st'[r] \in {"waiting", "start"} /\ post'[r] = p
      /\ \A o \in Requests \ {r} : st'[o] = st[o] /\ post'[o] = post[o]
      /\ p \in Posts => \A o \in Requests : InProgress(o) => post[o] # p
  BY <1>1 DEF Accept, Goto, TypeOK, world
<1>3. ver[r] = 0 /\ res[r] = "none" /\ ~InProgress(r)
  BY <1>1, <1>2 DEF SerialInv, RequestInv, Fresh, InProgress
<1>4. \A o \in Requests \ {r} : InProgress(o)' <=> InProgress(o)
  BY <1>2 DEF InProgress
<1> QED
  BY <1>1, <1>2, <1>3, <1>4 DEF SerialInv, Fresh

LEMMA SerialRestart ==
  ASSUME IInv, SerialInv, Restart
  PROVE  SerialInv'
<1>1. \A r \in Requests : ~InProgress(r)'
  BY DEF Restart, IInv, TypeOK, InProgress
<1>2. ASSUME NEW r \in Requests
      PROVE  /\ st'[r] \in Fresh \ {"orphan"} => st[r] = "new"
             /\ res'[r] = "row" => res[r] = "row" /\ reply'[r] = reply[r] /\ st'[r] = st[r]
  BY DEF Restart, IInv, TypeOK, InProgress, Fresh, RequestInv
<1> QED
  BY <1>1, <1>2 DEF Restart, world, SerialInv, Fresh, InProgress

LEMMA SerialStep ==
  ASSUME ~Overlap, "skip" \notin Faults, IInv, SerialInv, [Next]_vars
  PROVE  SerialInv'
<1>1. CASE Stop \/ Exit \/ Crash \/ UNCHANGED vars
  BY <1>1 DEF Stop, Exit, Crash, vars, request, world, process, SerialInv, InProgress
<1> QED
  BY <1>1, SerialAdvance, SerialAccept, SerialRestart DEF Next, Quiescent

LEMMA SerialInit == Init => SerialInv
BY DEF Init, SerialInv, InProgress

\* When a post is staged again only after the last answer, a request that was
\* answered with success is shown until a newer version of its row exists,
\* over any kills and restarts.
THEOREM CatchesUp ==
  ASSUME ~Overlap, "skip" \notin Faults
  PROVE  Spec => []SiteCatchesUp
<1>1. SerialInv => SiteCatchesUp
  BY DEF SerialInv, SiteCatchesUp
<1> QED
  BY <1>1, SerialInit, SerialStep, Invariance, PTL DEF Spec

----------------------------------------------------------------------------
LEMMA AheadAdvance ==
  ASSUME IInv, SerialInv, AheadInv, NEW r \in Requests, Advance(r)
  PROVE  /\ AheadInv'
         /\ \/ UNCHANGED site
            \/ \E p \in Posts : /\ site' = [site EXCEPT ![p] = ver[r]]
                                /\ site[p] < ver[r]
<1>1. /\ TypeOK /\ \A o \in Requests : RequestInv(o)
      /\ \A o \in Requests : ver[o] \in Nat
      /\ \A p \in Posts : row[p] \in Nat /\ site[p] \in Nat
  BY DEF IInv, TypeOK
<1>2. ASSUME NEW o \in Requests, o # r
      PROVE  UNCHANGED <<kind[o], post[o], st[o], res[o], ver[o]>>
  BY <1>1, <1>2, AdvanceOthers
<1>3. CASE Steady(r)
  BY <1>1, <1>3, SteadyStep DEF AheadInv, world, RequestInv, TypeOK, Fresh
<1>4. CASE Execute(r)
  <2>1. UNCHANGED <<kind, post, site>> /\ \A p \in Posts : row'[p] \in Nat /\ row[p] <= row'[p]
    BY <1>1, <1>4 DEF Execute, TypeOK
  <2>2. kind'[r] = "stage" /\ res'[r] = "row" => post[r] \in Posts /\ ver'[r] = row[post[r]] + 1
    BY <1>1, <1>4 DEF Execute, TypeOK, RequestInv
  <2> QED
    BY <1>1, <1>2, <2>1, <2>2 DEF AheadInv
<1>5. CASE ExecuteOrphan(r)
  BY <1>1, <1>5 DEF ExecuteOrphan, AheadInv, TypeOK
<1>6. CASE Handled(r)
  BY <1>1, <1>6, HandledStep DEF AheadInv, world, TypeOK
<1>7. CASE PublishEvent(r)
  BY <1>1, <1>7 DEF PublishEvent, Caught, Answer, AheadInv, TypeOK
<1>8. CASE Prerendered(r)
  <2>1. /\ st[r] = "render" /\ kind[r] = "stage" /\ res[r] = "row"
        /\ post[r] \in Posts /\ st'[r] \in {"publish", "reply"}
        /\ UNCHANGED <<kind, post, res, ver, row>>
    BY <1>1, <1>8 DEF Prerendered, Caught, Goto, Answer, RequestInv, Blocking, TypeOK
  <2>2. site[post[r]] < ver[r] /\ ver[r] <= row[post[r]]
    BY <2>1 DEF AheadInv, SerialInv
  <2>3. CASE UNCHANGED site
    BY <1>1, <1>2, <2>1, <2>3 DEF AheadInv
  <2>4. CASE site' = [site EXCEPT ![post[r]] = ver[r]]
    <3>1. ASSUME NEW o \in Requests, o # r, st[o] \in {"result", "render"},
                 kind[o] = "stage", res[o] = "row"
          PROVE  post[o] \in Posts /\ post[o] # post[r]
      BY <1>1, <2>1, <3>1 DEF RequestInv, SerialInv, InProgress
    <3> QED
      BY <1>1, <1>2, <2>1, <2>2, <2>4, <3>1 DEF AheadInv, TypeOK
  <2> QED
    BY <1>8, <2>3, <2>4 DEF Prerendered
<1> QED
  BY <1>3, <1>4, <1>5, <1>6, <1>7, <1>8, AdvanceCases

\* When a post is staged again only after the last answer, no step of any
\* request, kill or late query takes a page of the site back.
THEOREM Advances ==
  ASSUME ~Overlap, "skip" \notin Faults
  PROVE  Spec => SiteAdvances
<1>1. Init => AheadInv /\ Site!Init
  BY DEF Init, AheadInv, Site!Init
<1>2. ASSUME IInv, SerialInv, AheadInv, [Next]_vars
      PROVE  AheadInv' /\ [Site!Next]_site
  <2>1. ASSUME NEW r \in Requests, NEW p \in Posts \union {NoPost}, Accept(r, p)
        PROVE  AheadInv' /\ UNCHANGED site
    BY <1>2, <2>1 DEF Accept, Goto, world, AheadInv, IInv, TypeOK
  <2>2. ASSUME NEW r \in Requests, Advance(r)
        PROVE  AheadInv' /\ [Site!Next]_site
    <3>1. ASSUME NEW p \in Posts, site' = [site EXCEPT ![p] = ver[r]], site[p] < ver[r]
          PROVE  Site!Next
      <4>1. site'[p] = ver[r] /\ ver[r] \in Nat /\ site[p] \in Nat
        BY <1>2, <3>1 DEF IInv, TypeOK
      <4> QED
        BY <3>1, <4>1 DEF Site!Next, Site!Publish, Site!Newer
    <3> QED
      BY <1>2, <2>2, <3>1, AheadAdvance
  <2>3. CASE Restart
    BY <1>2, <2>3 DEF Restart, world, AheadInv, IInv, TypeOK, InProgress
  <2>4. CASE Stop \/ Exit \/ Crash \/ UNCHANGED vars
    BY <1>2, <2>4 DEF Stop, Exit, Crash, vars, request, world, process, AheadInv
  <2> QED
    BY <1>2, <2>1, <2>2, <2>3, <2>4 DEF Next, Quiescent
<1> QED
  BY <1>1, <1>2, SerialInit, SerialStep, Invariance, PTL DEF Spec, SiteAdvances, Site!Spec
=============================================================================
