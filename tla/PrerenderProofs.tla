-------------------------- MODULE PrerenderProofs --------------------------
(***************************************************************************)
(* Proofs about Prerender for any calls, threads, sizes and faults.        *)
(***************************************************************************)
EXTENDS Prerender, TLAPS

USE ProcessAssumption, SizeAssumption

LEMMA OwnType ==
  ASSUME NEW c \in Calls, NEW E \in SUBSET Ends
  PROVE  Own(c, E) \in SUBSET Descriptors
BY DEF Own, Descriptors

\* Opening and closing ends keeps the types of the descriptor tables.
LEMMA TablesKept ==
  ASSUME TypeOK, NEW c \in Calls, NEW E \in SUBSET Ends,
         Opens(c, E) \/ Closes(c, E)
  PROVE  fds' \in [Processes -> SUBSET Descriptors] /\ high' \in SUBSET Descriptors
<1>1. CASE Opens(c, E)
  <2>1. PICK H \in SUBSET (E \intersect HighEnds) : high' = high \union Own(c, H)
    BY <1>1 DEF Opens
  <2>2. Own(c, H) \in SUBSET Descriptors /\ Own(c, E) \in SUBSET Descriptors
    BY OwnType
  <2> QED
    BY <1>1, <2>1, <2>2 DEF Opens, TypeOK, Processes
<1>2. CASE Closes(c, E)
  BY <1>2 DEF Closes, TypeOK, Processes
<1> QED
  BY <1>1, <1>2

\* Every variable keeps its type.
LEMMA TypeStep == TypeOK /\ [Next]_vars => TypeOK'
<1> SUFFICES ASSUME TypeOK, [Next]_vars
             PROVE  TypeOK'
  OBVIOUS
<1> USE DEF TypeOK, Steps, Outcomes, ChildStates, Processes
<1>1. ASSUME NEW c \in Calls, Begin(c)
      PROVE  TypeOK'
  <2>1. fds' \in [Processes -> SUBSET Descriptors] /\ high' \in SUBSET Descriptors
    BY <1>1, TablesKept DEF Begin, PipeIn, Ends
  <2> QED
    BY <1>1, <2>1 DEF Begin, PipeIn, Goto, End, children
<1>2. ASSUME NEW c \in Calls, Continue(c)
      PROVE  TypeOK'
  <2>1. up' \in BOOLEAN
    BY <1>2 DEF Continue, WriteBroken
  <2>2. CASE PipeOut(c)
    <3>1. fds' \in [Processes -> SUBSET Descriptors] /\ high' \in SUBSET Descriptors
      BY <2>2, TablesKept DEF PipeOut, Ends
    <3> QED
      BY <2>1, <2>2, <3>1 DEF PipeOut, Goto, End, children
  <2>3. CASE Fork(c)
    <3>1. fds' \in [Processes -> SUBSET Descriptors] /\ high' \in SUBSET Descriptors
      BY <2>3, TablesKept DEF Fork
    <3> QED
      BY <2>1, <2>3, <3>1 DEF Fork, Goto, End
  <2>4. CASE CloseEnds(c) \/ CloseIn(c) \/ ReadEof(c) \/ ReadInterrupted(c)
    <3>1. fds' \in [Processes -> SUBSET Descriptors] /\ high' \in SUBSET Descriptors
      BY <2>4, TablesKept DEF CloseEnds, CloseIn, ReadEof, ReadInterrupted, Ends
    <3>2. cut' \in [Calls -> SUBSET Interruptible]
      BY <2>4 DEF CloseEnds, CloseIn, ReadEof, ReadInterrupted, Interrupted, Interruptible
    <3> QED
      BY <2>1, <2>4, <3>1, <3>2
         DEF CloseEnds, CloseIn, ReadEof, ReadInterrupted, Goto, children
  <2>5. CASE WriteAll(c)
    BY <2>1, <2>5 DEF WriteAll, Goto, children
  <2>6. CASE Read(c)
    BY <2>1, <2>6 DEF Read, children
  <2>7. CASE Parse(c) \/ SwapSinglePost(c)
    BY <2>1, <2>7 DEF Parse, SwapSinglePost, Goto, End, children
  <2>8. CASE Wait(c)
    <3>1. cut' \in [Calls -> SUBSET Interruptible]
      BY <2>8 DEF Wait, Interrupted, Interruptible
    <3> QED
      BY <2>1, <2>8, <3>1 DEF Wait, Goto
  <2>9. CASE WriteBroken(c)
    BY <2>1, <2>9 DEF WriteBroken, End, children
  <2> QED
    BY <1>2, <2>2, <2>3, <2>4, <2>5, <2>6, <2>7, <2>8, <2>9 DEF Continue
<1>3. ASSUME NEW c \in Calls, ChildStep(c)
      PROVE  TypeOK'
  <2>1. CASE ChildSetUp(c)
    <3>1. Own(c, {"inR", "outW"}) \in SUBSET Descriptors
      BY OwnType DEF Ends
    <3> QED
      BY <1>3, <2>1, <3>1 DEF ChildStep, ChildSetUp, service
  <2>2. CASE ~ChildSetUp(c)
    BY <1>3, <2>2 DEF ChildStep, ChildRead, ChildWrite, ChildExit, ChildDies,
                      Exits, service
  <2> QED
    BY <2>1, <2>2
<1>4. CASE UNCHANGED vars
  BY <1>4 DEF vars
<1> QED
  BY <1>1, <1>2, <1>3, <1>4 DEF Next, Quiescent

LEMMA TypeInit == Init => TypeOK
BY DEF Init, TypeOK, Steps, Outcomes, ChildStates, Processes, Descriptors

\* Whatever fails, every variable of a call keeps its type.
THEOREM TypeCorrect == Spec => []TypeOK
BY TypeInit, TypeStep, PTL DEF Spec

----------------------------------------------------------------------------
\* What opening and closing ends of c does to each end of each call d.
LEMMA OpensEnds ==
  ASSUME TypeOK, NEW c \in Calls, NEW E \in SUBSET Ends, Opens(c, E)
  PROVE  /\ \A q \in Calls : fds'[q] = fds[q]
         /\ \A d \in Calls, e \in Ends :
              <<d, e>> \in fds'[Service]
                <=> <<d, e>> \in fds[Service] \/ (d = c /\ e \in E)
         /\ HighEnds = {} => high' = high
BY DEF TypeOK, Processes, Opens, Own

LEMMA ClosesEnds ==
  ASSUME TypeOK, NEW c \in Calls, NEW E \in SUBSET Ends, Closes(c, E)
  PROVE  /\ \A q \in Calls : fds'[q] = fds[q]
         /\ \A d \in Calls, e \in Ends :
              <<d, e>> \in fds'[Service]
                <=> <<d, e>> \in fds[Service] /\ ~(d = c /\ e \in E)
         /\ high' = high
BY DEF TypeOK, Processes, Closes, Own

\* A step of the service leaves every child alone, but fork and waitpid.
LEMMA ServiceLeavesChildren ==
  ASSUME TypeOK, NEW c \in Calls, Begin(c) \/ Continue(c), ~Fork(c)
  PROVE  /\ \A q \in Calls : fds'[q] = fds[q]
         /\ UNCHANGED <<took, wrote>>
         /\ \A q \in Calls : child'[q] # child[q]
                               => q = c /\ child'[q] = "reaped" /\ Wait(c)
         /\ HighEnds = {} => high' = high
<1>1. CASE PipeIn(c)
  BY <1>1, OpensEnds DEF PipeIn, Ends, children
<1>2. CASE PipeOut(c)
  <2>1. CASE Opens(c, {"outR", "outW"})
    BY <1>2, <2>1, OpensEnds DEF PipeOut, Ends, children
  <2>2. CASE Closes(c, Ends)
    BY <1>2, <2>2, ClosesEnds DEF PipeOut, children
  <2> QED
    BY <1>2, <2>1, <2>2 DEF PipeOut
<1>3. CASE CloseEnds(c)
  BY <1>3, ClosesEnds DEF CloseEnds, Ends, children
<1>4. CASE CloseIn(c)
  BY <1>4, ClosesEnds DEF CloseIn, Ends, children
<1>5. CASE ReadEof(c) \/ ReadInterrupted(c)
  BY <1>5, ClosesEnds DEF ReadEof, ReadInterrupted, Ends, children
<1>6. CASE WriteAll(c) \/ Read(c) \/ Parse(c) \/ SwapSinglePost(c)
  BY <1>6 DEF WriteAll, Read, Parse, SwapSinglePost, children
<1>7. CASE Wait(c)
  BY <1>7 DEF Wait, TypeOK
<1>8. CASE WriteBroken(c)
  BY <1>8 DEF WriteBroken, children, TypeOK, Processes
<1> QED
  BY <1>1, <1>2, <1>3, <1>4, <1>5, <1>6, <1>7, <1>8 DEF Begin, Continue

\* For any number of calls in progress at once: as long as the service's
\* descriptors stay below 1024, a running child holds no pipe end of another
\* call, so no call can keep another from seeing the end of a pipe.
THEOREM ChildrenIsolated == ASSUME HighEnds = {} PROVE Spec => []OnlyOwnEnds
<1> DEFINE Inv == TypeOK /\ high = {} /\ OnlyOwnEnds
<1>1. Init => Inv
  BY TypeInit DEF Init, OnlyOwnEnds
<1>2. ASSUME Inv, TypeOK', [Next]_vars
      PROVE  Inv'
  <2>1. ASSUME NEW c \in Calls, Begin(c) \/ Continue(c), ~Fork(c)
        PROVE  Inv'
    BY <1>2, <2>1, ServiceLeavesChildren DEF OnlyOwnEnds
  <2>2. ASSUME NEW c \in Calls, Fork(c)
        PROVE  Inv'
    <3>1. CASE Closes(c, Ends) /\ UNCHANGED child
      BY <1>2, <3>1, ClosesEnds DEF OnlyOwnEnds
    <3>2. CASE /\ fds' = [fds EXCEPT ![c] = fds[Service]]
               /\ child' = [child EXCEPT ![c] = "forked"]
               /\ UNCHANGED high
      BY <1>2, <3>2 DEF OnlyOwnEnds, TypeOK, Processes
    <3> QED
      BY <2>2, <3>1, <3>2 DEF Fork
  <2>3. ASSUME NEW c \in Calls, ChildStep(c)
        PROVE  Inv'
    BY <1>2, <2>3 DEF ChildStep, ChildSetUp, ChildRead, ChildWrite, ChildExit,
                      ChildDies, Exits, service, OnlyOwnEnds, TypeOK, Processes
  <2>4. CASE UNCHANGED vars
    BY <1>2, <2>4 DEF vars, OnlyOwnEnds
  <2> QED
    BY <1>2, <2>1, <2>2, <2>3, <2>4 DEF Next, Quiescent
<1>3. Inv => OnlyOwnEnds
  OBVIOUS
<1> QED
  BY <1>1, <1>2, <1>3, TypeCorrect, PTL DEF Spec

----------------------------------------------------------------------------
\* The service's side of the inductive invariant: which ends are open when.
LEMMA ServiceSide ==
  ASSUME TypeOK, \A d \in Calls : ServiceInv(d), NEW c \in Calls,
         Begin(c) \/ Continue(c)
  PROVE  \A d \in Calls : ServiceInv(d)'
<1> USE DEF ServiceInv, Serves
<1> DEFINE After(E) == \A d \in Calls, e \in Ends :
                         <<d, e>> \in fds'[Service]
                           <=> <<d, e>> \in fds[Service] /\ ~(d = c /\ e \in E)
<1>e. Ends = {"inR", "inW", "outR", "outW"}
  BY DEF Ends
<1>0. outcome[c] = "none" /\ pc[c] # "done" /\ up
  BY DEF TypeOK, Begin, Continue, PipeIn, PipeOut, Fork, CloseEnds, WriteAll,
         CloseIn, Read, ReadEof, ReadInterrupted, Parse, Wait, SwapSinglePost,
         WriteBroken
<1>1. CASE PipeIn(c) /\ UNCHANGED up
  <2>1. CASE Opens(c, {"inR", "inW"}) /\ Goto(c, "pipeOut")
    <3>1. \A d \in Calls, e \in Ends :
            <<d, e>> \in fds'[Service]
              <=> <<d, e>> \in fds[Service] \/ (d = c /\ e \in {"inR", "inW"})
      BY <1>e, <2>1 DEF Opens, Own, TypeOK, Processes
    <3> QED
      BY <1>e, <1>0, <1>1, <2>1, <3>1 DEF Goto, TypeOK, PipeIn
  <2>2. CASE End(c, "nopipe") /\ UNCHANGED <<fds, high>>
    BY <1>0, <1>1, <2>2 DEF End, TypeOK, PipeIn
  <2> QED
    BY <1>1, <2>1, <2>2 DEF PipeIn
<1>2. CASE PipeOut(c) /\ UNCHANGED up
  <2>1. CASE Opens(c, {"outR", "outW"}) /\ Goto(c, "fork")
    <3>1. \A d \in Calls, e \in Ends :
            <<d, e>> \in fds'[Service]
              <=> <<d, e>> \in fds[Service] \/ (d = c /\ e \in {"outR", "outW"})
      BY <1>e, <2>1 DEF Opens, Own, TypeOK, Processes
    <3> QED
      BY <1>e, <1>0, <1>2, <2>1, <3>1 DEF Goto, TypeOK, PipeOut
  <2>2. CASE End(c, "nopipe") /\ Closes(c, Ends)
    <3>1. After(Ends)
      BY <2>2, ClosesEnds
    <3> QED
      BY <1>e, <1>0, <1>2, <2>2, <3>1 DEF End, TypeOK, PipeOut
  <2> QED
    BY <1>2, <2>1, <2>2 DEF PipeOut
<1>3. CASE Fork(c) /\ UNCHANGED up
  <2>1. CASE fds' = [fds EXCEPT ![c] = fds[Service]] /\ Goto(c, "closeEnds")
    BY <1>0, <1>3, <2>1 DEF Goto, TypeOK, Fork, Processes
  <2>2. CASE End(c, "nofork") /\ Closes(c, Ends)
    <3>1. After(Ends)
      BY <2>2, ClosesEnds
    <3> QED
      BY <1>e, <1>0, <1>3, <2>2, <3>1 DEF End, TypeOK, Fork
  <2> QED
    BY <1>3, <2>1, <2>2 DEF Fork
<1>4. CASE CloseEnds(c) /\ UNCHANGED up
  <2>1. After({"inR", "outW"})
    BY <1>e, <1>4 DEF CloseEnds, Closes, Own, TypeOK, Processes
  <2> QED
    BY <1>e, <1>0, <1>4, <2>1 DEF CloseEnds, Goto, TypeOK
<1>5. CASE CloseIn(c) /\ UNCHANGED up
  <2>1. After({"inW"})
    BY <1>e, <1>5 DEF CloseIn, Closes, Own, TypeOK, Processes
  <2> QED
    BY <1>e, <1>0, <1>5, <2>1 DEF CloseIn, Goto, TypeOK
<1>6. CASE (ReadEof(c) \/ ReadInterrupted(c)) /\ UNCHANGED up
  <2>1. After({"outR"})
    BY <1>e, <1>6, ClosesEnds DEF ReadEof, ReadInterrupted
  <2> QED
    BY <1>e, <1>0, <1>6, <2>1 DEF ReadEof, ReadInterrupted, Goto, TypeOK
<1>7. CASE (WriteAll(c) \/ Read(c) \/ Wait(c)) /\ UNCHANGED up
  BY <1>0, <1>7 DEF WriteAll, Read, Wait, Goto, TypeOK, Processes
<1>8. CASE (Parse(c) \/ SwapSinglePost(c)) /\ UNCHANGED up
  BY <1>0, <1>8 DEF Parse, SwapSinglePost, Goto, End, TypeOK
<1>9. CASE WriteBroken(c)
  BY <1>0, <1>9 DEF WriteBroken, End, TypeOK, Processes
<1> QED
  BY <1>1, <1>2, <1>3, <1>4, <1>5, <1>6, <1>7, <1>8, <1>9 DEF Begin, Continue

\* The children's side: a live child can write its output pipe, and the reply
\* the service parses is all that its child wrote.
LEMMA ChildSide ==
  ASSUME IInv, NEW c \in Calls, Begin(c) \/ Continue(c)
  PROVE  \A d \in Calls : ChildInv(d)' /\ ReplyInv(d)'
<1>0. TypeOK /\ ServiceInv(c) /\ ChildInv(c) /\ ReplyInv(c) /\ up
  BY DEF IInv, Begin, Continue
<1>1. ASSUME NEW d \in Calls, d # c
      PROVE  ChildInv(d)' /\ ReplyInv(d)'
  <2>1. UNCHANGED <<pc[d], outcome[d], sent[d], got[d], cut[d]>>
    BY <1>0, <1>1 DEF TypeOK, Begin, Continue, PipeIn, PipeOut, Fork, CloseEnds,
       WriteAll, CloseIn, Read, ReadEof, ReadInterrupted, Interrupted, Parse,
       Wait, SwapSinglePost, WriteBroken, Goto, End
  <2>2. UNCHANGED <<fds[d], child[d], took[d], wrote[d]>>
    <3>1. CASE Fork(c)
      BY <1>0, <1>1, <3>1, ClosesEnds DEF Fork, TypeOK, Processes, Ends
    <3>2. CASE ~Fork(c)
      BY <1>0, <1>1, <3>2, ServiceLeavesChildren
    <3> QED
      BY <3>1, <3>2
  <2> QED
    BY <2>1, <2>2 DEF IInv, ChildInv, ReplyInv, StoppedReading, Swapping
<1>2. ChildInv(c)' /\ ReplyInv(c)'
  <2> USE DEF StoppedReading, Swapping
  <2>1. CASE Fork(c)
    <3>1. /\ pc[c] = "fork" /\ outcome[c] = "none" /\ UNCHANGED <<sent, got, cut, took, wrote>>
          /\ {<<c, "inR">>, <<c, "outW">>} \subseteq fds[Service]
      BY <1>0, <2>1 DEF Fork, ServiceInv, Serves, TypeOK
    <3>2. CASE /\ fds' = [fds EXCEPT ![c] = fds[Service]]
               /\ child' = [child EXCEPT ![c] = "forked"]
               /\ Goto(c, "closeEnds")
      BY <1>0, <3>1, <3>2 DEF Goto, TypeOK, Processes, ChildInv, ReplyInv
    <3>3. CASE End(c, "nofork") /\ Closes(c, Ends) /\ UNCHANGED child
      <4>1. fds'[c] = fds[c]
        BY <1>0, <3>3, ClosesEnds
      <4> QED
        BY <1>0, <3>1, <3>3, <4>1 DEF End, TypeOK, ChildInv, ReplyInv
    <3> QED
      BY <2>1, <3>2, <3>3 DEF Fork
  <2>2. CASE ReadEof(c)
    <3>1. child[c] \in {"zombie", "reaped"} /\ got[c] = wrote[c]
      BY <1>0, <2>2 DEF ReadEof, Open, ChildInv, TypeOK, ChildStates, Processes
    <3>2. child'[c] = child[c] /\ fds'[c] = fds[c] /\ UNCHANGED <<took, wrote>>
      BY <1>0, <2>2, ClosesEnds DEF ReadEof, Ends, children
    <3> QED
      BY <1>0, <2>2, <3>1, <3>2
         DEF ReadEof, Goto, TypeOK, ServiceInv, ChildInv, ReplyInv
  <2>3. CASE ReadInterrupted(c)
    <3>1. child'[c] = child[c] /\ fds'[c] = fds[c] /\ UNCHANGED <<took, wrote>>
      BY <1>0, <2>3, ClosesEnds DEF ReadInterrupted, Ends, children
    <3>2. "read" \in cut'[c]
      BY <1>0, <2>3 DEF ReadInterrupted, Interrupted, TypeOK
    <3> QED
      BY <1>0, <2>3, <3>1, <3>2
         DEF ReadInterrupted, Goto, TypeOK, ServiceInv, ChildInv, ReplyInv
  <2>4. CASE ~Fork(c) /\ ~ReadEof(c) /\ ~ReadInterrupted(c)
    <3>1. /\ fds'[c] = fds[c] /\ UNCHANGED <<took, wrote>>
          /\ child'[c] # child[c] => child'[c] = "reaped" /\ Wait(c)
      BY <1>0, <2>4, ServiceLeavesChildren
    <3>2. CASE PipeIn(c) \/ PipeOut(c) \/ CloseEnds(c) \/ WriteAll(c) \/ CloseIn(c)
      BY <1>0, <3>1, <3>2
         DEF PipeIn, PipeOut, CloseEnds, WriteAll, CloseIn, Wait, Goto, End,
             TypeOK, ServiceInv, ChildInv, ReplyInv
    <3>3. CASE Read(c)
      <4>1. got'[c] <= wrote'[c]
        BY <1>0, <3>1, <3>3 DEF Read, TypeOK
      <4> QED
        BY <1>0, <3>1, <3>3, <4>1 DEF Read, Wait, TypeOK, ServiceInv, ChildInv, ReplyInv
    <3>6. CASE WriteBroken(c)
      BY <1>0, <3>1, <3>6
         DEF WriteBroken, Wait, End, TypeOK, ServiceInv, ChildInv, ReplyInv
    <3>4. CASE Parse(c) \/ SwapSinglePost(c)
      BY <1>0, <3>1, <3>4
         DEF Parse, SwapSinglePost, Wait, Goto, End, TypeOK, ServiceInv, ChildInv, ReplyInv
    <3>5. CASE Wait(c)
      <4>1. cut[c] \subseteq cut'[c] /\ ("read" \in cut'[c] => "read" \in cut[c])
        BY <1>0, <3>5 DEF Wait, Interrupted, TypeOK
      <4>2. child'[c] = "reaped" \/ ("waitpid" \in cut'[c] /\ child'[c] = child[c])
        BY <1>0, <3>5 DEF Wait, Interrupted, TypeOK
      <4> QED
        BY <1>0, <3>1, <3>5, <4>1, <4>2
           DEF Wait, Goto, TypeOK, ServiceInv, ChildInv, ReplyInv
    <3> QED
      BY <2>4, <3>2, <3>3, <3>4, <3>5, <3>6 DEF Begin, Continue
  <2> QED
    BY <2>1, <2>2, <2>3, <2>4
<1> QED
  BY <1>1, <1>2

LEMMA ChildStepKeeps ==
  ASSUME IInv, NEW c \in Calls, ChildStep(c)
  PROVE  \A d \in Calls : ServiceInv(d)' /\ ChildInv(d)' /\ ReplyInv(d)'
<1>1. TypeOK /\ \A d \in Calls : ServiceInv(d) /\ ChildInv(d) /\ ReplyInv(d)
  BY DEF IInv
<1>2. fds'[Service] = fds[Service] /\ UNCHANGED <<up, pc, outcome, sent, got, cut>>
  BY <1>1 DEF ChildStep, ChildSetUp, ChildRead, ChildWrite, ChildExit,
              ChildDies, Exits, service, TypeOK, Processes
<1>3. \A d \in Calls \ {c} : UNCHANGED <<fds[d], child[d], took[d], wrote[d]>>
  BY <1>1 DEF ChildStep, ChildSetUp, ChildRead, ChildWrite, ChildExit,
              ChildDies, Exits, service, TypeOK, Processes
<1>4. ASSUME NEW d \in Calls
      PROVE  ServiceInv(d)'
  BY <1>1, <1>2 DEF ServiceInv, Serves
<1>5. ASSUME NEW d \in Calls, d # c
      PROVE  ChildInv(d)' /\ ReplyInv(d)'
  BY <1>1, <1>2, <1>3, <1>5 DEF ChildInv, ReplyInv, StoppedReading, Swapping
<1>6. ChildInv(c)' /\ ReplyInv(c)'
  BY <1>1, <1>2 DEF ChildStep, ChildSetUp, ChildRead, ChildWrite, ChildExit,
                    ChildDies, Exits, Own, TypeOK, Processes, ChildInv, ReplyInv,
                    StoppedReading, Swapping
<1> QED
  BY <1>4, <1>5, <1>6

\* For any calls, threads, pipe sizes, faults and descriptor numbers.
THEOREM Invariance == Spec => []IInv
<1>1. Init => IInv
  BY TypeInit DEF Init, IInv, ServiceInv, ChildInv, ReplyInv, Serves, Processes,
                    StoppedReading, Swapping
<1>2. IInv /\ [Next]_vars => IInv'
  <2> SUFFICES ASSUME IInv, [Next]_vars
               PROVE  IInv'
    OBVIOUS
  <2>0. TypeOK'
    BY TypeStep DEF IInv
  <2>1. ASSUME NEW c \in Calls, Begin(c) \/ Continue(c)
        PROVE  IInv'
    BY <2>0, <2>1, ServiceSide, ChildSide DEF IInv
  <2>2. ASSUME NEW c \in Calls, ChildStep(c)
        PROVE  IInv'
    BY <2>0, <2>2, ChildStepKeeps DEF IInv
  <2>3. CASE UNCHANGED vars
    BY <2>0, <2>3 DEF vars, IInv, ServiceInv, Serves, ChildInv, ReplyInv,
                         StoppedReading, Swapping
  <2> QED
    BY <2>1, <2>2, <2>3 DEF Next, Quiescent
<1> QED
  BY <1>1, <1>2, PTL DEF Spec

\* Unless a signal breaks off its read, the service parses all that its child
\* wrote, after the child has ended; it swaps in only a complete result, of a
\* child that was waited for unless a signal broke off waitpid.
THEOREM WholeReply == Spec => []ReplyIsWhole
<1>1. IInv => ReplyIsWhole
  BY DEF IInv, ReplyInv, ReplyIsWhole
<1> QED
  BY <1>1, Invariance, PTL

\* Every way out of a call but write_all's exception closes its descriptors.
THEOREM NoLeak == Spec => []DescriptorsReturned
<1>1. IInv => DescriptorsReturned
  <2> SUFFICES ASSUME IInv, NEW c \in Calls, pc[c] = "done", outcome[c] # "write",
                      NEW d \in fds[Service] \intersect Own(c, Ends)
               PROVE  FALSE
    BY DEF DescriptorsReturned
  <2>1. PICK e \in Ends : d = <<c, e>>
    BY DEF Own
  <2> QED
    BY <2>1 DEF IInv, ServiceInv, Serves, Ends
<1> QED
  BY <1>1, Invariance, PTL

\* The service loses the reader of its pipe only by the death of that child.
THEOREM ReaderStays == Spec => []WriterHasReader
<1>1. IInv => WriterHasReader
  BY DEF IInv, TypeOK, ChildStates, Processes, Open, ChildInv, WriterHasReader
<1> QED
  BY <1>1, Invariance, PTL

\* An end that the service has closed is open in the running child of its own
\* call, or in a child that has still to close what it inherited.
LEMMA Holders ==
  ASSUME IInv, OnlyOwnEnds, NEW c \in Calls, NEW e \in Ends,
         ~Serves(c, e), Open(c, e), \A d \in Calls : child[d] # "forked"
  PROVE  child[c] = "running" /\ e \in {"inR", "outW"}
<1>1. PICK d \in Calls : <<c, e>> \in fds[d]
  BY DEF Open, Serves, Processes
<1>2. child[d] = "running"
  BY <1>1 DEF IInv, ChildInv
<1>3. <<c, e>> \in Own(d, {"inR", "outW"})
  BY <1>1, <1>2 DEF OnlyOwnEnds
<1>4. d = c /\ e \in {"inR", "outW"}
  BY <1>3 DEF Own
<1> QED
  BY <1>2, <1>4

\* For any number of calls and threads and any sizes of pipe, payload and
\* output: no thread waits for anything but its own child, which can go on, or
\* for a child just forked.  Nobody waits in a circle, whatever fails or dies.
THEOREM NoCircle == ASSUME HighEnds = {} PROVE Spec => []WaitsForOwnChild
<1>1. ASSUME IInv, OnlyOwnEnds, up, NEW c \in Calls, ServiceWaits(c),
             \A d \in Calls : child[d] # "forked"
      PROVE  ChildMoves(c)
  <2>1. TypeOK /\ ServiceInv(c) /\ ChildInv(c) /\ ReplyInv(c)
    BY <1>1 DEF IInv
  <2>2. /\ sent[c] \in Nat /\ took[c] \in Nat /\ wrote[c] \in Nat /\ got[c] \in Nat
        /\ took[c] <= sent[c] /\ wrote[c] <= Output
    BY <2>1 DEF TypeOK, ChildInv
  <2>3. CASE pc[c] = "write"
    <3>1. Open(c, "inR") /\ took[c] < sent[c]
      BY <1>1, <2>2, <2>3 DEF ServiceWaits
    <3>2. child[c] = "running"
      BY <1>1, <2>1, <2>3, <3>1, Holders DEF ServiceInv, Ends
    <3> QED
      BY <3>1, <3>2 DEF ChildMoves
  <2>4. CASE pc[c] = "read"
    <3>1. got[c] = wrote[c] /\ Open(c, "outW")
      BY <1>1, <2>4 DEF ServiceWaits
    <3>2. child[c] = "running"
      BY <1>1, <2>1, <2>4, <3>1, Holders DEF ServiceInv, Ends
    <3>3. Open(c, "outR")
      BY <1>1, <2>1, <2>4 DEF ServiceInv, Serves, Open, Processes
    <3>4. outcome[c] = "none" /\ ~Serves(c, "inW")
      BY <2>1, <2>4 DEF ServiceInv, TypeOK
    <3>5. ~Open(c, "inW")
      BY <1>1, <3>4, Holders DEF Ends
    <3> QED
      BY <2>2, <3>1, <3>2, <3>3, <3>5 DEF ChildMoves, AtEof
  <2>5. CASE pc[c] = "wait"
    <3>1. wrote[c] = Output
      BY <2>1, <2>2, <2>5, SizeAssumption DEF ReplyInv
    <3>2. child[c] = "running"
      BY <1>1, <2>1, <2>5 DEF ServiceWaits, ChildInv, TypeOK, ChildStates
    <3>3. outcome[c] = "none" /\ ~Serves(c, "inW")
      BY <2>1, <2>5 DEF ServiceInv, TypeOK
    <3>4. ~Open(c, "inW")
      BY <1>1, <3>3, Holders DEF Ends
    <3> QED
      BY <2>2, <3>1, <3>2, <3>4 DEF ChildMoves, AtEof
  <2> QED
    BY <1>1, <2>3, <2>4, <2>5 DEF ServiceWaits
<1>2. IInv /\ OnlyOwnEnds => WaitsForOwnChild
  BY <1>1 DEF WaitsForOwnChild
<1> QED
  BY <1>2, Invariance, ChildrenIsolated, PTL
=============================================================================
