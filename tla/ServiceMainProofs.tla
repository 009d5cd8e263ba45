------------------------- MODULE ServiceMainProofs --------------------------
(***************************************************************************)
(* Proofs about ServiceMain for any number of threads and handlers.        *)
(***************************************************************************)
EXTENDS ServiceMain, FiniteSetTheorems, TLAPS

USE MainAssumption DEF AllThreads, Ended, In

LEMMA MadeFinite ==
  IsFiniteSet(Made) /\ Cardinality(Made) \in Nat
BY FS_Subset, FS_CardinalityType DEF Made

LEMMA InitInv == Init => IInv
<1> SUFFICES ASSUME Init PROVE IInv
  OBVIOUS
<1>1. TypeOK
  BY DEF Init, TypeOK, Places
<1>2. PlaceInv
  BY DEF Init, PlaceInv, BeforeThreads, Serving, Made
<1>3. ThreadsInv
  BY DEF Init, ThreadsInv
<1>4. NoThreadIsLeft /\ ExitCodeIsHonest
  BY DEF Init, NoThreadIsLeft, ExitCodeIsHonest
<1> QED
  BY <1>1, <1>2, <1>3, <1>4 DEF IInv

\* The steps of main alone.
LEMMA MainStep ==
  ASSUME IInv,
         \/ CheckEnvironment \/ ParseArgs \/ SelfTest \/ Listen \/ Ready
         \/ AddSignals \/ Reserve \/ SpawnFails
  PROVE  IInv'
<1>1. UNCHANGED <<wrong, node, script, threads, thread, stopped, signalled, handlers>>
  BY DEF start, CheckEnvironment, ParseArgs, SelfTest, Listen, Ready, AddSignals, Reserve,
         SpawnFails
<1>2. Made' = Made
  BY <1>1 DEF Made
<1>3. at \in BeforeThreads \union {"spawn"}
  BY DEF BeforeThreads, CheckEnvironment, ParseArgs, SelfTest, Listen, Ready, AddSignals,
         Reserve, SpawnFails
<1>3a. /\ TypeOK /\ ~Ended /\ code = "none" /\ thread[Main] = "none"
       /\ Made = {} => handlers = 0 /\ ~stopped
  BY <1>3 DEF IInv, PlaceInv, ThreadsInv, BeforeThreads
<1>4. \/ at' = "returned" /\ code' = "failure" /\ Made = {}
      \/ at' = "returned" /\ code' = "success" /\ Made = {} /\ "--help" \in wrong
      \/ at' = "terminated" /\ code' = code
      \/ at' = "args" /\ code' = code /\ Made = {} /\ wrong \intersect Variables = {}
      \/ at' = "selftest" /\ code' = code /\ Made = {} /\ wrong \subseteq {"bind"}
      \/ at' = "listen" /\ code' = code /\ Made = {} /\ wrong \subseteq {"bind"}
         /\ {node, script} \subseteq {"usable", "others"}
      \/ at' \in {"ready", "signals", "reserve"} /\ code' = code /\ Made = {} /\ Sound
      \/ at' = "spawn" /\ code' = code /\ Made = {} /\ Sound /\ threads # 0
  <2> USE <1>3, <1>3a DEF IInv, PlaceInv, BeforeThreads, Serving, Goto, Return
  <2>1. CASE CheckEnvironment
    BY <2>1 DEF CheckEnvironment
  <2>2. CASE ParseArgs
    <3>1. wrong \intersect Variables = {} /\ wrong \subseteq Wrongs /\ Made = {}
      BY <2>2 DEF ParseArgs, TypeOK
    <3>2. wrong \intersect (Options \union {"--help"}) = {} => wrong \subseteq {"bind"}
      BY <3>1 DEF Wrongs
    <3> QED
      BY <2>2, <3>1, <3>2 DEF ParseArgs
  <2>3. CASE SelfTest
    BY <2>3 DEF SelfTest, check_node_path, check_prerender_script
  <2>4. CASE Listen
    BY <2>4 DEF Listen, Sound
  <2>5. CASE Ready \/ AddSignals
    BY <2>5 DEF Ready, AddSignals
  <2>6. CASE Reserve
    BY <2>6 DEF Reserve
  <2>7. CASE SpawnFails
    BY <2>7 DEF SpawnFails, Unwind
  <2> QED
    BY <2>1, <2>2, <2>3, <2>4, <2>5, <2>6, <2>7
<1>5. TypeOK'
  <2>1. caught' \in BOOLEAN
    BY <1>3, <1>3a DEF TypeOK, CheckEnvironment, ParseArgs, SelfTest, Listen, Ready, AddSignals,
                Reserve, SpawnFails
  <2> QED
    BY <1>1, <1>3, <1>3a, <1>4, <2>1 DEF TypeOK, Places
<1>6. PlaceInv'
  <2>1. Made = {} => Cardinality(Made) = 0
    BY FS_EmptySet
  <2>2. threads \in Nat
    BY <1>3, <1>3a, FS_CardinalityType DEF TypeOK
  <2> QED
    BY <1>1, <1>2, <1>3, <1>3a, <1>4, <2>1, <2>2 DEF PlaceInv, BeforeThreads, Serving, Sound
<1>7. ThreadsInv' /\ NoThreadIsLeft' /\ ExitCodeIsHonest'
  BY <1>1, <1>2, <1>3, <1>3a, <1>4
     DEF IInv, ThreadsInv, NoThreadIsLeft, ExitCodeIsHonest, Made, Sound, TypeOK
<1> QED
  BY <1>5, <1>6, <1>7 DEF IInv

LEMMA SpawnStep ==
  ASSUME IInv, NEW w \in Workers, Spawn(w)
  PROVE  IInv'
<1>1. /\ thread[w] = "none" /\ w \notin Made /\ Made' = Made \union {w}
  BY DEF Spawn, Become, IInv, TypeOK, Made
<1>2. Cardinality(Made') = Cardinality(Made) + 1
  BY <1>1, MadeFinite, FS_AddElement
<1> QED
  BY <1>1, <1>2, MadeFinite
     DEF Spawn, Become, start, IInv, TypeOK, PlaceInv, ThreadsInv, NoThreadIsLeft,
         ExitCodeIsHonest, BeforeThreads, Serving, Sound, Places

LEMMA RunStep ==
  ASSUME IInv, Run
  PROVE  IInv'
<1>1. Made' = Made
  BY DEF Run, Become, IInv, TypeOK, Made
<1> QED
  BY <1>1, MadeFinite
     DEF Run, Become, Goto, start, IInv, TypeOK, PlaceInv, ThreadsInv, NoThreadIsLeft,
         ExitCodeIsHonest, BeforeThreads, Serving, Sound, Places

\* The steps of a thread inside run().
LEMMA ThreadStep ==
  ASSUME IInv, NEW t \in AllThreads, Serve(t) \/ HandleSignal(t) \/ Leave(t)
  PROVE  IInv'
<1>1. Made' = Made /\ thread[t] \in {"run", "handle"} /\ ~Ended
  BY DEF Serve, Handle, Finish, Throw, HandleSignal, Leave, Become, IInv, TypeOK, Made
<1>2. UNCHANGED <<wrong, node, script, threads>>
  BY DEF start, Serve, Handle, Finish, Throw, HandleSignal, Leave
<1>3. /\ t = Main => at = "run" /\ Cardinality(Made) = threads - 1
      /\ t # Main => t \in Made /\ at \in {"spawn", "run", "join"}
  BY <1>1 DEF IInv, TypeOK, PlaceInv, ThreadsInv, BeforeThreads, Places, Made
<1>4. Sound /\ threads # 0
  BY <1>1, <1>3 DEF IInv, PlaceInv, Serving
<1> USE DEF IInv, TypeOK, PlaceInv, ThreadsInv, NoThreadIsLeft, ExitCodeIsHonest,
            BeforeThreads, Serving, Sound, Places, Goto, Return, Become
<1>5. CASE Handle(t) \/ Finish(t)
  BY <1>1, <1>2, <1>3, <1>4, <1>5 DEF Handle, Finish
<1>6. CASE Throw(t)
  <2>1. Made = {} => threads = 1
    BY <1>3, FS_EmptySet
  <2> QED
    BY <1>1, <1>2, <1>3, <1>4, <1>6, <2>1 DEF Throw, Unwind, Made
<1>7. CASE HandleSignal(t)
  BY <1>1, <1>2, <1>3, <1>4, <1>7 DEF HandleSignal
<1>8. CASE Leave(t)
  BY <1>1, <1>2, <1>3, <1>4, <1>8 DEF Leave
<1> QED
  BY <1>5, <1>6, <1>7, <1>8 DEF Serve

LEMMA JoinStep ==
  ASSUME IInv, Join
  PROVE  IInv'
<1>1. Made' = Made
  BY DEF Join, IInv, TypeOK, Made
<1> QED
  BY <1>1 DEF Join, Return, start, IInv, TypeOK, PlaceInv, ThreadsInv, NoThreadIsLeft,
              ExitCodeIsHonest, BeforeThreads, Serving, Sound, Places, Made

LEMMA SignalStep ==
  ASSUME IInv, Signal
  PROVE  IInv'
<1>1. /\ UNCHANGED <<code, wrong, node, script, threads, thread, stopped, caught, handlers>>
      /\ \/ at' = at /\ signalled' = TRUE
         \/ at' = "killed" /\ signalled' = signalled
  BY DEF Signal, start
<1>2. Made' = Made
  BY <1>1 DEF Made
<1>3. TypeOK'
  BY <1>1 DEF IInv, TypeOK, Places
<1>4. PlaceInv'
  BY <1>1, <1>2 DEF IInv, PlaceInv, BeforeThreads, Serving, Sound
<1>5. ThreadsInv' /\ NoThreadIsLeft' /\ ExitCodeIsHonest'
  BY <1>1, <1>2 DEF IInv, ThreadsInv, NoThreadIsLeft, ExitCodeIsHonest, Sound, Signal
<1> QED
  BY <1>3, <1>4, <1>5 DEF IInv

LEMMA Inductive == IInv /\ [Next]_vars => IInv'
<1> SUFFICES ASSUME IInv, [Next]_vars
             PROVE  IInv'
  OBVIOUS
<1>1. CASE Signal
  BY <1>1, SignalStep
<1>2. CASE UNCHANGED vars
  BY <1>2 DEF vars, start, IInv, TypeOK, PlaceInv, ThreadsInv, NoThreadIsLeft,
              ExitCodeIsHonest, Sound, Made
<1> QED
  BY <1>1, <1>2, MainStep, SpawnStep, RunStep, ThreadStep, JoinStep DEF Next, Begin, Over

\* For any --threads, whatever is missing, thrown or signalled, and when: main
\* returns without a thread left behind, and its exit code says what happened.
THEOREM Invariance == Spec => []IInv
BY InitInv, Inductive, PTL DEF Spec

\* When main has returned, with whatever code, none of its threads is left.
THEOREM NoneLeft == Spec => []NoThreadIsLeft
<1>1. IInv => NoThreadIsLeft
  BY DEF IInv
<1> QED
  BY <1>1, Invariance, PTL

\* Success is --help or the orderly end after a signal; a failure leaves no
\* request half handled by another thread.
THEOREM HonestExit == Spec => []ExitCodeIsHonest
<1>1. IInv => ExitCodeIsHonest
  BY DEF IInv
<1> QED
  BY <1>1, Invariance, PTL

\* The service runs its handlers on as many threads as it was told.
THEOREM Strength == Spec => []FullStrength
<1>1. ASSUME IInv
      PROVE  FullStrength
  <2> SUFFICES ASSUME In(Main), ~stopped, ~Ended
               PROVE  Cardinality({t \in AllThreads : In(t)}) = threads
    BY DEF FullStrength
  <2>1. {t \in AllThreads : In(t)} = Made \union {Main}
    BY <1>1 DEF IInv, TypeOK, ThreadsInv, Made
  <2>2. Main \notin Made
    BY DEF Made
  <2>3. Cardinality(Made \union {Main}) = Cardinality(Made) + 1
    BY <2>2, MadeFinite, FS_AddElement
  <2>4. Cardinality(Made) = threads - 1 /\ threads \in Nat
    BY <1>1, FS_CardinalityType DEF IInv, TypeOK, ThreadsInv
  <2> QED
    BY <2>1, <2>3, <2>4
<1> QED
  BY <1>1, Invariance, PTL
=============================================================================
