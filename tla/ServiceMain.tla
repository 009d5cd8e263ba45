---------------------------- MODULE ServiceMain -----------------------------
(***************************************************************************)
(* main of livepostsvc/main.cpp: the checks of the environment, the start  *)
(* of the server, the threads that run its handlers, and the ways the      *)
(* process ends: by a signal, by an exception, or for want of something.   *)
(*                                                                         *)
(* What a handler does is LivePosts; here it begins, ends, or lets an      *)
(* exception out of run().  The RestServer, the database pool and the      *)
(* redis objects are made in one step, which may throw.                    *)
(***************************************************************************)
EXTENDS Integers, FiniteSets

CONSTANTS
    Workers,      \* the threads main may make
    Main,         \* its own
    ThreadCounts, \* the values of --threads tried, each a uint16
    MaxHandlers   \* bound: handlers begun

\* What may be wrong with the environment or the command line, or asked of it.
Variables == {"MTLOG_LOGFILE", "JWT_SECRET_KEY", "APIDB", "APIDB_PORT", "REDIS",
              "NODE_PATH"}
Options == {"PORT", "option", "address"}
Wrongs == Variables \union Options \union {"--help", "bind"}

\* The files of NODE_PATH and PRERENDER_SCRIPT: "others" has permission bits,
\* but none for the user of the service.
Files == {"empty", "missing", "directory", "locked", "others", "usable"}

ASSUME MainAssumption == /\ IsFiniteSet(Workers)
                         /\ Main \notin Workers
                         /\ ThreadCounts \subseteq 0..(Cardinality(Workers) + 1)
                         /\ MaxHandlers \in Nat

VARIABLES
    at,        \* where main is, or how the process ended
    code,      \* what it returned
    wrong,     \* what is wrong
    node, script, \* the two files
    threads,   \* --threads
    thread,    \* the threads: what each does
    stopped,   \* ioc.stop() was called
    caught,    \* the signal set waits
    signalled, \* a signal has come to it
    handlers   \* handlers begun so far

start == <<wrong, node, script, threads>>
vars == <<at, code, start, thread, stopped, caught, signalled, handlers>>

AllThreads == Workers \union {Main}
Places == {"env", "args", "selftest", "listen", "ready", "signals", "reserve",
           "spawn", "run", "join", "returned", "terminated", "killed"}

TypeOK ==
    /\ at \in Places
    /\ code \in {"none", "success", "failure"}
    /\ wrong \subseteq Wrongs
    /\ node \in Files /\ script \in Files
    /\ threads \in ThreadCounts
    /\ thread \in [AllThreads -> {"none", "run", "handle", "back", "joined"}]
    /\ stopped \in BOOLEAN /\ caught \in BOOLEAN /\ signalled \in BOOLEAN
    /\ handlers \in Nat

\* At most one thing is wrong beside --help.
Init ==
    /\ at = "env"
    /\ code = "none"
    /\ wrong \in {w \in SUBSET Wrongs : Cardinality(w \ {"--help"}) <= 1}
    /\ node \in Files /\ script \in Files
    /\ threads \in ThreadCounts
    /\ thread = [t \in AllThreads |-> "none"]
    /\ stopped = FALSE /\ caught = FALSE /\ signalled = FALSE
    /\ handlers = 0

----------------------------------------------------------------------------
Ended == at \in {"returned", "terminated", "killed"}

In(t) == thread[t] \in {"run", "handle"}
Made == {w \in Workers : thread[w] # "none"}

Goto(place) == at' = place /\ UNCHANGED code
Return(c) == at' = "returned" /\ code' = c

Become(t, x) == thread' = [thread EXCEPT ![t] = x]

\* The exception unwinds main to its catch clauses: the vector of threads is
\* destroyed on the way, and a thread that is not joined ends the process.
Unwind_Detached == Return("failure")
Unwind ==
    \/ Made = {} /\ Return("failure")
    \/ Made # {} /\ Goto("terminated")

----------------------------------------------------------------------------
\* The variables, in whatever order: each that is missing is a failure.
CheckEnvironment ==
    /\ at = "env"
    /\ \/ wrong \intersect Variables # {} /\ Return("failure")
       \/ wrong \intersect Variables = {} /\ Goto("args")
    /\ UNCHANGED <<start, thread, stopped, caught, signalled, handlers>>

\* parse_args, and make_address: what they throw is a failure; PORT is looked
\* at before --help, and --help before the address.
ParseArgs ==
    /\ at = "args"
    /\ \/ wrong \intersect {"PORT", "option"} # {} /\ Return("failure")
       \/ wrong \intersect {"PORT", "option"} = {} /\ "--help" \in wrong /\ Return("success")
       \/ wrong \intersect Options = {"address"} /\ "--help" \notin wrong /\ Return("failure")
       \/ wrong \intersect (Options \union {"--help"}) = {} /\ Goto("selftest")
    /\ UNCHANGED <<start, thread, stopped, caught, signalled, handlers>>

\* Executable by somebody; readable by somebody.
check_node_path == node \in {"usable", "others"}
check_prerender_script == script \in {"usable", "others"}

\* Faulty variant: the failed self-test is logged and the service goes on.
SelfTest_Logs ==
    /\ at = "selftest"
    /\ Goto("listen")
    /\ UNCHANGED <<start, thread, stopped, caught, signalled, handlers>>

SelfTest ==
    /\ at = "selftest"
    /\ \/ check_node_path /\ check_prerender_script /\ Goto("listen")
       \/ ~(check_node_path /\ check_prerender_script) /\ Return("failure")
    /\ UNCHANGED <<start, thread, stopped, caught, signalled, handlers>>

\* The server is built, its routes are added and it runs: it accepts.
Listen ==
    /\ at = "listen"
    /\ \/ "bind" \in wrong /\ Return("failure")
       \/ "bind" \notin wrong /\ Goto("ready")
    /\ UNCHANGED <<start, thread, stopped, caught, signalled, handlers>>

\* "ready for signal to stop"
Ready ==
    /\ at = "ready"
    /\ Goto("signals")
    /\ UNCHANGED <<start, thread, stopped, caught, signalled, handlers>>

AddSignals ==
    /\ at = "signals"
    /\ caught' = TRUE
    /\ Goto("reserve")
    /\ UNCHANGED <<start, thread, stopped, signalled, handlers>>

\* v.reserve(threads - 1): -1 is more than max_size().
Reserve ==
    /\ at = "reserve"
    /\ \/ threads = 0 /\ Return("failure")
       \/ threads # 0 /\ Goto("spawn")
    /\ UNCHANGED <<start, thread, stopped, caught, signalled, handlers>>

\* Faulty variant: one thread too many.
Spawn_OneMore(w) ==
    /\ at = "spawn"
    /\ thread[w] = "none"
    /\ Cardinality(Made) < threads
    /\ Become(w, "run")
    /\ UNCHANGED <<at, code, start, stopped, caught, signalled, handlers>>

Spawn(w) ==
    /\ at = "spawn"
    /\ thread[w] = "none"
    /\ Cardinality(Made) < threads - 1
    /\ Become(w, "run")
    /\ UNCHANGED <<at, code, start, stopped, caught, signalled, handlers>>

\* No thread can be made: std::system_error.
SpawnFails ==
    /\ at = "spawn"
    /\ Cardinality(Made) < threads - 1
    /\ Unwind
    /\ UNCHANGED <<start, thread, stopped, caught, signalled, handlers>>

Run ==
    /\ at = "spawn"
    /\ Cardinality(Made) >= threads - 1
    /\ Goto("run")
    /\ Become(Main, "run")
    /\ UNCHANGED <<start, stopped, caught, signalled, handlers>>

----------------------------------------------------------------------------
\* Inside run(): a handler is taken up and ends.
Handle(t) ==
    /\ ~Ended /\ ~stopped
    /\ thread[t] = "run"
    /\ handlers < MaxHandlers
    /\ handlers' = handlers + 1
    /\ Become(t, "handle")
    /\ UNCHANGED <<at, code, start, stopped, caught, signalled>>

Finish(t) ==
    /\ ~Ended
    /\ thread[t] = "handle"
    /\ Become(t, "run")
    /\ UNCHANGED <<at, code, start, stopped, caught, signalled, handlers>>

\* An exception leaves a handler: out of a worker it ends the process, out of
\* main's own run() it unwinds main.
Throw(t) ==
    /\ ~Ended
    /\ thread[t] = "handle"
    /\ \/ t # Main /\ Goto("terminated")
       \/ t = Main /\ Unwind
    /\ UNCHANGED <<start, thread, stopped, caught, signalled, handlers>>

\* Faulty variant: the callback of async_wait does not stop the io_context.
HandleSignal_Ignores(t) ==
    /\ ~Ended /\ ~stopped
    /\ thread[t] = "run" /\ signalled
    /\ UNCHANGED vars

\* The callback of async_wait: ioc.stop().  The set is not waited for again.
HandleSignal(t) ==
    /\ ~Ended /\ ~stopped
    /\ thread[t] = "run" /\ signalled
    /\ stopped' = TRUE
    /\ UNCHANGED <<at, code, start, thread, caught, signalled, handlers>>

\* run() returns.
Leave(t) ==
    /\ ~Ended /\ stopped
    /\ thread[t] = "run"
    /\ Become(t, "back")
    /\ IF t = Main THEN Goto("join") ELSE UNCHANGED <<at, code>>
    /\ UNCHANGED <<start, stopped, caught, signalled, handlers>>

\* Faulty variant: main ends without its threads.
Join_Skips ==
    /\ at = "join"
    /\ Return("success")
    /\ UNCHANGED <<start, thread, stopped, caught, signalled, handlers>>

\* t.join() for every thread, and the return.
Join ==
    /\ at = "join"
    /\ \A w \in Made : thread[w] = "back"
    /\ thread' = [t \in AllThreads |-> IF t \in Made THEN "joined" ELSE thread[t]]
    /\ Return("success")
    /\ UNCHANGED <<start, stopped, caught, signalled, handlers>>

\* SIGINT, SIGTERM or SIGQUIT: kills the process that does not catch it yet;
\* one after the first has no effect.
Signal ==
    /\ ~Ended
    /\ \/ caught /\ signalled' = TRUE /\ UNCHANGED at
       \/ ~caught /\ at' = "killed" /\ UNCHANGED signalled
    /\ UNCHANGED <<code, start, thread, stopped, caught, handlers>>

Over == Ended /\ UNCHANGED vars

\* What the threads do once they are in run(), signals aside.
Serve(t) == Handle(t) \/ Finish(t) \/ Throw(t)

Begin == \/ CheckEnvironment \/ ParseArgs \/ SelfTest \/ Listen \/ Ready
         \/ AddSignals \/ Reserve \/ SpawnFails \/ Run
         \/ \E w \in Workers : Spawn(w)

Next ==
    \/ Begin
    \/ \E t \in AllThreads : Serve(t) \/ HandleSignal(t) \/ Leave(t)
    \/ Join
    \/ Signal
    \/ Over

Spec == Init /\ [][Next]_vars

\* main goes on, the kernel runs its threads, the io_context gives the signal
\* to one of them even if there is always another handler, and handlers end.
FairSpec ==
    /\ Spec
    /\ WF_vars(Begin) /\ WF_vars(Join)
    /\ SF_vars(\E t \in AllThreads : HandleSignal(t))
    /\ \A t \in AllThreads : WF_vars(Finish(t)) /\ WF_vars(Leave(t))

----------------------------------------------------------------------------
\* The inductive invariant: what each place of main says of the threads it has
\* made, of the checks behind it and of the requests it may have handled.
Sound == wrong = {} /\ {node, script} \subseteq {"usable", "others"}

BeforeThreads == {"env", "args", "selftest", "listen", "ready", "signals", "reserve"}
Serving == {"ready", "signals", "reserve", "spawn", "run", "join"}

PlaceInv ==
    /\ at \in BeforeThreads => Made = {}
    /\ at \in BeforeThreads \union {"spawn"} => thread[Main] = "none"
    /\ at \in {"selftest", "listen"} => wrong \subseteq {"bind"}
    /\ at = "listen" => {node, script} \subseteq {"usable", "others"}
    /\ at \in Serving => Sound
    /\ at = "args" => wrong \intersect Variables = {}
    /\ at \in {"spawn", "run", "join"} => threads # 0
    /\ at = "spawn" => Cardinality(Made) <= threads - 1
    /\ at = "run" => In(Main)
    /\ at \in {"run", "join"} => Cardinality(Made) = threads - 1
    /\ at = "join" => stopped /\ thread[Main] = "back"
    /\ ~Ended => code = "none"

ThreadsInv ==
    /\ handlers > 0 => Sound
    /\ Made = {} /\ thread[Main] = "none" => handlers = 0 /\ ~stopped
    /\ ~Ended => \A t \in AllThreads : thread[t] # "joined"
    /\ ~stopped => \A t \in AllThreads : thread[t] \notin {"back", "joined"}
    /\ thread[Main] # "none" => threads # 0 /\ Cardinality(Made) = threads - 1
    /\ stopped => signalled

\* When main has returned, with whatever code, none of its threads is left.
NoThreadIsLeft ==
    at = "returned" => \A w \in Workers : thread[w] \in {"none", "joined"}

\* What the process returns can be trusted: success is --help or the orderly end
\* after a signal, and a failure that was not found by a check before the
\* server listened leaves no request half handled by another thread.
ExitCodeIsHonest ==
    /\ code = "success" => \/ "--help" \in wrong /\ handlers = 0
                           \/ stopped /\ signalled
    /\ code = "failure" => threads = 1 \/ (handlers = 0 /\ ~stopped)

\* While the service runs, as many threads as --threads says run handlers.
FullStrength ==
    In(Main) /\ ~stopped /\ ~Ended
        => Cardinality({t \in AllThreads : In(t)}) = threads

\* All of it; that no request is handled which the checks should have kept out is
\* the first conjunct of ThreadsInv.
IInv == TypeOK /\ PlaceInv /\ ThreadsInv /\ NoThreadIsLeft /\ ExitCodeIsHonest

\* A signal that came once the set was waiting ends the process, whatever the
\* threads are doing, before they were all made or after.
SignalEnds == signalled ~> Ended
=============================================================================
