----------------------------- MODULE Prerender -----------------------------
(***************************************************************************)
(* prerenderPost of livepostsvc/prerender/Prerender.cpp: two pipes, fork,  *)
(* the node child and the blocking conversation with it, as several        *)
(* io_context threads run it at the same time.                             *)
(*                                                                         *)
(* A call has four pipe ends of its own; fds[q] is the set of pipe ends    *)
(* (of any call) that process q has open.  fork copies the whole table of  *)
(* the service, so a child starts with the ends of every call in progress, *)
(* and a reader sees the end of a pipe only when no process holds its      *)
(* write end.  Payload and output are counted in chunks.  The renderer     *)
(* itself is external: it reads its input, writes its result, in whatever  *)
(* order, and exits when it has read to the end and written everything.    *)
(*                                                                         *)
(* A signal to the service (SIGINT, SIGTERM and SIGQUIT have handlers, set *)
(* without SA_RESTART) breaks off a system call that blocks.  write_all    *)
(* tries again; the loop of reads and waitpid do not.                      *)
(***************************************************************************)
EXTENDS Integers, FiniteSets

CONSTANTS
    Calls,       \* bound: the calls of prerenderPost, each made once
    Service,     \* the service's own process; the others are the children
    NumThreads,  \* --threads: calls in progress at once
    Payload,     \* chunks the service writes to a child
    Output,      \* chunks a child writes back
    Capacity,    \* chunks a pipe holds
    HighEnds,    \* the ends that may get a descriptor of 1024 or more
    CallFaults,  \* system calls that may fail, or be broken off by a signal
    ChildFaults  \* may the child die before it is done (or execve fail)?

Ends == {"inR", "inW", "outR", "outW"}
Interruptible == {"read", "waitpid"}
SystemCalls == {"pipeIn", "pipeOut", "fork", "swap"} \union Interruptible

ASSUME ProcessAssumption == Service \notin Calls
ASSUME SizeAssumption == /\ NumThreads \in Nat \ {0}
                         /\ Payload \in Nat \ {0}
                         /\ Output \in Nat \ {0}
                         /\ Capacity \in Nat \ {0}
ASSUME OptionAssumption == /\ HighEnds \subseteq Ends
                           /\ CallFaults \subseteq SystemCalls
                           /\ ChildFaults \in BOOLEAN

VARIABLES
    up,         \* FALSE once a signal has killed the service
    pc,         \* where a call is
    outcome,    \* how it ended
    fds,        \* the pipe ends each process has open
    high,       \* the ends whose descriptor in the service is 1024 or more
    child,      \* the state of a call's child process
    sent, took, \* chunks of the payload written, and read by the child
    wrote, got, \* chunks of the output written, and read by the service
    cut         \* history: the system calls of a call that a signal broke off

service == <<pc, outcome, sent, got, cut>>
children == <<child, took, wrote>>
vars == <<up, pc, outcome, fds, high, child, sent, took, wrote, got, cut>>

Processes == Calls \union {Service}
Descriptors == Calls \X Ends
Steps == {"new", "pipeOut", "fork", "closeEnds", "write", "closeIn", "read",
          "parse", "wait", "swap", "done"}
ChildStates == {"none", "forked", "running", "zombie", "reaped"}

\* The calls of prerenderPost that return do so with "ok", or with "nopipe" or
\* "nofork" after a message to stderr; the other ends are exceptions.
Outcomes == {"none", "ok", "nopipe", "nofork", "write", "empty", "garbled",
             "refused", "swap"}

TypeOK ==
    /\ up \in BOOLEAN
    /\ pc \in [Calls -> Steps]
    /\ outcome \in [Calls -> Outcomes]
    /\ fds \in [Processes -> SUBSET Descriptors]
    /\ high \in SUBSET Descriptors
    /\ child \in [Calls -> ChildStates]
    /\ sent \in [Calls -> Nat] /\ took \in [Calls -> Nat]
    /\ wrote \in [Calls -> Nat] /\ got \in [Calls -> Nat]
    /\ cut \in [Calls -> SUBSET Interruptible]

Init ==
    /\ up = TRUE
    /\ pc = [c \in Calls |-> "new"]
    /\ outcome = [c \in Calls |-> "none"]
    /\ fds = [q \in Processes |-> {}]
    /\ high = {}
    /\ child = [c \in Calls |-> "none"]
    /\ sent = [c \in Calls |-> 0] /\ took = [c \in Calls |-> 0]
    /\ wrote = [c \in Calls |-> 0] /\ got = [c \in Calls |-> 0]
    /\ cut = [c \in Calls |-> {}]

----------------------------------------------------------------------------
InCall(c) == pc[c] \notin {"new", "done"}
Busy == Cardinality({c \in Calls : InCall(c)})

\* Is an end of c's pipes open in some process?
Open(c, end) == \E q \in Processes : <<c, end>> \in fds[q]

Own(c, ends) == {c} \X ends

\* A signal arrives while a system call of c blocks.
Interrupted(c, call) ==
    /\ call \in CallFaults
    /\ cut' = [cut EXCEPT ![c] = @ \union {call}]

Goto(c, step) == pc' = [pc EXCEPT ![c] = step] /\ UNCHANGED outcome

End(c, result) ==
    /\ pc' = [pc EXCEPT ![c] = "done"]
    /\ outcome' = [outcome EXCEPT ![c] = result]

\* The service opens or closes ends of c's pipes.
Opens(c, ends) ==
    /\ fds' = [fds EXCEPT ![Service] = @ \union Own(c, ends)]
    /\ \E H \in SUBSET (ends \intersect HighEnds) : high' = high \union Own(c, H)
Closes(c, ends) ==
    /\ fds' = [fds EXCEPT ![Service] = @ \ Own(c, ends)]
    /\ UNCHANGED high

----------------------------------------------------------------------------
\* pipe(pipe_in).
PipeIn(c) ==
    /\ pc[c] = "new"
    /\ Busy < NumThreads
    /\ \/ Opens(c, {"inR", "inW"}) /\ Goto(c, "pipeOut")
       \/ "pipeIn" \in CallFaults /\ End(c, "nopipe") /\ UNCHANGED <<fds, high>>
    /\ UNCHANGED <<sent, got, cut, children>>

\* Faulty variant: pipe_in stays open when pipe(pipe_out) fails.
PipeOut_Leaks(c) ==
    /\ pc[c] = "pipeOut"
    /\ \/ Opens(c, {"outR", "outW"}) /\ Goto(c, "fork")
       \/ "pipeOut" \in CallFaults /\ End(c, "nopipe") /\ UNCHANGED <<fds, high>>
    /\ UNCHANGED <<sent, got, cut, children>>

\* pipe(pipe_out), which closes pipe_in when it fails.
PipeOut(c) ==
    /\ pc[c] = "pipeOut"
    /\ \/ Opens(c, {"outR", "outW"}) /\ Goto(c, "fork")
       \/ "pipeOut" \in CallFaults /\ End(c, "nopipe") /\ Closes(c, Ends)
    /\ UNCHANGED <<sent, got, cut, children>>

\* fork(): the child has a copy of every descriptor of the service.
Fork(c) ==
    /\ pc[c] = "fork"
    /\ \/ /\ fds' = [fds EXCEPT ![c] = fds[Service]]
          /\ child' = [child EXCEPT ![c] = "forked"]
          /\ Goto(c, "closeEnds")
          /\ UNCHANGED high
       \/ /\ "fork" \in CallFaults
          /\ End(c, "nofork")
          /\ Closes(c, Ends)
          /\ UNCHANGED child
    /\ UNCHANGED <<sent, got, cut, took, wrote>>

\* Faulty variant: the service keeps its copy of the child's write end.
CloseEnds_KeepsOut(c) ==
    /\ pc[c] = "closeEnds"
    /\ Closes(c, {"inR"})
    /\ Goto(c, "write")
    /\ UNCHANGED <<sent, got, cut, children>>

\* The service closes the ends that belong to the child.
CloseEnds(c) ==
    /\ pc[c] = "closeEnds"
    /\ Closes(c, {"inR", "outW"})
    /\ Goto(c, "write")
    /\ UNCHANGED <<sent, got, cut, children>>

\* write_all: blocks while the pipe is full.
WriteAll(c) ==
    /\ pc[c] = "write"
    /\ Open(c, "inR")
    /\ sent[c] - took[c] < Capacity
    /\ sent' = [sent EXCEPT ![c] = @ + 1]
    /\ Goto(c, IF sent[c] + 1 < Payload THEN "write" ELSE "closeIn")
    /\ UNCHANGED <<fds, high, got, cut, children>>

\* Nobody can read the pipe any more: SIGPIPE, which nothing in the service
\* ignores, ends it with all its threads and descriptors; where it is ignored
\* by the environment, write_all throws and leaves two ends open.
WriteBroken(c) ==
    /\ pc[c] = "write"
    /\ ~Open(c, "inR")
    /\ \/ /\ up' = FALSE
          /\ fds' = [fds EXCEPT ![Service] = {}]
          /\ UNCHANGED <<pc, outcome>>
       \/ /\ End(c, "write")
          /\ UNCHANGED <<up, fds>>
    /\ UNCHANGED <<high, sent, got, cut, children>>

\* close(pipe_in[1]): send EOF to child.
CloseIn(c) ==
    /\ pc[c] = "closeIn"
    /\ Closes(c, {"inW"})
    /\ Goto(c, "read")
    /\ UNCHANGED <<sent, got, cut, children>>

\* Faulty variant: one read, not a loop.
Read_Once(c) ==
    /\ pc[c] = "read"
    /\ got[c] < wrote[c]
    /\ got' = [got EXCEPT ![c] = @ + 1]
    /\ Closes(c, {"outR"})
    /\ Goto(c, "parse")
    /\ UNCHANGED <<sent, cut, children>>

\* read() of what the child has written.
Read(c) ==
    /\ pc[c] = "read"
    /\ got[c] < wrote[c]
    /\ got' = [got EXCEPT ![c] = @ + 1]
    /\ UNCHANGED <<pc, outcome, fds, high, sent, cut, children>>

\* read() returns 0 once the pipe is empty and nobody can write to it.
ReadEof(c) ==
    /\ pc[c] = "read"
    /\ got[c] = wrote[c]
    /\ ~Open(c, "outW")
    /\ Closes(c, {"outR"})
    /\ Goto(c, "parse")
    /\ UNCHANGED <<sent, got, cut, children>>

\* read() returns -1 when a signal arrives while it blocks, on a pipe that is
\* empty and that somebody can still write to.  The loop takes that for the end.
ReadInterrupted(c) ==
    /\ pc[c] = "read"
    /\ got[c] = wrote[c]
    /\ Open(c, "outW")
    /\ Interrupted(c, "read")
    /\ Closes(c, {"outR"})
    /\ Goto(c, "parse")
    /\ UNCHANGED <<sent, got, children>>

\* No output, half a JSON document and an "error" reply are exceptions; the
\* child that gave them is not waited for.
Parse(c) ==
    /\ pc[c] = "parse"
    /\ \/ got[c] = 0 /\ End(c, "empty")
       \/ got[c] \in 1 .. Output - 1 /\ End(c, "garbled")
       \/ got[c] = Output /\ End(c, "refused")
       \/ got[c] = Output /\ Goto(c, "wait")
    /\ UNCHANGED <<fds, high, sent, got, cut, children>>

\* waitpid.  Neither the exit status nor a failure of waitpid is looked at; a
\* child whose files are closed may still have to become a zombie, so the call
\* may block, and be broken off, whatever the child does.
Wait(c) ==
    /\ pc[c] = "wait"
    /\ \/ /\ child[c] = "zombie"
          /\ child' = [child EXCEPT ![c] = "reaped"]
          /\ UNCHANGED cut
       \/ Interrupted(c, "waitpid") /\ UNCHANGED child
    /\ Goto(c, "swap")
    /\ UNCHANGED <<fds, high, sent, got, took, wrote>>

\* swap_single_post (see FolderSwap), and the return.
SwapSinglePost(c) ==
    /\ pc[c] = "swap"
    /\ \/ End(c, "ok")
       \/ "swap" \in CallFaults /\ End(c, "swap")
    /\ UNCHANGED <<fds, high, sent, got, cut, children>>

----------------------------------------------------------------------------
Exits(c) ==
    /\ child' = [child EXCEPT ![c] = "zombie"]
    /\ fds' = [fds EXCEPT ![c] = {}]
    /\ UNCHANGED <<took, wrote>>

\* Faulty variant: the inherited descriptors stay open.
ChildSetUp_KeepsInherited(c) ==
    /\ child[c] = "forked"
    /\ fds' = [fds EXCEPT ![c] = @ \ Own(c, {"inW", "outR"})]
    /\ child' = [child EXCEPT ![c] = "running"]
    /\ UNCHANGED <<took, wrote>>

\* Faulty variant: the closing loop starts at descriptor 0.
ChildSetUp_ClosesStdin(c) ==
    /\ child[c] = "forked"
    /\ fds' = [fds EXCEPT ![c] = {d \in @ : d[1] # c /\ d \in high}]
    /\ child' = [child EXCEPT ![c] = "running"]
    /\ UNCHANGED <<took, wrote>>

\* The child closes the service's ends, makes its own its stdin and stdout,
\* closes every other descriptor from 3 to 1023, and becomes node.
ChildSetUp(c) ==
    /\ child[c] = "forked"
    /\ fds' = [fds EXCEPT ![c] = Own(c, {"inR", "outW"})
                                 \union {d \in @ : d[1] # c /\ d \in high}]
    /\ child' = [child EXCEPT ![c] = "running"]
    /\ UNCHANGED <<took, wrote>>

AtEof(c) == took[c] = sent[c] /\ ~Open(c, "inW")

ChildRead(c) ==
    /\ child[c] = "running"
    /\ took[c] < sent[c]
    /\ took' = [took EXCEPT ![c] = @ + 1]
    /\ UNCHANGED <<fds, child, wrote>>

ChildWrite(c) ==
    /\ child[c] = "running"
    /\ wrote[c] < Output
    /\ wrote[c] - got[c] < Capacity
    /\ Open(c, "outR")
    /\ wrote' = [wrote EXCEPT ![c] = @ + 1]
    /\ UNCHANGED <<fds, child, took>>

ChildExit(c) ==
    /\ child[c] = "running"
    /\ AtEof(c) /\ wrote[c] = Output
    /\ Exits(c)

\* It crashes, or execve fails, or its output pipe is broken.
ChildDies(c) ==
    /\ child[c] \in {"forked", "running"}
    /\ ChildFaults \/ ~Open(c, "outR")
    /\ Exits(c)

----------------------------------------------------------------------------
\* Everything has ended: all calls were made, or the service is gone.
Quiescent ==
    /\ \/ ~up
       \/ \A c \in Calls : pc[c] = "done"
    /\ \A c \in Calls : child[c] \notin {"forked", "running"}
    /\ UNCHANGED vars

Begin(c) == up /\ PipeIn(c) /\ UNCHANGED up

Continue(c) ==
    /\ up
    /\ \/ /\ \/ PipeOut(c) \/ Fork(c) \/ CloseEnds(c) \/ WriteAll(c)
             \/ CloseIn(c) \/ Read(c) \/ ReadEof(c) \/ ReadInterrupted(c)
             \/ Parse(c) \/ Wait(c) \/ SwapSinglePost(c)
          /\ UNCHANGED up
       \/ WriteBroken(c)

ChildStep(c) ==
    /\ ChildSetUp(c) \/ ChildRead(c) \/ ChildWrite(c) \/ ChildExit(c)
       \/ ChildDies(c)
    /\ UNCHANGED <<up, high, service>>

Next ==
    \/ \E c \in Calls : Begin(c) \/ Continue(c) \/ ChildStep(c)
    \/ Quiescent

Spec == Init /\ [][Next]_vars

\* A child does what it is there for, or ends because nobody reads its output.
ChildRuns(c) ==
    /\ \/ ChildSetUp(c) \/ ChildRead(c) \/ ChildWrite(c) \/ ChildExit(c)
       \/ ~Open(c, "outR") /\ ChildDies(c)
    /\ UNCHANGED <<up, high, service>>

\* A thread in a call and a child process keep running.  No signal has to
\* arrive and no child has to crash, so neither may end a wait.
FairSpec ==
    Spec /\ \A c \in Calls : /\ WF_vars(Continue(c) /\ UNCHANGED cut)
                             /\ WF_vars(ChildRuns(c))

----------------------------------------------------------------------------
\* The inductive invariant: which ends the service can have open at each step
\* of a call, that a live child holds its own ends of the two pipes and a dead
\* one nothing, and that only a signal, or a child which has ended, lets the
\* service past the last read.
Serves(c, end) == <<c, end>> \in fds[Service]

ServiceInv(c) ==
    /\ outcome[c] # "none" => pc[c] = "done"
    /\ up /\ pc[c] = "fork" => Serves(c, "outW")
    /\ up /\ pc[c] \in {"fork", "closeEnds", "write", "closeIn", "read"} => Serves(c, "outR")
    /\ up /\ pc[c] \in {"pipeOut", "fork"} => Serves(c, "inR")
    /\ Serves(c, "inR") => pc[c] \in {"pipeOut", "fork", "closeEnds"}
    /\ Serves(c, "outW") => pc[c] \in {"fork", "closeEnds"}
    /\ Serves(c, "inW") =>
         \/ pc[c] \in {"pipeOut", "fork", "closeEnds", "write", "closeIn"}
         \/ outcome[c] = "write"
    /\ Serves(c, "outR") =>
         \/ pc[c] \in {"fork", "closeEnds", "write", "closeIn", "read"}
         \/ outcome[c] = "write"

ChildInv(c) ==
    /\ pc[c] \in {"new", "pipeOut", "fork"} => child[c] = "none"
    /\ pc[c] \in {"closeEnds", "write", "closeIn", "read", "parse", "wait"}
         => child[c] # "none"
    /\ child[c] = "reaped" => pc[c] \in {"swap", "done"}
    /\ child[c] \in {"forked", "running"} => {<<c, "inR">>, <<c, "outW">>} \subseteq fds[c]
    /\ child[c] \notin {"forked", "running"} => fds[c] = {}
    /\ took[c] <= sent[c] /\ wrote[c] <= Output

\* The service has stopped reading what the child of c writes, other than by
\* the exception of write_all.
StoppedReading(c) ==
    \/ pc[c] \in {"parse", "wait", "swap"}
    \/ outcome[c] \in {"empty", "garbled", "refused", "ok", "swap"}

\* The result of c has been, or is about to be, swapped in.
Swapping(c) == pc[c] = "swap" \/ outcome[c] \in {"ok", "swap"}

ReplyInv(c) ==
    /\ got[c] <= wrote[c]
    /\ StoppedReading(c) /\ "read" \notin cut[c]
         => got[c] = wrote[c] /\ child[c] \in {"zombie", "reaped"}
    /\ pc[c] = "wait" \/ Swapping(c) => got[c] = Output
    /\ Swapping(c) => child[c] = "reaped" \/ "waitpid" \in cut[c]

IInv ==
    /\ TypeOK
    /\ \A c \in Calls : ServiceInv(c) /\ ChildInv(c) /\ ReplyInv(c)

\* "Close all other inherited fds": once node runs it holds no pipe end but
\* the two that are its stdin and stdout.
OnlyOwnEnds ==
    \A c \in Calls :
        child[c] = "running" => fds[c] \subseteq Own(c, {"inR", "outW"})

\* Whatever the other calls inherit and close, and unless a signal breaks off
\* its read, a call stops reading only when it has all that its own child wrote
\* and that child has ended: nobody writes the staging directory any more, and
\* the call leaves no live child behind.  Only a complete result is swapped in,
\* and unless a signal breaks off waitpid its child has been waited for; so it
\* takes two signals for a swap beside a child that lives on.
ReplyIsWhole ==
    \A c \in Calls :
        /\ StoppedReading(c) /\ "read" \notin cut[c]
             => got[c] = wrote[c] /\ child[c] \in {"zombie", "reaped"}
        /\ Swapping(c)
             => got[c] = Output /\ (child[c] = "reaped" \/ "waitpid" \in cut[c])

\* Every way out of prerenderPost but the exception of write_all gives the
\* service's descriptors back.
DescriptorsReturned ==
    \A c \in Calls :
        pc[c] = "done" /\ outcome[c] # "write"
            => fds[Service] \intersect Own(c, Ends) = {}

\* The service writes to a pipe that nobody can read, and is ended by it, only
\* because the child of that very call has died: no other call, whatever it
\* inherits, closes or fails to do, takes the reader away.
WriterHasReader ==
    \A c \in Calls :
        up /\ pc[c] = "write" /\ ~Open(c, "inR") => child[c] = "zombie"

\* What keeps the thread of a call from its next step: a full pipe, an empty
\* one, or a child that has not ended.
ServiceWaits(c) ==
    \/ pc[c] = "write" /\ Open(c, "inR") /\ sent[c] - took[c] >= Capacity
    \/ pc[c] = "read" /\ got[c] = wrote[c] /\ Open(c, "outW")
    \/ pc[c] = "wait" /\ child[c] # "zombie"

\* The child of a call has a step to take, other than to die.
ChildMoves(c) ==
    /\ child[c] = "running"
    /\ \/ took[c] < sent[c]
       \/ wrote[c] < Output /\ wrote[c] - got[c] < Capacity /\ Open(c, "outR")
       \/ wrote[c] = Output /\ AtEof(c)

\* Nobody waits on everybody: a thread that waits in a call does so for the
\* child of that very call, which can go on, or for a child just forked (by any
\* call) that has still to close what it inherited.  No chain of full pipes and
\* copied descriptors makes one call wait for another.
WaitsForOwnChild ==
    up => \A c \in Calls :
            ServiceWaits(c) => ChildMoves(c) \/ \E d \in Calls : child[d] = "forked"

\* Every call ends, whatever the other calls do at the same time; none waits
\* for ever to write, for the end of the output or for the child.
EveryCallEnds == \A c \in Calls : InCall(c) ~> (pc[c] = "done" \/ ~up)

\* "send EOF to child": closing the service's write end lets the child see
\* the end of its input.
EofReachesChild == \A c \in Calls : pc[c] = "read" ~> ~Open(c, "inW")
=============================================================================
