---------------------------- MODULE LoadClient ------------------------------
(***************************************************************************)
(* cpputest/load.cpp beside other clients of createPost.  It loops over    *)
(* batches of posts: each is put one after the other and its id is read    *)
(* from the answer; an answer without one leaves the id at -1.  Then every *)
(* id of the batch is deleted, by a route that main.cpp does not have, and *)
(* the next batch begins.                                                  *)
(***************************************************************************)
EXTENDS CreatePost

CONSTANTS
    Mine,     \* the requests this client makes
    Batch,    \* posts in a loop
    Nobody    \* it waits for no answer

ASSUME ClientAssumption == /\ Mine \subseteq Requests
                           /\ Batch \in Nat \ {0}
                           /\ Nobody \notin Requests

VARIABLES
    phase,  \* "create" or "delete"
    asked,  \* the request it waits for
    tried,  \* those of all loops
    batch,  \* those of this loop
    known   \* those whose post's id it read

client == <<phase, asked, tried, batch, known>>
loadVars == <<vars, client>>

LoadInit ==
    /\ Init
    /\ phase = "create"
    /\ asked = Nobody
    /\ tried = {} /\ batch = {} /\ known = {}

----------------------------------------------------------------------------
\* conn1.put: the request is on its way, or the service is not there.
Put(r) ==
    /\ phase = "create" /\ asked = Nobody
    /\ r \notin tried /\ Cardinality(batch) < Batch
    /\ tried' = tried \union {r} /\ batch' = batch \union {r}
    /\ \/ up /\ Arrive(r) /\ asked' = r
       \/ ~up /\ UNCHANGED <<vars, asked>>
    /\ UNCHANGED <<phase, known>>

\* Faulty variant: whatever was answered, the post counts as created.
Receive_Trusts(r) ==
    /\ asked = r /\ (reply[r] # "none" \/ ~up)
    /\ asked' = Nobody
    /\ known' = known \union {r}
    /\ UNCHANGED <<vars, phase, tried, batch>>

\* Faulty variant: the id is not kept.
Receive_Forgets(r) ==
    /\ asked = r /\ (reply[r] # "none" \/ ~up)
    /\ asked' = Nobody
    /\ UNCHANGED <<vars, phase, tried, batch, known>>

\* The answer, or the end of the connection: a post is an id, anything else is
\* a json::exception, which is printed.
Receive(r) ==
    /\ asked = r
    /\ \/ reply[r] = "success" /\ known' = known \union {r}
       \/ reply[r] \notin {"none", "success"} /\ UNCHANGED known
       \/ ~up /\ UNCHANGED known
    /\ asked' = Nobody
    /\ UNCHANGED <<vars, phase, tried, batch>>

\* The batch is done; it sleeps and goes on to delete it.
Sleep ==
    /\ phase = "create" /\ asked = Nobody
    /\ Cardinality(batch) = Batch
    /\ phase' = "delete"
    /\ UNCHANGED <<vars, asked, tried, batch, known>>

\* conn3.del: there is no such route, and nothing is deleted.
Delete(r) ==
    /\ phase = "delete"
    /\ r \in batch
    /\ batch' = batch \ {r}
    /\ UNCHANGED <<vars, phase, asked, tried, known>>

NextLoop ==
    /\ phase = "delete"
    /\ batch = {}
    /\ phase' = "create"
    /\ UNCHANGED <<vars, asked, tried, batch, known>>

\* The other clients and the service.
Elsewhere ==
    /\ \/ \E r \in Requests \ Mine : up /\ Arrive(r)
       \/ \E r \in Requests : Continue(r)
       \/ Crash
       \/ Quiescent
    /\ UNCHANGED client

Client == \/ \E r \in Mine : Put(r) \/ Receive(r) \/ Delete(r)
          \/ Sleep \/ NextLoop

LoadNext == Client \/ Elsewhere

LoadSpec ==
    /\ LoadInit /\ [][LoadNext]_loadVars
    /\ WF_loadVars(Client)
    /\ \A r \in Requests : WF_loadVars(Continue(r) /\ UNCHANGED client)

----------------------------------------------------------------------------
\* The inductive invariant, beside that of CreatePost: the posts whose ids the
\* client has read are in the table and announced, whatever it and others do
\* later, and it goes on from a request only when that was answered.
ClientInv ==
    /\ phase \in {"create", "delete"}
    /\ asked \in Mine \union {Nobody}
    /\ tried \subseteq Mine /\ batch \subseteq tried /\ known \subseteq tried
    /\ asked # Nobody => phase = "create" /\ asked \in batch
    /\ known \subseteq rows \intersect stream
    /\ \A r \in Mine \ tried : st[r] = "new"
    /\ up => \A r \in tried \ {asked} :
                reply[r] # "none" /\ (reply[r] = "success" => r \in known)

\* A post the client made and does not know of, and so could make again, is one
\* whose answer told of a COMMIT or an event that failed, or never came.
UnknownOnlyAfterError ==
    \A r \in Mine \intersect rows :
        \/ r \in known \/ asked = r
        \/ reply[r] \in {"commitFailed", "eventFailed"}
        \/ ~up

\* The client is never stuck in a put: other clients, their failures and a
\* killed service do not keep its answer for ever.
ClientMovesOn == \A r \in Mine : asked = r ~> asked # r
=============================================================================
