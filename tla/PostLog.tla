------------------------------ MODULE PostLog ------------------------------
(***************************************************************************)
(* What creating posts promises: posts are added to the table one at a     *)
(* time, stay there, and are announced on the event stream only once they  *)
(* are there.                                                              *)
(***************************************************************************)

CONSTANT Requests \* each asks for one post

VARIABLES rows,   \* the requests whose post is in the table
          stream  \* the requests whose PostCreateEvent was produced

Init == rows = {} /\ stream = {}

Create(r) == r \notin rows /\ rows' = rows \union {r} /\ UNCHANGED stream

Announce(r) == r \in rows /\ stream' = stream \union {r} /\ UNCHANGED rows

Next == \E r \in Requests : Create(r) \/ Announce(r)

Spec == Init /\ [][Next]_<<rows, stream>>
=============================================================================
