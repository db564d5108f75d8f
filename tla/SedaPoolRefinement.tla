------------------------- MODULE SedaPoolRefinement -------------------------
(***************************************************************************)
(* SedaPool implements StageQueue: the run queue, the reference counts and *)
(* the two-step add_event() are details of how the promise is kept.        *)
(***************************************************************************)
EXTENDS SedaPoolInv

\* The first Tickets(s) events of the queue are the ones the stage is
\* committed to; the others arrived while it was not connected.
Committed(s) == SubSeq(event_list_[s], 1, Tickets(s))
Kept(s) == SubSeq(event_list_[s], Tickets(s) + 1, Len(event_list_[s]))
\* Events a handler of the stage works on.
Held(s) == {ev[w] : w \in {x \in Workers : serving[x] = s /\ wpc[x] = "handle"}}
Status(s) == IF connected_[s] THEN "open" ELSE IF Closing(s) THEN "closing" ELSE "closed"

Abstract == INSTANCE StageQueue WITH
  committed <- [s \in Stages |-> Committed(s)],
  kept <- [s \in Stages |-> Kept(s)],
  held <- [s \in Stages |-> Held(s)],
  status <- [s \in Stages |-> Status(s)]

(* Every behaviour of the stages and the thread pool is one StageQueue     *)
(* allows: order of service, commitment to accepted events, and a          *)
(* disconnect() that returns only when the stage is quiet.                 *)
ImplementsStageQueue == Abstract!Spec

=============================================================================
