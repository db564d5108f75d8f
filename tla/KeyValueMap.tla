----------------------------- MODULE KeyValueMap -----------------------------
(***************************************************************************)
(* What DataStoreSession and DataStoreInterface promise to a caller        *)
(* (datastore_interface.h): a map that several sessions read and write one *)
(* operation at a time, and that is as it was at the last close when it is *)
(* opened again.                                                           *)
(***************************************************************************)
CONSTANTS Keys, Values, None

VARIABLES
  map,    \* what the sessions see; what an open would find when it is not open
  saved,  \* what was there at the last close
  state   \* "closed", "open", or "lost": the process has ended

vars == <<map, saved, state>>

Init == map = [k \in Keys |-> None] /\ saved = map /\ state = "closed"

Open == state = "closed" /\ state' = "open" /\ UNCHANGED <<map, saved>>

Put(k, v) == state = "open" /\ map' = [map EXCEPT ![k] = v] /\ UNCHANGED <<saved, state>>

Remove(k) == Put(k, None)

Close == state = "open" /\ state' = "closed" /\ saved' = map /\ UNCHANGED map

\* The process ends: what was not saved is gone.
Lose == state' = "lost" /\ map' = saved /\ UNCHANGED saved

Recover == state = "lost" /\ state' = "closed" /\ UNCHANGED <<map, saved>>

Next ==
  \/ Open \/ Close \/ Lose \/ Recover
  \/ \E k \in Keys : Remove(k) \/ \E v \in Values : Put(k, v)

Spec == Init /\ [][Next]_vars

=============================================================================
