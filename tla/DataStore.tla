------------------------------ MODULE DataStore ------------------------------
(***************************************************************************)
(* WiredTigerDataStore and its sessions                                    *)
(* (wiredtiger_datastore_impl.cpp): threads with a session and its cursor  *)
(* each, over an engine that is external to this repository.  Each cursor  *)
(* operation is a transaction of its own; cursors overwrite; what is       *)
(* written reaches the disk when the connection is closed.  A history of   *)
(* the calls tells an orderly caller, who opens and closes in turn, has a  *)
(* budget of sessions in between and drops them before the close.          *)
(***************************************************************************)
EXTENDS Naturals, FiniteSets

CONSTANTS
  Sessions,    \* holders of a WiredTigerSession
  Keys, Values, None,
  SessionMax   \* the engine's limit on the sessions of a connection

ASSUME StoreAssumption == None \notin Values /\ SessionMax \in Nat

VARIABLES
  proc,     \* "up", "exited" (CheckOp), "crashed" (bad pointer), "killed"
  conn_,    \* "unset" (no value yet), "null", "open", "closed" (dangling)
  running,  \* is the engine open?  (with a conn_ that is null, out of reach)
  table,    \* the engine's table, as sessions see it
  disk,     \* what a later wiredtiger_open() finds
  opened,   \* WT_SESSIONs of the connection
  sess,     \* a holder's session: "none", "open", "stale" (dangling)
  op,       \* the insert_kv() a session is in the middle of, or None
  touched,  \* has another session written that key since the search?
  phase,    \* of an orderly caller: "out", "in" (opened), else "broken"
  asked     \* sessions an orderly caller has asked for since the open

vars == <<proc, conn_, running, table, disk, opened, sess, op, touched, phase, asked>>
engine == <<running, table, disk>>
sessionVars == <<sess, op, touched>>
caller == <<phase, asked>>

TypeOK ==
  /\ proc \in {"up", "exited", "crashed", "killed"}
  /\ conn_ \in {"unset", "null", "open", "closed"}
  /\ table \in [Keys -> Values \cup {None}] /\ disk \in [Keys -> Values \cup {None}]
  /\ opened \in 0 .. SessionMax
  /\ sess \in [Sessions -> {"none", "open", "stale"}]
  /\ op \in [Sessions -> (Keys \X Values) \cup {None}]
  /\ touched \in [Sessions -> BOOLEAN]
  /\ running \in BOOLEAN
  /\ phase \in {"out", "in", "broken"} /\ asked \in 0 .. SessionMax

NoSessions ==
  /\ sess = [s \in Sessions |-> "none"] /\ op = [s \in Sessions |-> None]
  /\ touched = [s \in Sessions |-> FALSE]

Init ==
  /\ proc = "up" /\ conn_ \in {"unset", "null"} /\ opened = 0
  /\ table = [k \in Keys |-> None] /\ disk = table /\ running = FALSE
  /\ NoSessions
  /\ phase = "out" /\ asked = 0

\* The caller's part in a call, by what the caller has called before.
CallsOpen == phase' = (IF phase = "out" THEN "in" ELSE "broken") /\ asked' = 0

CallsNew ==
  IF phase = "in" /\ asked < SessionMax
  THEN phase' = phase /\ asked' = asked + 1
  ELSE phase' = "broken" /\ asked' = 0

CallsClose ==
  /\ phase' = IF phase = "in" /\ \A s \in Sessions : sess[s] = "none"
              THEN "out" ELSE "broken"
  /\ asked' = 0

\* The process ends: only the disk remains.
End(how) == proc' = how /\ UNCHANGED <<conn_, engine, opened, sessionVars>>

-----------------------------------------------------------------------------
(* WiredTigerDataStore *)

\* Variant: an open that fails leaves conn_ as it is.
open_datastore_instance_keeps ==
  /\ proc = "up"
  /\ \/ /\ ~running
        /\ conn_' = "open" /\ running' = TRUE /\ table' = disk /\ opened' = 0
     \/ UNCHANGED <<conn_, running, table, opened>>
  /\ CallsOpen /\ UNCHANGED <<proc, disk, sessionVars>>

\* A failing wiredtiger_open() is logged, and 0 is returned all the same.  It
\* may always fail, and must while the engine is open; it nulls conn_ first.
open_datastore_instance ==
  /\ proc = "up"
  /\ \/ /\ ~running
        /\ conn_' = "open" /\ running' = TRUE /\ table' = disk /\ opened' = 0
     \/ conn_' = "null" /\ UNCHANGED <<running, table, opened>>
  /\ CallsOpen /\ UNCHANGED <<proc, disk, sessionVars>>

\* A null conn_ throws.  A failing open_session() is logged, and its session
\* pointer, which has no value, is used; so is a conn_ that was closed.
new_datastore_session(s) ==
  /\ proc = "up" /\ sess[s] = "none"
  /\ \/ /\ conn_ = "open" /\ opened < SessionMax
        /\ sess' = [sess EXCEPT ![s] = "open"] /\ opened' = opened + 1
        /\ UNCHANGED <<proc, conn_, engine, op, touched>>
     \/ conn_ \in {"null", "unset"} /\ UNCHANGED <<proc, conn_, engine, opened, sessionVars>>
     \/ conn_ \in {"closed", "unset"} /\ End("crashed")
     \/ conn_ = "open" /\ opened = SessionMax /\ End("crashed")
  /\ CallsNew

\* ~WiredTigerSession() closes nothing.
drop_session(s) ==
  /\ proc = "up" /\ sess[s] # "none" /\ op[s] = None
  /\ sess' = [sess EXCEPT ![s] = "none"]
  /\ UNCHANGED <<proc, conn_, engine, opened, op, touched, caller>>

Stale == [s \in Sessions |-> IF sess[s] = "none" THEN "none" ELSE "stale"]

\* Variant: the connection is not told to write its checkpoint.
close_datastore_instance_lazy ==
  /\ proc = "up" /\ conn_ = "open"
  /\ conn_' = "closed" /\ running' = FALSE
  /\ sess' = Stale
  /\ CallsClose /\ UNCHANGED <<proc, table, disk, opened, op, touched>>

\* Closing the connection writes a checkpoint and frees its sessions.  A conn_
\* that is null or was closed is used as well.
close_datastore_instance ==
  /\ proc = "up"
  /\ \/ /\ conn_ = "open"
        /\ conn_' = "closed" /\ running' = FALSE /\ disk' = table
        /\ sess' = Stale
        /\ UNCHANGED <<proc, table, opened, op, touched>>
     \/ conn_ # "open" /\ End("crashed")
  /\ CallsClose

-----------------------------------------------------------------------------
(* WiredTigerSession *)

Ready(s) == proc = "up" /\ sess[s] = "open" /\ op[s] = None

\* A cursor operation of session s that writes v at k.
Write(s, k, v) ==
  /\ table' = [table EXCEPT ![k] = v]
  /\ touched' = [t \in Sessions |->
       touched[t] \/ (t # s /\ op[t] # None /\ op[t][1] = k)]
  /\ UNCHANGED <<proc, conn_, running, disk, opened, sess, caller>>

upsert_kv(s, k, v) == Ready(s) /\ Write(s, k, v) /\ UNCHANGED op

\* Variant: the search is skipped.
insert_search_blind(s, k, v) ==
  /\ Ready(s)
  /\ op' = [op EXCEPT ![s] = <<k, v>>] /\ touched' = [touched EXCEPT ![s] = FALSE]
  /\ UNCHANGED <<proc, conn_, engine, opened, sess, caller>>

\* insert_kv(): false when the search finds the key...
insert_search(s, k, v) ==
  /\ Ready(s) /\ table[k] = None
  /\ op' = [op EXCEPT ![s] = <<k, v>>] /\ touched' = [touched EXCEPT ![s] = FALSE]
  /\ UNCHANGED <<proc, conn_, engine, opened, sess, caller>>

\* ... else the key is written, whatever it holds by now, and true returned.
insert_write(s) ==
  /\ proc = "up" /\ sess[s] = "open" /\ op[s] # None
  /\ Write(s, op[s][1], op[s][2])
  /\ op' = [op EXCEPT ![s] = None]

\* delete_kv() of a key that is not there: CheckOp() ends the process, if the
\* engine reports it (versions differ for cursors that overwrite).
delete_kv(s, k) ==
  /\ Ready(s)
  /\ \/ Write(s, k, None) /\ UNCHANGED op
     \/ table[k] = None /\ End("exited") /\ UNCHANGED caller

\* Any operation on a session of a connection that was closed.
use_stale(s) ==
  /\ proc = "up" /\ sess[s] = "stale"
  /\ End("crashed") /\ UNCHANGED caller

-----------------------------------------------------------------------------
kill == proc = "up" /\ End("killed") /\ UNCHANGED caller

restart ==
  /\ proc # "up"
  /\ proc' = "up" /\ conn_' \in {"unset", "null"} /\ opened' = 0
  /\ table' = disk /\ running' = FALSE /\ UNCHANGED disk
  /\ sess' = [s \in Sessions |-> "none"] /\ op' = [s \in Sessions |-> None]
  /\ touched' = [s \in Sessions |-> FALSE]
  /\ phase' = "out" /\ asked' = 0

SessionStep(s) ==
  \/ new_datastore_session(s) \/ drop_session(s) \/ insert_write(s) \/ use_stale(s)
  \/ \E k \in Keys : delete_kv(s, k)
  \/ \E k \in Keys, v \in Values : upsert_kv(s, k, v) \/ insert_search(s, k, v)

Next ==
  \/ open_datastore_instance \/ close_datastore_instance \/ kill \/ restart
  \/ \E s \in Sessions : SessionStep(s)

Spec == Init /\ [][Next]_vars

-----------------------------------------------------------------------------
(* The store is a map that keeps, over closing, exits and crashes, what it *)
(* held when it was last closed.  A second open leaves it open, out of     *)
(* reach of a close: what its sessions write from then on is lost.         *)
Map == INSTANCE KeyValueMap WITH
  map   <- IF running /\ proc = "up" THEN table ELSE disk,
  saved <- disk,
  state <- IF proc # "up" THEN "lost" ELSE IF running THEN "open" ELSE "closed"

ImplementsMap == Map!Spec

(* insert_kv() replaces a value only when another session wrote the key    *)
(* between its search and its insert.                                      *)
InsertReplacesOnlyInRace ==
  [][\A s \in Sessions :
       op[s] # None /\ op'[s] = None /\ proc' = "up" /\ table[op[s][1]] # None
         => touched[s] \/ sess[s] # "open"]_vars

(* insert_kv() returns true only if the key did not exist (the comment at  *)
(* wiredtiger_datastore_impl.cpp:115).  Two sessions show otherwise.       *)
InsertsOnlyNewKeys ==
  [][\A s \in Sessions : insert_write(s) => table[op[s][1]] = None]_vars

(* An orderly caller's process never uses a dangling pointer or one        *)
(* without a value, over any number of opens, closes, failed opens and     *)
(* threads.  It can still end at a null one: in the close() that follows   *)
(* an open that failed and returned 0.                                     *)
OrderlyCallsAreSafe ==
  proc = "crashed" /\ phase # "broken" => conn_ = "null"

=============================================================================
