--------------------------- MODULE DataStoreProofs ---------------------------
(***************************************************************************)
(* The data store implements the map its interface promises, is safe for  *)
(* an orderly caller, and replaces a value in insert_kv() only in a race,  *)
(* for any number of sessions, keys and values and any limit of the engine.*)
(***************************************************************************)
EXTENDS DataStore, TLAPS

\* A session's pointer is good while the engine is open, even out of reach.
OpenWithConnection ==
  /\ conn_ = "open" => running
  /\ ~running => \A s \in Sessions : sess[s] # "open"

\* What an orderly caller has called tells what it can meet: outside an engine
\* that is closed and no session, inside no dangling pointer, an engine it can
\* close, and no more sessions of the connection than it asked for.
CallerKnows ==
  proc = "up" =>
    /\ phase = "out" => ~running /\ \A s \in Sessions : sess[s] = "none"
    /\ phase = "in" =>
         /\ conn_ \in {"open", "null"} /\ (running => conn_ = "open")
         /\ \A s \in Sessions : sess[s] # "stale"
    /\ phase = "in" /\ running => opened <= asked

NoSessionNoInsert == \A s \in Sessions : sess[s] = "none" => op[s] = None

\* What an insert_kv() found absent is absent until another session writes it.
AbsentUntilTouched ==
  \A s \in Sessions :
    op[s] # None /\ ~touched[s] /\ sess[s] = "open" => table[op[s][1]] = None

Inv ==
  /\ TypeOK /\ OrderlyCallsAreSafe /\ OpenWithConnection /\ NoSessionNoInsert
  /\ AbsentUntilTouched /\ CallerKnows

-----------------------------------------------------------------------------
LEMMA InitInv == Init => Inv
<1> SUFFICES ASSUME Init PROVE Inv
  OBVIOUS
<1>1. TypeOK
  <2>1. 0 \in 0 .. SessionMax
    BY StoreAssumption
  <2>2. running \in BOOLEAN
    BY DEF Init
  <2> QED
    BY <2>1, <2>2 DEF Init, NoSessions, TypeOK
<1>2. OrderlyCallsAreSafe /\ OpenWithConnection /\ NoSessionNoInsert
        /\ AbsentUntilTouched /\ CallerKnows
  BY DEF Init, NoSessions, OrderlyCallsAreSafe, OpenWithConnection, NoSessionNoInsert,
     AbsentUntilTouched, CallerKnows
<1> QED
  BY <1>1, <1>2 DEF Inv

\* What a call does to its caller's history keeps the history's types.
LEMMA CallTypes ==
  ASSUME TypeOK, CallsOpen \/ CallsNew \/ CallsClose
  PROVE  phase' \in {"out", "in", "broken"} /\ asked' \in 0 .. SessionMax
<1>1. CASE CallsOpen
  BY <1>1, StoreAssumption DEF CallsOpen, TypeOK
<1>2. CASE CallsNew
  BY <1>2, StoreAssumption DEF CallsNew, TypeOK
<1>3. CASE CallsClose
  BY <1>3, StoreAssumption DEF CallsClose, TypeOK
<1> QED
  BY <1>1, <1>2, <1>3

\* The process ends in a way that is no crash, or by a disorderly call, or by
\* closing what a failed open left.
LEMMA EndInv ==
  ASSUME Inv, NEW how \in {"exited", "crashed", "killed"}, End(how),
         phase' \in {"out", "in", "broken"}, asked' \in 0 .. SessionMax,
         how = "crashed" => phase' = "broken" \/ conn_ = "null"
  PROVE  Inv'
BY DEF End, engine, sessionVars, Inv, TypeOK, OrderlyCallsAreSafe, OpenWithConnection,
       NoSessionNoInsert, AbsentUntilTouched, CallerKnows

LEMMA OpenInv == Inv /\ open_datastore_instance => Inv'
<1> SUFFICES ASSUME Inv, open_datastore_instance PROVE Inv'
  OBVIOUS
<1>1. TypeOK'
  <2>1. phase' \in {"out", "in", "broken"} /\ asked' \in 0 .. SessionMax
    BY CallTypes DEF open_datastore_instance, Inv
  <2>2. opened' \in 0 .. SessionMax
    BY StoreAssumption DEF open_datastore_instance, Inv, TypeOK
  <2>3. running' \in BOOLEAN
    BY DEF open_datastore_instance, Inv, TypeOK
  <2> QED
    BY <2>1, <2>2, <2>3 DEF open_datastore_instance, sessionVars, Inv, TypeOK
<1>2. CallerKnows'
  <2>1. phase' # "out" /\ (phase' = "in" => phase = "out")
    BY DEF open_datastore_instance, CallsOpen
  <2>2. phase = "out" => ~running /\ \A s \in Sessions : sess[s] = "none"
    BY DEF open_datastore_instance, Inv, CallerKnows
  <2>3. asked' = 0
    BY DEF open_datastore_instance, CallsOpen
  <2> QED
    BY <2>1, <2>2, <2>3 DEF open_datastore_instance, sessionVars, CallerKnows
<1>3. OpenWithConnection' /\ AbsentUntilTouched'
  BY DEF open_datastore_instance, sessionVars, Inv, TypeOK, OpenWithConnection,
     AbsentUntilTouched
<1>4. OrderlyCallsAreSafe' /\ NoSessionNoInsert'
  BY DEF open_datastore_instance, sessionVars, Inv, OrderlyCallsAreSafe, NoSessionNoInsert
<1> QED
  BY <1>1, <1>2, <1>3, <1>4 DEF Inv

LEMMA CloseInv == Inv /\ close_datastore_instance => Inv'
<1> SUFFICES ASSUME Inv, close_datastore_instance PROVE Inv'
  OBVIOUS
<1>0. phase' \in {"out", "in", "broken"} /\ asked' \in 0 .. SessionMax
  BY CallTypes DEF close_datastore_instance, Inv
<1>1. CASE conn_ = "open"
  <2>1. TypeOK'
    BY <1>0, <1>1 DEF close_datastore_instance, Stale, Inv, TypeOK
  <2>2. CallerKnows'
    BY <1>1 DEF close_datastore_instance, CallsClose, Stale, Inv, CallerKnows
  <2>3. OpenWithConnection' /\ NoSessionNoInsert' /\ AbsentUntilTouched'
    BY <1>1 DEF close_datastore_instance, Stale, Inv, TypeOK, OpenWithConnection,
       NoSessionNoInsert, AbsentUntilTouched
  <2>4. OrderlyCallsAreSafe'
    BY <1>1 DEF close_datastore_instance, OrderlyCallsAreSafe
  <2> QED
    BY <2>1, <2>2, <2>3, <2>4 DEF Inv
<1>2. CASE conn_ # "open"
  <2>1. phase' = "broken" \/ conn_ = "null"
    BY <1>2 DEF close_datastore_instance, CallsClose, Inv, CallerKnows
  <2> QED
    BY <1>0, <1>2, <2>1, EndInv DEF close_datastore_instance
<1> QED
  BY <1>1, <1>2

LEMMA RestartInv == Inv /\ restart => Inv'
<1> SUFFICES ASSUME Inv, restart PROVE Inv'
  OBVIOUS
<1>1. TypeOK'
  <2>1. 0 \in 0 .. SessionMax
    BY StoreAssumption
  <2>2. running' \in BOOLEAN
    BY DEF restart
  <2> QED
    BY <2>1, <2>2 DEF restart, Inv, TypeOK
<1>2. OrderlyCallsAreSafe' /\ OpenWithConnection' /\ NoSessionNoInsert'
        /\ AbsentUntilTouched' /\ CallerKnows'
  BY DEF restart, OrderlyCallsAreSafe, OpenWithConnection, NoSessionNoInsert,
     AbsentUntilTouched, CallerKnows
<1> QED
  BY <1>1, <1>2 DEF Inv

LEMMA NewSessionInv ==
  ASSUME Inv, NEW s \in Sessions, new_datastore_session(s)
  PROVE  Inv'
<1>0. phase' \in {"out", "in", "broken"} /\ asked' \in 0 .. SessionMax
  BY CallTypes DEF new_datastore_session, Inv
<1>1. CASE /\ conn_ = "open" /\ opened < SessionMax
           /\ sess' = [sess EXCEPT ![s] = "open"] /\ opened' = opened + 1
           /\ UNCHANGED <<proc, conn_, engine, op, touched>>
  <2>1. sess[s] = "none" /\ proc = "up"
    BY DEF new_datastore_session
  <2>2. TypeOK'
    BY <1>0, <1>1, <2>1, StoreAssumption DEF Inv, TypeOK, engine
  <2>3. op[s] = None
    BY <2>1 DEF Inv, NoSessionNoInsert
  <2>4. CallerKnows'
    <3>1. phase' # "out" /\ (phase' = "in" => phase = "in" /\ asked' = asked + 1)
      BY DEF new_datastore_session, CallsNew
    <3>2. phase = "in" /\ running => opened' <= asked + 1
      BY <1>1, <2>1, StoreAssumption DEF Inv, TypeOK, CallerKnows
    <3>3. conn_' = conn_ /\ running' = running
      BY <1>1 DEF engine
    <3>4. \A t \in Sessions : sess'[t] = "stale" => sess[t] = "stale"
      BY <1>1 DEF Inv, TypeOK
    <3> QED
      BY <2>1, <3>1, <3>2, <3>3, <3>4 DEF Inv, CallerKnows
  <2>5. OpenWithConnection' /\ NoSessionNoInsert' /\ AbsentUntilTouched'
    BY <1>1, <2>1, <2>3 DEF engine, Inv, TypeOK, OpenWithConnection, NoSessionNoInsert,
       AbsentUntilTouched
  <2>6. OrderlyCallsAreSafe'
    BY <1>1, <2>1 DEF OrderlyCallsAreSafe
  <2> QED
    BY <2>2, <2>4, <2>5, <2>6 DEF Inv
<1>2. CASE /\ conn_ \in {"null", "unset"}
           /\ UNCHANGED <<proc, conn_, engine, opened, sessionVars>>
  <2>1. TypeOK'
    BY <1>0, <1>2 DEF Inv, TypeOK, engine, sessionVars
  <2>2. CallerKnows'
    <3>1. phase' # "out" /\ (phase' = "in" => phase = "in" /\ asked' = asked + 1)
      BY DEF new_datastore_session, CallsNew
    <3>2. phase = "in" /\ proc = "up" => ~running
      BY <1>2 DEF Inv, CallerKnows
    <3> QED
      BY <1>2, <3>1, <3>2 DEF engine, sessionVars, Inv, CallerKnows
  <2>3. OpenWithConnection' /\ NoSessionNoInsert' /\ AbsentUntilTouched'
    BY <1>2 DEF engine, sessionVars, Inv, OpenWithConnection, NoSessionNoInsert,
       AbsentUntilTouched
  <2>4. OrderlyCallsAreSafe'
    BY <1>2 DEF new_datastore_session, OrderlyCallsAreSafe
  <2> QED
    BY <2>1, <2>2, <2>3, <2>4 DEF Inv
<1>3. CASE /\ End("crashed")
           /\ conn_ \in {"closed", "unset"} \/ (conn_ = "open" /\ opened = SessionMax)
  <2>1. proc = "up" /\ CallsNew
    BY DEF new_datastore_session
  <2>2. CASE conn_ \in {"closed", "unset"}
    <3>1. phase # "in"
      BY <2>1, <2>2 DEF Inv, CallerKnows
    <3> QED
      BY <1>0, <1>3, <2>1, <3>1, EndInv DEF CallsNew
  <2>3. CASE conn_ = "open" /\ opened = SessionMax
    <3>1. phase = "in" => opened <= asked
      BY <2>1, <2>3 DEF Inv, CallerKnows, OpenWithConnection
    <3>2. phase = "in" => ~(asked < SessionMax)
      BY <2>3, <3>1, StoreAssumption DEF Inv, TypeOK
    <3> QED
      BY <1>0, <1>3, <2>1, <3>2, EndInv DEF CallsNew
  <2> QED
    BY <1>3, <2>2, <2>3
<1> QED
  <2>1. \/ /\ conn_ = "open" /\ opened < SessionMax
           /\ sess' = [sess EXCEPT ![s] = "open"] /\ opened' = opened + 1
           /\ UNCHANGED <<proc, conn_, engine, op, touched>>
        \/ /\ conn_ \in {"null", "unset"}
           /\ UNCHANGED <<proc, conn_, engine, opened, sessionVars>>
        \/ conn_ \in {"closed", "unset"} /\ End("crashed")
        \/ conn_ = "open" /\ opened = SessionMax /\ End("crashed")
    BY Zenon DEF new_datastore_session
  <2> QED
    BY <1>1, <1>2, <1>3, <2>1, Zenon

LEMMA DropInv ==
  ASSUME Inv, NEW s \in Sessions, drop_session(s)
  PROVE  Inv'
BY DEF drop_session, engine, caller, Inv, TypeOK, OrderlyCallsAreSafe, CallerKnows,
       OpenWithConnection, NoSessionNoInsert, AbsentUntilTouched

LEMMA SearchInv ==
  ASSUME Inv, NEW s \in Sessions, NEW k \in Keys, NEW v \in Values, insert_search(s, k, v)
  PROVE  Inv'
BY DEF insert_search, Ready, engine, caller, Inv, TypeOK, OrderlyCallsAreSafe, CallerKnows,
       OpenWithConnection, NoSessionNoInsert, AbsentUntilTouched

\* A write marks the inserts of other sessions that searched for its key.
LEMMA WriteInv ==
  ASSUME Inv, NEW s \in Sessions, NEW k \in Keys, NEW v \in Values \cup {None},
         proc = "up", sess[s] = "open", Write(s, k, v),
         (op' = op /\ op[s] = None) \/ op' = [op EXCEPT ![s] = None]
  PROVE  Inv'
<1>1. TypeOK'
  BY DEF Write, caller, Inv, TypeOK
<1>2. ASSUME NEW t \in Sessions, op'[t] # None, ~touched'[t], sess'[t] = "open"
      PROVE  table'[op'[t][1]] = None
  <2>1. t # s /\ op'[t] = op[t] /\ op[t] \in Keys \X Values
    BY <1>2 DEF Inv, TypeOK
  <2>2. ~touched[t] /\ op[t][1] # k /\ sess[t] = "open"
    BY <1>2, <2>1 DEF Write, Inv, TypeOK
  <2>3. table[op[t][1]] = None
    BY <1>2, <2>1, <2>2 DEF Inv, AbsentUntilTouched
  <2> QED
    BY <2>1, <2>2, <2>3 DEF Write, Inv, TypeOK
<1>3. OrderlyCallsAreSafe' /\ CallerKnows' /\ OpenWithConnection' /\ NoSessionNoInsert'
  BY DEF caller, Write, Inv, TypeOK, OrderlyCallsAreSafe, CallerKnows, OpenWithConnection,
         NoSessionNoInsert
<1> QED
  BY <1>1, <1>2, <1>3 DEF Inv, AbsentUntilTouched

LEMMA SessionInv ==
  ASSUME Inv, NEW s \in Sessions, SessionStep(s)
  PROVE  Inv'
<1>1. CASE new_datastore_session(s)
  BY <1>1, NewSessionInv
<1>2. CASE drop_session(s)
  BY <1>2, DropInv
<1>3. CASE insert_write(s)
  <2>1. op[s] \in Keys \X Values
    BY <1>3 DEF insert_write, Inv, TypeOK
  <2>2. PICK k \in Keys, v \in Values : op[s][1] = k /\ op[s][2] = v
    BY <2>1
  <2>3. Write(s, k, v)
    BY <1>3, <2>2 DEF insert_write
  <2> QED
    BY <1>3, <2>3, WriteInv DEF insert_write
<1>4. CASE use_stale(s)
  <2>1. phase = "broken"
    BY <1>4 DEF use_stale, Inv, TypeOK, CallerKnows
  <2> QED
    BY <1>4, <2>1, EndInv DEF use_stale, caller, Inv, TypeOK
<1>5. ASSUME NEW k \in Keys, delete_kv(s, k) PROVE Inv'
  <2>1. CASE End("exited") /\ UNCHANGED caller
    BY <2>1, EndInv DEF caller, Inv, TypeOK
  <2>2. CASE Write(s, k, None) /\ UNCHANGED op
    BY <1>5, <2>2, WriteInv DEF delete_kv, Ready
  <2> QED
    BY <1>5, <2>1, <2>2 DEF delete_kv
<1>6. ASSUME NEW k \in Keys, NEW v \in Values, upsert_kv(s, k, v) PROVE Inv'
  BY <1>6, WriteInv DEF upsert_kv, Ready
<1>7. ASSUME NEW k \in Keys, NEW v \in Values, insert_search(s, k, v) PROVE Inv'
  BY <1>7, SearchInv
<1> QED
  BY <1>1, <1>2, <1>3, <1>4, <1>5, <1>6, <1>7 DEF SessionStep

LEMMA NextInv == Inv /\ [Next]_vars => Inv'
<1> SUFFICES ASSUME Inv, [Next]_vars PROVE Inv'
  OBVIOUS
<1>1. CASE kill
  BY <1>1, EndInv DEF kill, caller, Inv, TypeOK
<1>2. CASE UNCHANGED vars
  BY <1>2 DEF vars, Inv, TypeOK, OrderlyCallsAreSafe, CallerKnows, OpenWithConnection,
     NoSessionNoInsert, AbsentUntilTouched
<1> QED
  BY <1>1, <1>2, OpenInv, CloseInv, RestartInv, SessionInv DEF Next

\* The inductive invariant of the data store.
THEOREM StoreInvariant == Spec => []Inv
BY InitInv, NextInv, PTL DEF Spec

\* Every variable of the store, the engine and the sessions keeps its type: the
\* engine's limit on open sessions holds, which the destructors never relieve.
THEOREM StoreTypes == Spec => []TypeOK
<1>1. Inv => TypeOK
  BY DEF Inv
<1> QED
  BY <1>1, StoreInvariant, PTL

\* A caller that opens and closes in turn, asks for no more sessions than the
\* engine has and drops them before it closes meets no dangling pointer and none
\* without a value; all that can crash it is close() after an open that failed.
THEOREM OrderlyCallersAreSafe == Spec => []OrderlyCallsAreSafe
<1>1. Inv => OrderlyCallsAreSafe
  BY DEF Inv
<1> QED
  BY <1>1, StoreInvariant, PTL

\* insert_kv() replaces a value only when another session wrote the key
\* between its search and its insert.
THEOREM InsertsRace == Spec => InsertReplacesOnlyInRace
<1>1. Inv => \A s \in Sessions : op[s] # None /\ table[op[s][1]] # None
                                   => touched[s] \/ sess[s] # "open"
  BY DEF Inv, AbsentUntilTouched
<1>2. Inv /\ [Next]_vars =>
        [\A s \in Sessions :
           op[s] # None /\ op'[s] = None /\ proc' = "up" /\ table[op[s][1]] # None
             => touched[s] \/ sess[s] # "open"]_vars
  BY <1>1
<1> QED
  BY <1>2, StoreInvariant, PTL DEF Spec, InsertReplacesOnlyInRace

-----------------------------------------------------------------------------
(* Refinement: every step of the store is a step of the map or none. *)

LEMMA MapInit == Init => Map!Init
BY DEF Init, Map!Init

\* Where the process ends, the map falls back to what was saved.
LEMMA MapEnd ==
  ASSUME NEW how \in {"exited", "crashed", "killed"}, End(how)
  PROVE  Map!Lose
BY DEF End, engine, sessionVars, Map!Lose

\* A write of an open session is a Put or a Remove.
LEMMA MapWrite ==
  ASSUME Inv, NEW s \in Sessions, NEW k \in Keys, NEW v \in Values \cup {None},
         proc = "up", sess[s] = "open", Write(s, k, v)
  PROVE  Map!Next
<1>1. running
  BY DEF Inv, OpenWithConnection
<1>2. Map!Put(k, v)
  BY <1>1 DEF Write, Map!Put
<1> QED
  BY <1>2 DEF Map!Next, Map!Remove

LEMMA MapSession ==
  ASSUME Inv, NEW s \in Sessions, SessionStep(s)
  PROVE  Map!Next \/ UNCHANGED Map!vars
<1>0. \A how \in {"exited", "crashed", "killed"} : End(how) => Map!Next
  BY MapEnd DEF Map!Next
<1>1. CASE new_datastore_session(s)
  BY <1>0, <1>1 DEF new_datastore_session, engine, Map!vars
<1>2. CASE drop_session(s)
  BY <1>2 DEF drop_session, engine, Map!vars
<1>3. CASE insert_write(s)
  <2>1. op[s] \in Keys \X Values
    BY <1>3 DEF insert_write, Inv, TypeOK
  <2>2. PICK k \in Keys, v \in Values : op[s][1] = k /\ op[s][2] = v
    BY <2>1
  <2> QED
    BY <1>3, <2>2, MapWrite DEF insert_write
<1>4. CASE use_stale(s)
  BY <1>0, <1>4 DEF use_stale
<1>5. ASSUME NEW k \in Keys, delete_kv(s, k) PROVE Map!Next
  BY <1>0, <1>5, MapWrite DEF delete_kv, Ready
<1>6. ASSUME NEW k \in Keys, NEW v \in Values, upsert_kv(s, k, v) PROVE Map!Next
  BY <1>6, MapWrite DEF upsert_kv, Ready
<1>7. ASSUME NEW k \in Keys, NEW v \in Values, insert_search(s, k, v) PROVE UNCHANGED Map!vars
  BY <1>7 DEF insert_search, engine, Map!vars
<1> QED
  BY <1>1, <1>2, <1>3, <1>4, <1>5, <1>6, <1>7 DEF SessionStep

LEMMA MapNext == Inv /\ [Next]_vars => [Map!Next]_(Map!vars)
<1> SUFFICES ASSUME Inv, [Next]_vars PROVE Map!Next \/ UNCHANGED Map!vars
  OBVIOUS
<1>1. CASE open_datastore_instance
  BY <1>1 DEF open_datastore_instance, Map!Next, Map!Open, Map!vars
<1>2. CASE close_datastore_instance
  <2>1. CASE conn_ = "open"
    BY <1>2, <2>1 DEF close_datastore_instance, Inv, OpenWithConnection, Map!Next, Map!Close
  <2>2. CASE conn_ # "open"
    BY <1>2, <2>2, MapEnd DEF close_datastore_instance, Map!Next
  <2> QED
    BY <2>1, <2>2
<1>3. CASE kill
  BY <1>3, MapEnd DEF kill, Map!Next
<1>4. CASE restart
  BY <1>4 DEF restart, Map!Next, Map!Recover
<1>5. CASE UNCHANGED vars
  BY <1>5 DEF vars, Map!vars
<1> QED
  BY <1>1, <1>2, <1>3, <1>4, <1>5, MapSession DEF Next

\* The sessions, closing, exits, crashes and restarts of the store show a
\* caller nothing that the map of datastore_interface.h does not allow.
THEOREM StoreIsAMap == Spec => ImplementsMap
BY StoreInvariant, MapInit, MapNext, PTL DEF Spec, ImplementsMap, Map!Spec

=============================================================================
