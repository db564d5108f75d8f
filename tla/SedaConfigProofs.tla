-------------------------- MODULE SedaConfigProofs ---------------------------
(***************************************************************************)
(* Proofs about SedaConfig: its types, that no stage is used after it was  *)
(* deleted, and what a second init() loses, for all configurations, pools, *)
(* names and numbers of events.                                            *)
(***************************************************************************)
EXTENDS SedaConfig, SequenceTheorems, TLAPS

-----------------------------------------------------------------------------
(* The inductive invariant *)

Objects == 1 .. Len(obj)

\* A stage that still has to do with events.
AtWork(i) == obj[i].connected \/ obj[i].ref > 0

\* What the map points to is a living stage of that name.
Mapped ==
  \A n \in Names : stages_[n] # Absent /\ stages_[n] # Null =>
    obj[stages_[n]].alive /\ obj[stages_[n]].name = n

\* The reference count is what was scheduled and what threads have taken.
Counted ==
  \A i \in Objects :
    /\ obj[i].busy + obj[i].leaving <= obj[i].ref
    /\ obj[i].ref <= obj[i].busy + obj[i].leaving + obj[i].queue

\* A stage at work is in the map, and its disconnect() has not returned.
OnTheMap ==
  \A i \in Objects : AtWork(i) =>
    \E n \in Names :
      stages_[n] = i /\ (pc \in {"disconnect", "wait"} => n \in todo)

\* Only the stage whose disconnect() waits has events without being connected.
Draining ==
  \A i \in Objects : obj[i].ref > 0 /\ ~obj[i].connected =>
    pc = "wait" /\ \E n \in Names : Least(n) /\ stages_[n] = i

\* A stage at work is there, and so are the stages it passes events on to.
LinksAlive ==
  \A i \in Objects : AtWork(i) => obj[i].alive /\ \A j \in obj[i].next : obj[j].alive

\* Outside of start() ... disconnect(), nothing is at work.
Quiet ==
  /\ pc \in {"idle", "pools", "stages", "next", "delete", "kill"} =>
       \A i \in Objects : ~obj[i].connected
  /\ pc = "start" =>
       \A n \in todo : n \in Names /\ stages_[n] # Absent /\
         (stages_[n] # Null => ~obj[stages_[n]].connected)
  /\ pc \in {"disconnect", "wait", "delete"} => \A n \in todo : n \in Names /\ stages_[n] # Absent
  /\ pc = "wait" => \A n \in Names : Least(n) => stages_[n] # Null /\ ~obj[stages_[n]].connected
  /\ pc = "kill" => todo \subseteq PoolNames
  /\ pc = "pools" => stages_ = NoStages

\* init() links what is in the map, after it made the stages.
Linked ==
  /\ pc = "stages" =>
       \A n \in Names : stages_[n] # Absent =>
         stages_[n] # Null /\ obj[stages_[n]].next = {}
  /\ pc \in {"next", "start"} =>
       \A n \in Names : stages_[n] # Absent /\ stages_[n] # Null =>
         \A j \in obj[stages_[n]].next : \E m \in Names : stages_[m] = j

\* What the map holds comes from the list of names ...
FromList ==
  pc = "stages" =>
    \A n \in Names : stages_[n] # Absent => \E k \in DOMAIN stage_names_ : k < pos /\ stage_names_[k] = n

\* ... and is deleted by a loop that leaves nothing behind.
ToDelete ==
  pc \in {"delete", "kill"} =>
    \A n \in Names : stages_[n] # Absent /\ stages_[n] # Null => pc = "delete" /\ n \in todo

IInv ==
  /\ TypeOK /\ Mapped /\ Counted /\ OnTheMap /\ Draining /\ LinksAlive
  /\ Quiet /\ Linked /\ FromList /\ ToDelete /\ OnlyRepeatsLeak

-----------------------------------------------------------------------------
(* Facts about the objects *)

LEMMA ObjectFacts ==
  ASSUME TypeOK
  PROVE  /\ Len(obj) \in Nat /\ DOMAIN obj = Objects
         /\ \A i \in Objects :
              /\ obj[i] \in StageObject
              /\ obj[i].name \in Names /\ obj[i].alive \in BOOLEAN /\ obj[i].connected \in BOOLEAN
              /\ obj[i].pool \in PoolNames /\ obj[i].next \subseteq Objects
              /\ obj[i].queue \in Nat /\ obj[i].ref \in Nat
              /\ obj[i].busy \in Nat /\ obj[i].leaving \in Nat
         /\ \A n \in Names : stages_[n] # Absent /\ stages_[n] # Null => stages_[n] \in Objects
<1>1. Len(obj) \in Nat /\ DOMAIN obj = Objects
  BY DEF TypeOK, Objects
<1>2. \A i \in Objects : obj[i] \in StageObject /\ obj[i].next \subseteq Objects
  <2>1. obj \in Seq(StageObject) /\ \A i \in DOMAIN obj : obj[i].next \subseteq DOMAIN obj
    BY DEF TypeOK
  <2>2. \A i \in 1 .. Len(obj) : obj[i] \in StageObject
    BY <2>1
  <2> QED
    BY <1>1, <2>1, <2>2, Zenon DEF Objects
<1>3. \A i \in Objects :
        /\ obj[i].name \in Names /\ obj[i].alive \in BOOLEAN /\ obj[i].connected \in BOOLEAN
        /\ obj[i].pool \in PoolNames
        /\ obj[i].queue \in Nat /\ obj[i].ref \in Nat
        /\ obj[i].busy \in Nat /\ obj[i].leaving \in Nat
  BY <1>2 DEF StageObject
<1>4. \A n \in Names : stages_[n] # Absent /\ stages_[n] # Null => stages_[n] \in Objects
  <2>1. \A n \in Names : stages_[n] \in Absent .. Len(obj)
    BY DEF TypeOK
  <2>2. \A n \in Names : stages_[n] # -1 /\ stages_[n] # 0 => stages_[n] \in 1 .. Len(obj)
    BY <1>1, <2>1 DEF Absent
  <2> QED
    BY <2>2 DEF Absent, Null, Objects
<1> QED
  BY <1>1, <1>2, <1>3, <1>4

\* One object is replaced, the others stay.
LEMMA ObjectReplaced ==
  ASSUME TypeOK, NEW i \in Objects, NEW r \in StageObject, r.next \subseteq Objects,
         obj' = [obj EXCEPT ![i] = r]
  PROVE  /\ obj' \in Seq(StageObject) /\ Len(obj') = Len(obj) /\ Objects' = Objects
         /\ obj'[i] = r /\ \A j \in Objects : j # i => obj'[j] = obj[j]
         /\ DOMAIN obj' = Objects /\ \A j \in DOMAIN obj' : obj'[j].next \subseteq DOMAIN obj'
<1>1. obj \in Seq(StageObject) /\ DOMAIN obj = Objects /\ Len(obj) \in Nat
  BY ObjectFacts DEF TypeOK
<1>2. obj' \in Seq(StageObject) /\ Len(obj') = Len(obj)
  BY <1>1, ExceptSeq DEF Objects
<1>3. Objects' = Objects /\ DOMAIN obj' = Objects
  BY <1>1, <1>2 DEF Objects
<1>4. obj'[i] = r /\ \A j \in Objects : j # i => obj'[j] = obj[j]
  BY <1>1
<1>5. \A j \in Objects : obj'[j].next \subseteq Objects
  BY <1>1, <1>4, ObjectFacts
<1> QED
  BY <1>1, <1>2, <1>3, <1>4, <1>5

-----------------------------------------------------------------------------
(* Steps that leave the objects and the map as they are *)

LEMMA SameObjects ==
  ASSUME IInv, UNCHANGED <<obj, stages_>>
  PROVE  Mapped' /\ Counted' /\ LinksAlive'
<1>1. Mapped'
  BY DEF IInv, Mapped
<1>2. Counted'
  BY DEF IInv, Counted, Objects
<1>3. LinksAlive'
  BY DEF IInv, LinksAlive, Objects, AtWork
<1> QED
  BY <1>1, <1>2, <1>3

\* When nothing is at work, it does not matter where the loops are.
LEMMA QuietObjects ==
  ASSUME IInv, UNCHANGED <<obj, stages_>>, \A i \in Objects : ~obj[i].connected, pc # "wait"
  PROVE  OnTheMap' /\ Draining' /\ \A i \in Objects : ~AtWork(i)
<1>1. \A i \in Objects : ~(obj[i].ref > 0)
  BY DEF IInv, Draining
<1>2. \A i \in Objects : ~AtWork(i)
  BY <1>1 DEF AtWork
<1>3. OnTheMap' /\ Draining'
  BY <1>1, <1>2 DEF OnTheMap, Draining, Objects, AtWork
<1> QED
  BY <1>2, <1>3

LEMMA init_Inv ==
  ASSUME IInv, init
  PROVE  IInv'
<1>1. TypeOK'
  <2>1. inits' \in 0 .. MaxInits
    BY ConfigAssumption DEF IInv, TypeOK, init
  <2>2. pc' \in Locations /\ pos' = 1 /\ todo' = {} /\ status' = "none"
    BY DEF init, Goto, ForEach, Locations
  <2> QED
    BY <2>1, <2>2 DEF IInv, TypeOK, init, configVars
<1>2. Mapped' /\ Counted' /\ LinksAlive'
  BY SameObjects DEF init, configVars
<1>3. OnTheMap' /\ Draining'
  BY DEF IInv, OnTheMap, Draining, Objects, AtWork, init, Goto, ForEach, configVars
<1>4. Quiet' /\ Linked' /\ FromList' /\ ToDelete'
  <2>1. CASE stages_ = NoStages /\ thread_pools_ = NoPools
    <3>1. pc = "idle" \/ pc = "running"
      BY DEF init
    <3>2. \A i \in Objects : ~obj[i].connected
      BY <2>1 DEF IInv, OnTheMap, AtWork, NoStages, TypeOK, Absent, Objects
    <3> QED
      BY <2>1, <3>2 DEF Quiet, Linked, FromList, ToDelete, init, Goto, ForEach, configVars, Objects
  <2>2. CASE ~(stages_ = NoStages /\ thread_pools_ = NoPools)
    BY <2>2 DEF Quiet, Linked, FromList, ToDelete, init, Goto, ForEach, configVars
  <2> QED
    BY <2>1, <2>2
<1>5. OnlyRepeatsLeak'
  BY DEF IInv, OnlyRepeatsLeak, init, configVars
<1> QED
  BY <1>1, <1>2, <1>3, <1>4, <1>5 DEF IInv

LEMMA init_thread_pool_Inv ==
  ASSUME IInv, init_thread_pool
  PROVE  IInv'
<1>0. pc = "pools" /\ UNCHANGED <<obj, stages_, stage_names_>> /\ pc' \in {"pools", "idle"}
  BY DEF init_thread_pool, Fail, Goto, ForEach, Next_
<1>1. TypeOK'
  <2>1. thread_pools_' \in [PoolNames -> Absent .. MaxThreads]
    <3>1. thread_pools_ \in [PoolNames -> Absent .. MaxThreads]
      BY DEF IInv, TypeOK
    <3>2. \A n \in 0 .. MaxThreads : n \in Absent .. MaxThreads
      BY ConfigAssumption DEF Absent
    <3>3. \/ thread_pools_' = thread_pools_
          \/ \E n \in 0 .. MaxThreads : thread_pools_' = [thread_pools_ EXCEPT ![cfg.pools[pos]] = n]
      BY DEF init_thread_pool
    <3> QED
      BY <3>1, <3>2, <3>3
  <2>2. pos' \in Nat \ {0} /\ todo' \subseteq Names \cup PoolNames
    BY DEF IInv, TypeOK, init_thread_pool, Fail, Goto, ForEach, Next_
  <2>3. status' \in {"none", "SUCCESS", "INITFAIL"} /\ UNCHANGED <<cfg, inits, added>>
    BY DEF IInv, TypeOK, init_thread_pool, Fail
  <2> QED
    BY <1>0, <2>1, <2>2, <2>3 DEF IInv, TypeOK, Locations
<1>2. Mapped' /\ Counted' /\ LinksAlive'
  BY <1>0, SameObjects
<1>3. OnTheMap' /\ Draining'
  BY <1>0, QuietObjects DEF IInv, Quiet
<1>4. Quiet' /\ Linked' /\ FromList' /\ ToDelete'
  BY <1>0 DEF IInv, Quiet, Linked, FromList, ToDelete, Objects
<1>5. OnlyRepeatsLeak'
  BY <1>0 DEF IInv, OnlyRepeatsLeak
<1> QED
  BY <1>1, <1>2, <1>3, <1>4, <1>5 DEF IInv

LEMMA pools_ready_Inv ==
  ASSUME IInv, pools_ready
  PROVE  IInv'
<1>0. /\ pc = "pools" /\ UNCHANGED <<obj, stages_, cfg, thread_pools_, inits, added>>
      /\ pc' \in {"stages", "idle"} /\ pos' = 1 /\ todo' = {}
      /\ stage_names_' = stage_names_ \/ stage_names_' = stage_names_ \o cfg.stages
      /\ status' = status \/ status' = "INITFAIL"
  BY DEF pools_ready, Fail, Goto, ForEach
<1>a. /\ stage_names_' \in Seq(Names) /\ Len(stage_names_') >= Len(stage_names_)
      /\ \A k \in DOMAIN stage_names_ : k \in DOMAIN stage_names_' /\ stage_names_'[k] = stage_names_[k]
  <2>1. stage_names_ \in Seq(Names) /\ cfg.stages \in Seq(Names)
    BY ConfigAssumption DEF IInv, TypeOK
  <2>2. CASE stage_names_' = stage_names_ \o cfg.stages
    BY <2>1, <2>2, ConcatProperties
  <2> QED
    BY <1>0, <2>1, <2>2
<1>1. TypeOK'
  BY <1>0, <1>a DEF IInv, TypeOK, Locations
<1>2. Mapped' /\ Counted' /\ LinksAlive'
  BY <1>0, SameObjects
<1>3. OnTheMap' /\ Draining'
  BY <1>0, QuietObjects DEF IInv, Quiet
<1>4. Quiet' /\ Linked' /\ FromList' /\ ToDelete'
  <2>1. \A n \in Names : stages_'[n] = Absent
    BY <1>0 DEF IInv, Quiet, NoStages
  <2> QED
    BY <1>0, <2>1 DEF IInv, Quiet, Linked, FromList, ToDelete, Objects
<1>5. OnlyRepeatsLeak'
  BY <1>0, <1>a DEF IInv, OnlyRepeatsLeak
<1> QED
  BY <1>1, <1>2, <1>3, <1>4, <1>5 DEF IInv

LEMMA stages_ready_Inv ==
  ASSUME IInv, stages_ready
  PROVE  IInv'
<1>0. /\ pc = "stages" /\ UNCHANGED <<obj, stages_, stage_names_, cfg, thread_pools_, inits, added>>
      /\ (pc' = "delete" /\ stages_ = NoStages) \/ pc' = "next"
      /\ pos' = 1 /\ todo' = {}
      /\ status' = status \/ status' = "INITFAIL"
  BY DEF stages_ready, Fail, Goto, ForEach, configVars
<1>1. TypeOK'
  BY <1>0 DEF IInv, TypeOK, Locations
<1>2. Mapped' /\ Counted' /\ LinksAlive'
  BY <1>0, SameObjects
<1>3. OnTheMap' /\ Draining'
  BY <1>0, QuietObjects DEF IInv, Quiet
<1>4. Quiet' /\ Linked' /\ FromList' /\ ToDelete'
  BY <1>0 DEF IInv, Quiet, Linked, FromList, ToDelete, Objects, NoStages
<1>5. OnlyRepeatsLeak'
  BY <1>0 DEF IInv, OnlyRepeatsLeak
<1> QED
  BY <1>1, <1>2, <1>3, <1>4, <1>5 DEF IInv

LEMMA next_ready_Inv ==
  ASSUME IInv, next_ready
  PROVE  IInv'
<1>0. /\ pc = "next" /\ UNCHANGED <<obj, stages_, stage_names_, cfg, thread_pools_, status, inits, added>>
      /\ pc' = "start" /\ pos' = 1 /\ todo' = {n \in Names : stages_[n] # Absent}
  BY DEF next_ready, ForEach, configVars, StageKeys
<1>1. TypeOK'
  BY <1>0 DEF IInv, TypeOK, Locations
<1>2. Mapped' /\ Counted' /\ LinksAlive'
  BY <1>0, SameObjects
<1>3. OnTheMap' /\ Draining'
  BY <1>0, QuietObjects DEF IInv, Quiet
<1>4. Quiet' /\ Linked' /\ FromList' /\ ToDelete'
  <2>1. Quiet'
    BY <1>0, ObjectFacts DEF IInv, Quiet
  <2> QED
    BY <1>0, <2>1 DEF IInv, Linked, FromList, ToDelete
<1>5. OnlyRepeatsLeak'
  BY <1>0 DEF IInv, OnlyRepeatsLeak
<1> QED
  BY <1>1, <1>2, <1>3, <1>4, <1>5 DEF IInv

LEMMA started_Inv ==
  ASSUME IInv, started
  PROVE  IInv'
<1>0. /\ pc = "start" /\ UNCHANGED <<obj, stages_, stage_names_, cfg, thread_pools_, inits, added>>
      /\ pc' = "running" /\ pos' = 1 /\ todo' = {} /\ status' = "SUCCESS"
  BY DEF started, Goto, ForEach, configVars
<1>1. TypeOK'
  BY <1>0 DEF IInv, TypeOK, Locations
<1>2. Mapped' /\ Counted' /\ LinksAlive'
  BY <1>0, SameObjects
<1>3. OnTheMap' /\ Draining'
  BY <1>0 DEF IInv, OnTheMap, Draining, Objects, AtWork
<1>4. Quiet' /\ Linked' /\ FromList' /\ ToDelete'
  BY <1>0 DEF Quiet, Linked, FromList, ToDelete
<1>5. OnlyRepeatsLeak'
  BY <1>0 DEF IInv, OnlyRepeatsLeak
<1> QED
  BY <1>1, <1>2, <1>3, <1>4, <1>5 DEF IInv

LEMMA cleanup_Inv ==
  ASSUME IInv, cleanup
  PROVE  IInv'
<1>0. /\ pc \in {"running", "idle"}
      /\ UNCHANGED <<obj, stages_, stage_names_, cfg, thread_pools_, status, inits, added>>
      /\ pc' = "disconnect" /\ pos' = 1 /\ todo' = {n \in Names : stages_[n] # Absent}
  BY DEF cleanup, ForEach, configVars, StageKeys
<1>1. TypeOK'
  BY <1>0 DEF IInv, TypeOK, Locations
<1>2. Mapped' /\ Counted' /\ LinksAlive'
  BY <1>0, SameObjects
<1>3. OnTheMap'
  BY <1>0 DEF IInv, OnTheMap, Objects, AtWork, Absent
<1>4. Draining' /\ Quiet' /\ Linked' /\ FromList' /\ ToDelete'
  BY <1>0 DEF IInv, Draining, Quiet, Linked, FromList, ToDelete, Objects
<1>5. OnlyRepeatsLeak'
  BY <1>0 DEF IInv, OnlyRepeatsLeak
<1> QED
  BY <1>1, <1>2, <1>3, <1>4, <1>5 DEF IInv

LEMMA all_disconnected_Inv ==
  ASSUME IInv, all_disconnected
  PROVE  IInv'
<1>0. /\ pc = "disconnect" /\ todo = {}
      /\ UNCHANGED <<obj, stages_, stage_names_, cfg, thread_pools_, status, inits, added>>
      /\ pc' = "delete" /\ pos' = 1 /\ todo' = {n \in Names : stages_[n] # Absent}
  BY DEF all_disconnected, ForEach, configVars, StageKeys
<1>a. \A i \in Objects : ~obj[i].connected
  BY <1>0 DEF IInv, OnTheMap, AtWork
<1>1. TypeOK'
  BY <1>0 DEF IInv, TypeOK, Locations
<1>2. Mapped' /\ Counted' /\ LinksAlive'
  BY <1>0, SameObjects
<1>3. OnTheMap' /\ Draining'
  BY <1>0, <1>a, QuietObjects
<1>4. Quiet' /\ Linked' /\ FromList' /\ ToDelete'
  BY <1>0, <1>a DEF IInv, Quiet, Linked, FromList, ToDelete, Objects
<1>5. OnlyRepeatsLeak'
  BY <1>0 DEF IInv, OnlyRepeatsLeak
<1> QED
  BY <1>1, <1>2, <1>3, <1>4, <1>5 DEF IInv

LEMMA delete_pool_Inv ==
  ASSUME IInv, NEW p \in PoolNames, delete_pool(p)
  PROVE  IInv'
<1>0. /\ pc = "kill" /\ UNCHANGED <<obj, stages_, stage_names_, cfg, pc, pos, status, inits, added>>
      /\ todo' = todo \ {p}
  BY DEF delete_pool, Visited
<1>1. TypeOK'
  <2>1. thread_pools_' \in [PoolNames -> Absent .. MaxThreads]
    BY ConfigAssumption DEF IInv, TypeOK, delete_pool, Absent
  <2> QED
    BY <1>0, <2>1 DEF IInv, TypeOK
<1>2. Mapped' /\ Counted' /\ LinksAlive'
  BY <1>0, SameObjects
<1>3. OnTheMap' /\ Draining'
  BY <1>0, QuietObjects DEF IInv, Quiet
<1>4. Quiet' /\ Linked' /\ FromList' /\ ToDelete'
  BY <1>0 DEF IInv, Quiet, Linked, FromList, ToDelete, Objects
<1>5. OnlyRepeatsLeak'
  BY <1>0 DEF IInv, OnlyRepeatsLeak
<1> QED
  BY <1>1, <1>2, <1>3, <1>4, <1>5 DEF IInv

LEMMA pools_released_Inv ==
  ASSUME IInv, pools_released
  PROVE  IInv'
<1>0. /\ pc = "kill" /\ UNCHANGED <<obj, stages_, stage_names_, cfg, thread_pools_, status, inits, added>>
      /\ pc' = "idle" /\ pos' = 1 /\ todo' = {}
  BY DEF pools_released, Goto, ForEach, configVars
<1>1. TypeOK'
  BY <1>0 DEF IInv, TypeOK, Locations
<1>2. Mapped' /\ Counted' /\ LinksAlive'
  BY <1>0, SameObjects
<1>3. OnTheMap' /\ Draining'
  BY <1>0, QuietObjects DEF IInv, Quiet
<1>4. Quiet' /\ Linked' /\ FromList' /\ ToDelete'
  BY <1>0 DEF IInv, Quiet, Linked, FromList, ToDelete, Objects
<1>5. OnlyRepeatsLeak'
  BY <1>0 DEF IInv, OnlyRepeatsLeak
<1> QED
  BY <1>1, <1>2, <1>3, <1>4, <1>5 DEF IInv

-----------------------------------------------------------------------------
(* Steps that change the map *)

LEMMA get_stage_Inv ==
  ASSUME IInv, NEW n \in Names, get_stage(n)
  PROVE  IInv'
<1>0. /\ pc \in {"idle", "running"} /\ stages_[n] = Absent
      /\ stages_' = [stages_ EXCEPT ![n] = Null]
      /\ UNCHANGED <<obj, stage_names_, cfg, thread_pools_, pc, pos, todo, status, inits, added>>
  BY DEF get_stage, callVars
<1>a. /\ \A m \in Names : m # n => stages_'[m] = stages_[m]
      /\ stages_'[n] = Null /\ stages_[n] = Absent
  BY <1>0 DEF IInv, TypeOK
<1>1. TypeOK'
  <2>1. stages_' \in [Names -> Absent .. Len(obj)]
    BY <1>0, ObjectFacts DEF IInv, TypeOK, Null, Absent
  <2> QED
    BY <1>0, <2>1 DEF IInv, TypeOK
<1>2. Mapped' /\ Counted' /\ LinksAlive'
  <2>1. Mapped'
    BY <1>0, <1>a DEF IInv, Mapped
  <2>2. Counted' /\ LinksAlive'
    BY <1>0 DEF IInv, Counted, LinksAlive, Objects, AtWork
  <2> QED
    BY <2>1, <2>2
<1>3. OnTheMap'
  BY <1>0, <1>a DEF IInv, OnTheMap, Objects, AtWork, Absent
<1>4. Draining' /\ Quiet' /\ Linked' /\ FromList' /\ ToDelete'
  BY <1>0 DEF IInv, Draining, Quiet, Linked, FromList, ToDelete, Objects
<1>5. OnlyRepeatsLeak'
  <2>1. \A i \in DOMAIN obj : (\A m \in Names : stages_'[m] # i) => (\A m \in Names : stages_[m] # i)
    BY <1>a, ObjectFacts DEF IInv, Absent, Objects
  <2> QED
    BY <1>0, <2>1 DEF IInv, OnlyRepeatsLeak
<1> QED
  BY <1>1, <1>2, <1>3, <1>4, <1>5 DEF IInv

LEMMA stages_released_Inv ==
  ASSUME IInv, stages_released
  PROVE  IInv'
<1>0. /\ pc = "delete" /\ todo = {} /\ stages_' = NoStages
      /\ pc' = "kill" /\ pos' = 1 /\ todo' = {p \in PoolNames : thread_pools_[p] # Absent}
      /\ UNCHANGED <<obj, stage_names_, cfg, thread_pools_, status, inits, added>>
  BY DEF stages_released, ForEach, PoolKeys
<1>a. \A n \in Names : stages_'[n] = Absent /\ (stages_[n] = Absent \/ stages_[n] = Null)
  BY <1>0 DEF IInv, ToDelete, NoStages
<1>b. \A i \in Objects : ~obj[i].connected /\ ~(obj[i].ref > 0)
  BY <1>0 DEF IInv, Quiet, Draining
<1>1. TypeOK'
  <2>1. stages_' \in [Names -> Absent .. Len(obj)]
    BY <1>0, ObjectFacts DEF IInv, NoStages, Absent
  <2> QED
    BY <1>0, <2>1 DEF IInv, TypeOK, Locations
<1>2. Mapped' /\ Counted' /\ LinksAlive'
  <2>1. Mapped'
    BY <1>a DEF Mapped
  <2>2. Counted' /\ LinksAlive'
    BY <1>0 DEF IInv, Counted, LinksAlive, Objects, AtWork
  <2> QED
    BY <2>1, <2>2
<1>3. OnTheMap' /\ Draining'
  BY <1>0, <1>b DEF OnTheMap, Draining, Objects, AtWork
<1>4. Quiet' /\ Linked' /\ FromList' /\ ToDelete'
  BY <1>0, <1>a, <1>b DEF IInv, Quiet, Linked, FromList, ToDelete, Objects
<1>5. OnlyRepeatsLeak'
  <2>1. \A i \in DOMAIN obj : \A m \in Names : stages_[m] # i
    BY <1>a, ObjectFacts DEF IInv, Absent, Null, Objects
  <2> QED
    BY <1>0, <2>1 DEF IInv, OnlyRepeatsLeak
<1> QED
  BY <1>1, <1>2, <1>3, <1>4, <1>5 DEF IInv

-----------------------------------------------------------------------------
(* The threads at work *)

\* The reference count of a stage that is at work, or connected, may change.
LEMMA WorkStep ==
  ASSUME IInv, UNCHANGED <<stages_, stage_names_, cfg, thread_pools_, callVars>>,
         added' \in 0 .. MaxEvents,
         obj' \in Seq(StageObject), Len(obj') = Len(obj),
         \A i \in Objects :
           /\ obj'[i].name = obj[i].name /\ obj'[i].alive = obj[i].alive
           /\ obj'[i].connected = obj[i].connected /\ obj'[i].next = obj[i].next
           /\ obj'[i].ref > 0 => AtWork(i),
         Counted'
  PROVE  IInv'
<1>0. UNCHANGED <<stages_, stage_names_, cfg, thread_pools_, pc, pos, todo, status, inits>>
  BY DEF callVars
<1>a. /\ Objects' = Objects /\ DOMAIN obj = Objects /\ DOMAIN obj' = Objects
      /\ \A n \in Names : stages_[n] # Absent /\ stages_[n] # Null => stages_[n] \in Objects
  BY ObjectFacts DEF IInv, Objects
<1>b. \A i \in Objects : AtWork(i)' => AtWork(i)
  BY DEF AtWork
<1>c. \A i \in Objects : obj[i].next \subseteq Objects
  BY ObjectFacts DEF IInv
<1>1. TypeOK'
  <2>1. stages_' \in [Names -> Absent .. Len(obj')]
    BY <1>0 DEF IInv, TypeOK
  <2>2. \A i \in DOMAIN obj' : obj'[i].next \subseteq DOMAIN obj'
    BY <1>a, <1>c
  <2> QED
    BY <1>0, <2>1, <2>2 DEF IInv, TypeOK
<1>2. Mapped'
  BY <1>0, <1>a DEF IInv, Mapped
<1>3. LinksAlive'
  BY <1>0, <1>a, <1>b, <1>c DEF IInv, LinksAlive
<1>4. OnTheMap'
  BY <1>0, <1>a, <1>b DEF IInv, OnTheMap
<1>5. Draining'
  <2>1. \A i \in Objects : obj'[i].ref > 0 /\ ~obj'[i].connected => obj[i].ref > 0 /\ ~obj[i].connected
    BY DEF AtWork
  <2> QED
    BY <1>0, <1>a, <2>1 DEF IInv, Draining, Least
<1>6. Quiet'
  BY <1>0, <1>a DEF IInv, Quiet, Least
<1>7. Linked' /\ FromList' /\ ToDelete'
  BY <1>0, <1>a DEF IInv, Linked, FromList, ToDelete
<1>8. OnlyRepeatsLeak'
  BY <1>0, <1>a DEF IInv, OnlyRepeatsLeak
<1> QED
  BY <1>1, <1>2, <1>3, <1>4, <1>5, <1>6, <1>7, <1>8 DEF IInv

LEMMA Replaced ==
  ASSUME NEW os \in Seq(StageObject), NEW i \in 1 .. Len(os), NEW r \in StageObject,
         NEW os1, os1 = [os EXCEPT ![i] = r]
  PROVE  /\ os1 \in Seq(StageObject) /\ Len(os1) = Len(os)
         /\ os1[i] = r /\ \A j \in 1 .. Len(os) : j # i => os1[j] = os[j]
BY ExceptSeq

\* What add_event() does to the object.
AddedTo(a, b) ==
  /\ b.name = a.name /\ b.alive = a.alive /\ b.connected = a.connected /\ b.next = a.next
  /\ b.busy = a.busy /\ b.leaving = a.leaving /\ b.queue = a.queue + 1
  /\ b.ref = a.ref + (IF a.connected THEN 1 ELSE 0)

LEMMA AddToFacts ==
  ASSUME NEW os \in Seq(StageObject), NEW t \in 1 .. Len(os)
  PROVE  /\ AddTo(os, t) \in Seq(StageObject) /\ Len(AddTo(os, t)) = Len(os)
         /\ \A j \in 1 .. Len(os) : j # t => AddTo(os, t)[j] = os[j]
         /\ AddedTo(os[t], AddTo(os, t)[t])
<1> DEFINE k == os[t].ref + (IF os[t].connected THEN 1 ELSE 0)
           r == [os[t] EXCEPT !.queue = os[t].queue + 1, !.ref = k]
<1>1. os[t] \in StageObject
  OBVIOUS
<1>2. os[t].queue \in Nat /\ os[t].ref \in Nat
  BY <1>1 DEF StageObject
<1>3. os[t].queue + 1 \in Nat /\ k \in Nat
  BY <1>2
<1>4. AddTo(os, t) = [os EXCEPT ![t] = r]
  BY <1>1 DEF AddTo, StageObject
<1>5. k = os[t].ref + (IF os[t].connected THEN 1 ELSE 0)
  OBVIOUS
<1> HIDE DEF k
<1>6. r \in StageObject
  BY <1>1, <1>3 DEF StageObject
<1>7. AddedTo(os[t], r)
  BY <1>1, <1>5 DEF StageObject, AddedTo
<1> HIDE DEF r
<1>8. /\ AddTo(os, t) \in Seq(StageObject) /\ Len(AddTo(os, t)) = Len(os)
      /\ AddTo(os, t)[t] = r /\ \A j \in 1 .. Len(os) : j # t => AddTo(os, t)[j] = os[j]
  BY <1>4, <1>6, Replaced
<1> QED
  BY <1>7, <1>8

LEMMA add_event_Inv ==
  ASSUME IInv, NEW n \in Names, add_event(n)
  PROVE  IInv'
<1> DEFINE t == stages_[n]
<1>0. /\ t \in Objects /\ obj' = AddTo(obj, t)
      /\ UNCHANGED <<stages_, stage_names_, cfg, thread_pools_, callVars>> /\ added' \in 0 .. MaxEvents
  <2>1. t \in Objects
    BY ObjectFacts DEF IInv, add_event
  <2>2. added' \in 0 .. MaxEvents
    BY ConfigAssumption DEF IInv, TypeOK, add_event
  <2> QED
    BY <2>1, <2>2 DEF add_event, configVars
<1> HIDE DEF t
<1>a. obj \in Seq(StageObject) /\ t \in 1 .. Len(obj) /\ Objects = 1 .. Len(obj)
  BY <1>0 DEF IInv, TypeOK, Objects
<1>b. /\ obj' \in Seq(StageObject) /\ Len(obj') = Len(obj)
      /\ \A j \in Objects : j # t => obj'[j] = obj[j]
      /\ AddedTo(obj[t], obj'[t])
  BY <1>0, <1>a, AddToFacts
<1>d. /\ obj'[t].name = obj[t].name /\ obj'[t].alive = obj[t].alive
      /\ obj'[t].connected = obj[t].connected /\ obj'[t].next = obj[t].next
      /\ obj'[t].busy = obj[t].busy /\ obj'[t].leaving = obj[t].leaving
      /\ obj'[t].queue = obj[t].queue + 1
      /\ obj'[t].ref = obj[t].ref + (IF obj[t].connected THEN 1 ELSE 0)
  BY <1>b DEF AddedTo
<1>1. \A i \in Objects :
        /\ obj'[i].name = obj[i].name /\ obj'[i].alive = obj[i].alive
        /\ obj'[i].connected = obj[i].connected /\ obj'[i].next = obj[i].next
        /\ obj'[i].ref > 0 => AtWork(i)
  <2>1. obj'[t].ref > 0 => AtWork(t)
    BY <1>d, <1>0, ObjectFacts DEF IInv, AtWork
  <2> QED
    BY <1>b, <1>d, <2>1 DEF AtWork
<1>2. Counted'
  <2>1. obj[t].busy + obj[t].leaving <= obj[t].ref /\ obj[t].ref <= obj[t].busy + obj[t].leaving + obj[t].queue
    BY <1>0 DEF IInv, Counted
  <2>2. obj[t].queue \in Nat /\ obj[t].ref \in Nat /\ obj[t].busy \in Nat /\ obj[t].leaving \in Nat
    BY <1>0, ObjectFacts DEF IInv
  <2>3. obj'[t].busy + obj'[t].leaving <= obj'[t].ref /\ obj'[t].ref <= obj'[t].busy + obj'[t].leaving + obj'[t].queue
    BY <1>d, <2>1, <2>2
  <2> QED
    BY <1>b, <2>3 DEF IInv, Counted, Objects
<1> QED
  BY <1>0, <1>b, <1>1, <1>2, WorkStep

LEMMA take_Inv ==
  ASSUME IInv, NEW o \in Objects, take(o)
  PROVE  IInv'
<1> DEFINE r == [obj[o] EXCEPT !.queue = @ - 1, !.busy = @ + 1]
<1>c. /\ obj[o] \in StageObject
      /\ obj[o].queue \in Nat /\ obj[o].ref \in Nat /\ obj[o].busy \in Nat /\ obj[o].leaving \in Nat
  BY ObjectFacts DEF IInv
<1>e. /\ obj[o].busy + obj[o].leaving < obj[o].ref
      /\ obj[o].ref <= obj[o].busy + obj[o].leaving + obj[o].queue
  BY <1>c DEF IInv, Counted, take
<1>f. obj[o].queue - 1 \in Nat /\ obj[o].busy + 1 \in Nat
  BY <1>c, <1>e
<1>g. r \in StageObject
  BY <1>c, <1>f DEF StageObject
<1>0. /\ UNCHANGED <<stages_, stage_names_, cfg, thread_pools_, callVars>> /\ added' \in 0 .. MaxEvents
      /\ obj' = [obj EXCEPT ![o] = r]
  BY <1>c DEF IInv, TypeOK, take, configVars, StageObject
<1>d. /\ r.name = obj[o].name /\ r.alive = obj[o].alive
      /\ r.connected = obj[o].connected /\ r.next = obj[o].next
      /\ r.busy = obj[o].busy + 1 /\ r.leaving = obj[o].leaving
      /\ r.queue = obj[o].queue - 1 /\ r.ref = obj[o].ref
  BY <1>c DEF StageObject
<1> HIDE DEF r
<1>b. /\ obj' \in Seq(StageObject) /\ Len(obj') = Len(obj)
      /\ obj'[o] = r /\ \A j \in Objects : j # o => obj'[j] = obj[j]
  BY <1>0, <1>g, Replaced DEF IInv, TypeOK, Objects
<1>1. \A i \in Objects :
        /\ obj'[i].name = obj[i].name /\ obj'[i].alive = obj[i].alive
        /\ obj'[i].connected = obj[i].connected /\ obj'[i].next = obj[i].next
        /\ obj'[i].ref > 0 => AtWork(i)
  BY <1>b, <1>d DEF AtWork
<1>2. Counted'
  <2>1. obj'[o].busy + obj'[o].leaving <= obj'[o].ref /\ obj'[o].ref <= obj'[o].busy + obj'[o].leaving + obj'[o].queue
    <3>1. r.busy + r.leaving <= r.ref /\ r.ref <= r.busy + r.leaving + r.queue
      BY <1>c, <1>d, <1>e
    <3> QED
      BY <1>b, <3>1
  <2> QED
    BY <1>b, <2>1 DEF IInv, Counted, Objects
<1> QED
  BY <1>0, <1>b, <1>1, <1>2, WorkStep

LEMMA release_event_Inv ==
  ASSUME IInv, NEW o \in Objects, release_event(o)
  PROVE  IInv'
<1> DEFINE r == [obj[o] EXCEPT !.leaving = @ - 1, !.ref = @ - 1]
<1>c. /\ obj[o] \in StageObject
      /\ obj[o].queue \in Nat /\ obj[o].ref \in Nat /\ obj[o].busy \in Nat /\ obj[o].leaving \in Nat
  BY ObjectFacts DEF IInv
<1>e. /\ obj[o].busy + obj[o].leaving <= obj[o].ref /\ obj[o].leaving > 0
      /\ obj[o].ref <= obj[o].busy + obj[o].leaving + obj[o].queue
  BY <1>c DEF IInv, Counted, release_event
<1>f. obj[o].leaving - 1 \in Nat /\ obj[o].ref - 1 \in Nat /\ obj[o].ref > 0
  BY <1>c, <1>e
<1>g. r \in StageObject
  BY <1>c, <1>f DEF StageObject
<1>0. /\ UNCHANGED <<stages_, stage_names_, cfg, thread_pools_, callVars>> /\ added' \in 0 .. MaxEvents
      /\ obj' = [obj EXCEPT ![o] = r]
  BY <1>c DEF IInv, TypeOK, release_event, configVars, StageObject
<1>d. /\ r.name = obj[o].name /\ r.alive = obj[o].alive
      /\ r.connected = obj[o].connected /\ r.next = obj[o].next
      /\ r.busy = obj[o].busy /\ r.leaving = obj[o].leaving - 1
      /\ r.queue = obj[o].queue /\ r.ref = obj[o].ref - 1
  BY <1>c DEF StageObject
<1> HIDE DEF r
<1>b. /\ obj' \in Seq(StageObject) /\ Len(obj') = Len(obj)
      /\ obj'[o] = r /\ \A j \in Objects : j # o => obj'[j] = obj[j]
  BY <1>0, <1>g, Replaced DEF IInv, TypeOK, Objects
<1>1. \A i \in Objects :
        /\ obj'[i].name = obj[i].name /\ obj'[i].alive = obj[i].alive
        /\ obj'[i].connected = obj[i].connected /\ obj'[i].next = obj[i].next
        /\ obj'[i].ref > 0 => AtWork(i)
  BY <1>b, <1>d, <1>f DEF AtWork
<1>2. Counted'
  <2>1. obj'[o].busy + obj'[o].leaving <= obj'[o].ref /\ obj'[o].ref <= obj'[o].busy + obj'[o].leaving + obj'[o].queue
    <3>1. r.busy + r.leaving <= r.ref /\ r.ref <= r.busy + r.leaving + r.queue
      BY <1>c, <1>d, <1>e
    <3> QED
      BY <1>b, <3>1
  <2> QED
    BY <1>b, <2>1 DEF IInv, Counted, Objects
<1> QED
  BY <1>0, <1>b, <1>1, <1>2, WorkStep

LEMMA handle_event_Inv ==
  ASSUME IInv, NEW o \in Objects, handle_event(o)
  PROVE  IInv'
<1> DEFINE r == [obj[o] EXCEPT !.busy = @ - 1, !.leaving = @ + 1]
           os == [obj EXCEPT ![o] = r]
<1>c. /\ obj[o] \in StageObject
      /\ obj[o].queue \in Nat /\ obj[o].ref \in Nat /\ obj[o].busy \in Nat /\ obj[o].leaving \in Nat
  BY ObjectFacts DEF IInv
<1>e. /\ obj[o].busy + obj[o].leaving <= obj[o].ref /\ obj[o].busy > 0
      /\ obj[o].ref <= obj[o].busy + obj[o].leaving + obj[o].queue
  BY <1>c DEF IInv, Counted, handle_event
<1>f. obj[o].busy - 1 \in Nat /\ obj[o].leaving + 1 \in Nat /\ obj[o].ref > 0
  BY <1>c, <1>e
<1>g. r \in StageObject
  BY <1>c, <1>f DEF StageObject
<1>h. os = [obj EXCEPT ![o].busy = @ - 1, ![o].leaving = @ + 1]
  BY <1>c DEF StageObject
<1>0. /\ UNCHANGED <<stages_, stage_names_, cfg, thread_pools_, callVars>> /\ added' \in 0 .. MaxEvents
      /\ obj' = os \/ \E t \in obj[o].next : obj' = AddTo(os, t)
  BY <1>h DEF IInv, TypeOK, handle_event, configVars
<1>d. /\ r.name = obj[o].name /\ r.alive = obj[o].alive
      /\ r.connected = obj[o].connected /\ r.next = obj[o].next
      /\ r.busy = obj[o].busy - 1 /\ r.leaving = obj[o].leaving + 1
      /\ r.queue = obj[o].queue /\ r.ref = obj[o].ref
  BY <1>c DEF StageObject
<1> HIDE DEF r
<1>k. os = [obj EXCEPT ![o] = r] /\ obj \in Seq(StageObject) /\ o \in 1 .. Len(obj)
  BY DEF IInv, TypeOK, Objects
<1> HIDE DEF os
<1>b. /\ os \in Seq(StageObject) /\ Len(os) = Len(obj)
      /\ os[o] = r /\ \A j \in Objects : j # o => os[j] = obj[j]
  BY <1>g, <1>k, Replaced DEF Objects
<1>i. \A i \in Objects :
        /\ os[i].name = obj[i].name /\ os[i].alive = obj[i].alive
        /\ os[i].connected = obj[i].connected /\ os[i].next = obj[i].next
        /\ os[i].ref = obj[i].ref /\ os[i].queue = obj[i].queue
  BY <1>b, <1>d
<1>j. \A i \in Objects :
        /\ os[i].busy + os[i].leaving <= os[i].ref
        /\ os[i].ref <= os[i].busy + os[i].leaving + os[i].queue
  <2>1. r.busy + r.leaving <= r.ref /\ r.ref <= r.busy + r.leaving + r.queue
    BY <1>c, <1>d, <1>e
  <2> QED
    BY <1>b, <2>1 DEF IInv, Counted
<1>1. CASE obj' = os
  <2>1. Counted'
    BY <1>1, <1>b, <1>j DEF Counted, Objects
  <2>2. \A i \in Objects :
        /\ obj'[i].name = obj[i].name /\ obj'[i].alive = obj[i].alive
        /\ obj'[i].connected = obj[i].connected /\ obj'[i].next = obj[i].next
        /\ obj'[i].ref > 0 => AtWork(i)
    BY <1>1, <1>i DEF AtWork
  <2> QED
    BY <1>0, <1>1, <1>b, <2>1, <2>2, WorkStep
<1>2. ASSUME NEW t \in obj[o].next, obj' = AddTo(os, t)
      PROVE  IInv'
  <2>0. t \in Objects /\ t \in 1 .. Len(os) /\ Objects = 1 .. Len(os)
    <3>1. t \in Objects
      BY ObjectFacts DEF IInv
    <3> QED
      BY <1>b, <3>1 DEF Objects
  <2>1. /\ obj' \in Seq(StageObject) /\ Len(obj') = Len(obj)
        /\ \A j \in Objects : j # t => obj'[j] = os[j]
        /\ AddedTo(os[t], obj'[t])
    BY <1>2, <1>b, <2>0, AddToFacts
  <2>2. os[t] \in StageObject
    BY <1>b, <2>0
  <2>3. /\ obj'[t].name = os[t].name /\ obj'[t].alive = os[t].alive
        /\ obj'[t].connected = os[t].connected /\ obj'[t].next = os[t].next
        /\ obj'[t].busy = os[t].busy /\ obj'[t].leaving = os[t].leaving
        /\ obj'[t].queue = os[t].queue + 1
        /\ obj'[t].ref = os[t].ref + (IF os[t].connected THEN 1 ELSE 0)
    BY <2>1 DEF AddedTo
  <2>4. \A i \in Objects :
          /\ obj'[i].name = obj[i].name /\ obj'[i].alive = obj[i].alive
          /\ obj'[i].connected = obj[i].connected /\ obj'[i].next = obj[i].next
          /\ obj'[i].ref > 0 => AtWork(i)
    <3>1. obj'[t].ref > 0 => AtWork(t)
      BY <1>i, <2>0, <2>3, ObjectFacts DEF IInv, AtWork
    <3>2. ASSUME NEW i \in Objects, i # t
          PROVE  /\ obj'[i].name = obj[i].name /\ obj'[i].alive = obj[i].alive
                 /\ obj'[i].connected = obj[i].connected /\ obj'[i].next = obj[i].next
                 /\ obj'[i].ref > 0 => AtWork(i)
      BY <1>i, <2>1, <3>2 DEF AtWork
    <3>3. /\ obj'[t].name = obj[t].name /\ obj'[t].alive = obj[t].alive
          /\ obj'[t].connected = obj[t].connected /\ obj'[t].next = obj[t].next
      BY <1>i, <2>0, <2>3
    <3> QED
      BY <3>1, <3>2, <3>3
  <2>5. Counted'
    <3>1. os[t].busy + os[t].leaving <= os[t].ref /\ os[t].ref <= os[t].busy + os[t].leaving + os[t].queue
      BY <1>j, <2>0
    <3>2. os[t].queue \in Nat /\ os[t].ref \in Nat /\ os[t].busy \in Nat /\ os[t].leaving \in Nat
      BY <2>2 DEF StageObject
    <3>3. obj'[t].busy + obj'[t].leaving <= obj'[t].ref /\ obj'[t].ref <= obj'[t].busy + obj'[t].leaving + obj'[t].queue
      BY <2>3, <3>1, <3>2
    <3> QED
      BY <1>j, <2>1, <3>3 DEF Counted, Objects
  <2> QED
    BY <1>0, <2>1, <2>4, <2>5, WorkStep
<1> QED
  BY <1>0, <1>1, <1>2

-----------------------------------------------------------------------------
(* init() and cleanup() at a stage of the map *)

LEMMA OneName ==
  ASSUME IInv, NEW n \in Names, NEW m \in Names,
         stages_[n] # Absent, stages_[n] # Null, stages_[m] = stages_[n]
  PROVE  m = n
BY DEF IInv, Mapped

LEMMA LeastIsOne ==
  ASSUME NEW n \in Names, NEW m \in Names, Least(n), Least(m)
  PROVE  m = n
BY ConfigAssumption DEF Least

LEMMA start_Inv ==
  ASSUME IInv, NEW n \in Names, start(n)
  PROVE  IInv'
<1>0. /\ pc = "start" /\ n \in todo
      /\ UNCHANGED <<stages_, stage_names_, cfg, thread_pools_, inits, added>>
  BY DEF start, Least, configVars
<1>1. CASE stages_[n] = Null /\ Visited(n) /\ UNCHANGED <<obj, status>>
  <2>0. UNCHANGED <<pc, pos>> /\ todo' = todo \ {n}
    BY <1>1 DEF Visited
  <2>1. TypeOK'
    BY <1>0, <1>1, <2>0 DEF IInv, TypeOK
  <2>2. Mapped' /\ Counted' /\ LinksAlive'
    BY <1>0, <1>1, SameObjects
  <2>3. OnTheMap' /\ Draining'
    BY <1>0, <1>1, <2>0 DEF IInv, OnTheMap, Draining, Objects, AtWork
  <2>4. Quiet' /\ Linked' /\ FromList' /\ ToDelete'
    BY <1>0, <1>1, <2>0 DEF IInv, Quiet, Linked, FromList, ToDelete
  <2>5. OnlyRepeatsLeak'
    BY <1>0, <1>1 DEF IInv, OnlyRepeatsLeak
  <2> QED
    BY <2>1, <2>2, <2>3, <2>4, <2>5 DEF IInv
<1>2. CASE ForEach("disconnect", StageKeys) /\ status' = "INITFAIL" /\ UNCHANGED obj
  <2>0. pc' = "disconnect" /\ pos' = 1 /\ todo' = {m \in Names : stages_[m] # Absent}
    BY <1>2 DEF ForEach, StageKeys
  <2>1. TypeOK'
    BY <1>0, <1>2, <2>0 DEF IInv, TypeOK, Locations
  <2>2. Mapped' /\ Counted' /\ LinksAlive'
    BY <1>0, <1>2, SameObjects
  <2>3. OnTheMap'
    BY <1>0, <1>2, <2>0 DEF IInv, OnTheMap, Objects, AtWork, Absent
  <2>4. Draining' /\ Quiet' /\ Linked' /\ FromList' /\ ToDelete'
    BY <1>0, <1>2, <2>0 DEF IInv, Draining, Quiet, Linked, FromList, ToDelete, Objects
  <2>5. OnlyRepeatsLeak'
    BY <1>0, <1>2 DEF IInv, OnlyRepeatsLeak
  <2> QED
    BY <2>1, <2>2, <2>3, <2>4, <2>5 DEF IInv
<1>3. CASE /\ stages_[n] # Null
           /\ obj' = [obj EXCEPT ![stages_[n]].connected = TRUE, ![stages_[n]].ref = obj[stages_[n]].queue]
           /\ Visited(n) /\ UNCHANGED status
  <2> DEFINE s == stages_[n]
             r == [obj[s] EXCEPT !.connected = TRUE, !.ref = obj[s].queue]
  <2>0. UNCHANGED <<pc, pos, status>> /\ todo' = todo \ {n}
    BY <1>3 DEF Visited
  <2>1. s # Absent /\ s # Null /\ s \in Objects /\ ~obj[s].connected
    <3>1. s # Absent /\ s # Null /\ ~obj[s].connected
      BY <1>0, <1>3 DEF IInv, Quiet
    <3> QED
      BY <3>1, ObjectFacts DEF IInv
  <2>2. /\ obj[s] \in StageObject /\ obj[s].next \subseteq Objects
        /\ obj[s].queue \in Nat /\ obj[s].ref \in Nat /\ obj[s].busy \in Nat /\ obj[s].leaving \in Nat
    BY <2>1, ObjectFacts DEF IInv
  <2>3. r \in StageObject /\ r.next = obj[s].next
    BY <2>2 DEF StageObject
  <2>4. obj' = [obj EXCEPT ![s] = r]
    BY <1>3, <2>2 DEF StageObject
  <2>5. /\ r.name = obj[s].name /\ r.alive = obj[s].alive /\ r.connected = TRUE
        /\ r.busy = obj[s].busy /\ r.leaving = obj[s].leaving
        /\ r.queue = obj[s].queue /\ r.ref = obj[s].queue
    BY <2>2 DEF StageObject
  <2> HIDE DEF r
  <2>6. /\ obj' \in Seq(StageObject) /\ Len(obj') = Len(obj) /\ Objects' = Objects
        /\ obj'[s] = r /\ \A j \in Objects : j # s => obj'[j] = obj[j]
        /\ DOMAIN obj' = Objects /\ \A j \in DOMAIN obj' : obj'[j].next \subseteq DOMAIN obj'
    BY <2>1, <2>2, <2>3, <2>4, ObjectReplaced DEF IInv
  <2> HIDE DEF s
  <2>7. obj[s].ref = 0
    BY <1>0, <2>1, <2>2 DEF IInv, Draining
  <2>8. \A i \in Objects : obj'[i].name = obj[i].name /\ obj'[i].alive = obj[i].alive /\ obj'[i].next = obj[i].next
    BY <2>3, <2>5, <2>6
  <2>9. \A m \in Names : stages_[m] # Absent /\ stages_[m] # Null => stages_[m] \in Objects
    BY ObjectFacts DEF IInv
  <2>11. TypeOK'
    <3>1. stages_' \in [Names -> Absent .. Len(obj')]
      BY <1>0, <2>6 DEF IInv, TypeOK
    <3> QED
      BY <1>0, <2>0, <2>6, <3>1 DEF IInv, TypeOK
  <2>12. Mapped'
    BY <1>0, <2>8, <2>9 DEF IInv, Mapped
  <2>13. Counted'
    <3>1. obj[s].busy + obj[s].leaving <= obj[s].ref
      BY <2>1 DEF IInv, Counted
    <3>2. r.busy + r.leaving <= r.ref /\ r.ref <= r.busy + r.leaving + r.queue
      BY <2>2, <2>5, <2>7, <3>1
    <3> QED
      BY <2>6, <3>2 DEF IInv, Counted
  <2>14. OnTheMap'
    BY <1>0, <2>0, <2>6 DEF IInv, OnTheMap, AtWork, s
  <2>15. Draining'
    BY <1>0, <2>0, <2>5, <2>6 DEF IInv, Draining
  <2>16. LinksAlive'
    <3>1. obj[s].alive
      BY <2>1 DEF IInv, Mapped, s
    <3>2. \A j \in obj[s].next : obj[j].alive
      <4>1. \A j \in obj[s].next : j \in Objects /\ \E m \in Names : stages_[m] = j
        BY <1>0, <2>1, <2>2 DEF IInv, Linked, s
      <4>2. \A j \in Objects : j # Absent /\ j # Null
        BY DEF Objects, Absent, Null
      <4> QED
        BY <4>1, <4>2 DEF IInv, Mapped
    <3>3. \A i \in Objects : obj[i].next \subseteq Objects
      BY ObjectFacts DEF IInv
    <3>4. \A i \in Objects : i # s => (AtWork(i)' => AtWork(i))
      BY <2>6 DEF AtWork
    <3> QED
      BY <2>6, <2>8, <3>1, <3>2, <3>3, <3>4 DEF IInv, LinksAlive
  <2>17. Quiet'
    <3>1. \A m \in todo' : m \in todo /\ m # n
      BY <2>0
    <3>2. \A m \in todo : m \in Names /\ stages_[m] # Absent /\ (stages_[m] # Null => ~obj[stages_[m]].connected)
      BY <1>0 DEF IInv, Quiet
    <3>3. \A m \in todo' : stages_[m] # Null => ~obj'[stages_[m]].connected
      BY <2>1, <2>6, <2>9, <3>1, <3>2, OneName DEF s
    <3> QED
      BY <1>0, <2>0, <3>1, <3>2, <3>3 DEF Quiet
  <2>18. Linked' /\ FromList' /\ ToDelete'
    BY <1>0, <2>0, <2>8, <2>9 DEF IInv, Linked, FromList, ToDelete
  <2>19. OnlyRepeatsLeak'
    <3>1. DOMAIN obj = Objects
      BY ObjectFacts DEF IInv
    <3> QED
      BY <1>0, <2>6, <2>8, <3>1 DEF IInv, OnlyRepeatsLeak
  <2> QED
    BY <2>11, <2>12, <2>13, <2>14, <2>15, <2>16, <2>17, <2>18, <2>19 DEF IInv
<1> QED
  BY <1>1, <1>2, <1>3 DEF start

LEMMA disconnect_Inv ==
  ASSUME IInv, NEW n \in Names, disconnect(n)
  PROVE  IInv'
<1> DEFINE s == stages_[n]
<1>0. /\ pc = "disconnect" /\ Least(n) /\ n \in todo
      /\ UNCHANGED <<stages_, stage_names_, cfg, thread_pools_, status, inits, added>>
  BY DEF disconnect, Least, configVars
<1>a. stages_[n] # Absent
  BY <1>0 DEF IInv, Quiet
<1>b. \A m \in Names : stages_[m] # Absent /\ stages_[m] # Null => stages_[m] \in Objects
  BY ObjectFacts DEF IInv
<1>c. DOMAIN obj = Objects /\ \A i \in Objects : i # Absent /\ i # Null /\ obj[i].ref \in Nat
  BY ObjectFacts DEF IInv, Objects, Absent, Null
<1>1. CASE ~(s # Null /\ obj[s].connected)
  <2>0. UNCHANGED <<pc, pos, obj>> /\ todo' = todo \ {n}
    BY <1>1 DEF disconnect, Visited
  <2>1. TypeOK'
    BY <1>0, <2>0 DEF IInv, TypeOK
  <2>2. Mapped' /\ Counted' /\ LinksAlive'
    BY <1>0, <2>0, SameObjects
  <2>3. OnTheMap'
    <3>1. ASSUME NEW i \in Objects, AtWork(i)
          PROVE  i # s
      <4>1. CASE obj[i].connected
        BY <1>1, <1>c, <4>1
      <4>2. CASE ~obj[i].connected
        BY <1>0, <3>1, <4>2 DEF IInv, Draining, AtWork
      <4> QED
        BY <4>1, <4>2
    <3>2. ASSUME NEW i \in Objects, AtWork(i)
          PROVE  \E m \in Names : stages_[m] = i /\ m \in todo'
      <4>1. PICK m \in Names : stages_[m] = i /\ m \in todo
        BY <1>0, <3>2 DEF IInv, OnTheMap
      <4> QED
        BY <2>0, <3>1, <3>2, <4>1
    <3> QED
      BY <1>0, <2>0, <3>2 DEF OnTheMap, Objects, AtWork
  <2>4. Draining'
    BY <1>0, <2>0 DEF IInv, Draining, Objects
  <2>5. Quiet' /\ Linked' /\ FromList' /\ ToDelete'
    BY <1>0, <2>0 DEF IInv, Quiet, Linked, FromList, ToDelete
  <2>6. OnlyRepeatsLeak'
    BY <1>0, <2>0 DEF IInv, OnlyRepeatsLeak
  <2> QED
    BY <2>1, <2>2, <2>3, <2>4, <2>5, <2>6 DEF IInv
<1>2. CASE s # Null /\ obj[s].connected
  <2> DEFINE r == [obj[s] EXCEPT !.connected = FALSE]
  <2>0. /\ pc' = "wait" /\ UNCHANGED <<pos, todo>>
        /\ obj' = [obj EXCEPT ![s].connected = FALSE]
    BY <1>2 DEF disconnect
  <2>1. s \in Objects
    BY <1>2, <1>a, <1>b
  <2>2. obj[s] \in StageObject /\ obj[s].next \subseteq Objects
    BY <2>1, ObjectFacts DEF IInv
  <2>3. r \in StageObject /\ obj' = [obj EXCEPT ![s] = r]
    BY <2>0, <2>2 DEF StageObject
  <2>4. /\ r.name = obj[s].name /\ r.alive = obj[s].alive /\ r.connected = FALSE
        /\ r.next = obj[s].next /\ r.busy = obj[s].busy /\ r.leaving = obj[s].leaving
        /\ r.queue = obj[s].queue /\ r.ref = obj[s].ref
    BY <2>2 DEF StageObject
  <2> HIDE DEF r
  <2>5. /\ obj' \in Seq(StageObject) /\ Len(obj') = Len(obj) /\ Objects' = Objects
        /\ obj'[s] = r /\ \A j \in Objects : j # s => obj'[j] = obj[j]
        /\ DOMAIN obj' = Objects /\ \A j \in DOMAIN obj' : obj'[j].next \subseteq DOMAIN obj'
    BY <2>1, <2>2, <2>3, <2>4, ObjectReplaced DEF IInv
  <2> HIDE DEF s
  <2>6. \A i \in Objects :
          /\ obj'[i].name = obj[i].name /\ obj'[i].alive = obj[i].alive /\ obj'[i].next = obj[i].next
          /\ obj'[i].busy = obj[i].busy /\ obj'[i].leaving = obj[i].leaving
          /\ obj'[i].queue = obj[i].queue /\ obj'[i].ref = obj[i].ref
    BY <2>4, <2>5
  <2>7. \A i \in Objects : AtWork(i)' => AtWork(i)
    BY <2>4, <2>5 DEF AtWork
  <2>8. \A i \in Objects : obj[i].next \subseteq Objects
    BY ObjectFacts DEF IInv
  <2>11. TypeOK'
    <3>1. stages_' \in [Names -> Absent .. Len(obj')]
      BY <1>0, <2>5 DEF IInv, TypeOK
    <3> QED
      BY <1>0, <2>0, <2>5, <3>1 DEF IInv, TypeOK, Locations
  <2>12. Mapped' /\ Counted'
    BY <1>0, <1>b, <2>5, <2>6 DEF IInv, Mapped, Counted
  <2>13. LinksAlive'
    BY <2>5, <2>6, <2>7, <2>8 DEF IInv, LinksAlive
  <2>14. OnTheMap'
    BY <1>0, <2>0, <2>5, <2>7 DEF IInv, OnTheMap
  <2>15. Draining'
    <3>1. ASSUME NEW i \in Objects, obj'[i].ref > 0, ~obj'[i].connected
          PROVE  i = s
      BY <1>0, <2>5, <3>1 DEF IInv, Draining
    <3>2. Least(n)'
      BY <1>0, <2>0 DEF Least
    <3> QED
      BY <1>0, <2>0, <2>5, <3>1, <3>2 DEF Draining, s
  <2>16. Quiet'
    <3>1. \A m \in Names : Least(m)' => m = n
      BY <1>0, <2>0, LeastIsOne DEF Least
    <3>2. stages_'[n] # Null /\ ~obj'[stages_'[n]].connected
      BY <1>0, <1>2, <2>4, <2>5 DEF s
    <3>3. \A m \in todo' : m \in Names /\ stages_'[m] # Absent
      BY <1>0, <2>0 DEF IInv, Quiet
    <3> QED
      BY <2>0, <3>1, <3>2, <3>3 DEF Quiet
  <2>17. Linked' /\ FromList' /\ ToDelete'
    BY <2>0 DEF Linked, FromList, ToDelete
  <2>18. OnlyRepeatsLeak'
    BY <1>0, <1>c, <2>5, <2>6 DEF IInv, OnlyRepeatsLeak
  <2> QED
    BY <2>11, <2>12, <2>13, <2>14, <2>15, <2>16, <2>17, <2>18 DEF IInv
<1> QED
  BY <1>1, <1>2

LEMMA disconnected_Inv ==
  ASSUME IInv, NEW n \in Names, disconnected(n)
  PROVE  IInv'
<1> DEFINE s == stages_[n]
           r == [obj[s] EXCEPT !.next = {}]
<1>0. /\ pc = "wait" /\ Least(n) /\ n \in todo /\ obj[s].ref = 0
      /\ pc' = "disconnect" /\ todo' = todo \ {n} /\ obj' = [obj EXCEPT ![s].next = {}]
      /\ UNCHANGED <<stages_, stage_names_, cfg, thread_pools_, pos, status, inits, added>>
  BY DEF disconnected, Disconnected, Least, configVars
<1>b. \A m \in Names : stages_[m] # Absent /\ stages_[m] # Null => stages_[m] \in Objects
  BY ObjectFacts DEF IInv
<1>c. DOMAIN obj = Objects /\ \A i \in Objects : i # Absent /\ i # Null
  BY ObjectFacts DEF IInv, Objects, Absent, Null
<1>1. s # Absent /\ s # Null /\ s \in Objects /\ ~obj[s].connected
  <2>1. s # Absent /\ s # Null /\ ~obj[s].connected
    BY <1>0 DEF IInv, Quiet
  <2> QED
    BY <1>b, <2>1
<1>2. obj[s] \in StageObject /\ obj[s].next \subseteq Objects
  BY <1>1, ObjectFacts DEF IInv
<1>3. r \in StageObject /\ obj' = [obj EXCEPT ![s] = r]
  BY <1>0, <1>2 DEF StageObject
<1>4. /\ r.name = obj[s].name /\ r.alive = obj[s].alive /\ r.connected = obj[s].connected
      /\ r.next = {} /\ r.busy = obj[s].busy /\ r.leaving = obj[s].leaving
      /\ r.queue = obj[s].queue /\ r.ref = obj[s].ref
  BY <1>2 DEF StageObject
<1> HIDE DEF r
<1>5. /\ obj' \in Seq(StageObject) /\ Len(obj') = Len(obj) /\ Objects' = Objects
      /\ obj'[s] = r /\ \A j \in Objects : j # s => obj'[j] = obj[j]
      /\ DOMAIN obj' = Objects /\ \A j \in DOMAIN obj' : obj'[j].next \subseteq DOMAIN obj'
  BY <1>1, <1>2, <1>3, <1>4, ObjectReplaced DEF IInv
<1> HIDE DEF s
<1>6. \A i \in Objects :
        /\ obj'[i].name = obj[i].name /\ obj'[i].alive = obj[i].alive
        /\ obj'[i].connected = obj[i].connected /\ obj'[i].next \subseteq obj[i].next
        /\ obj'[i].busy = obj[i].busy /\ obj'[i].leaving = obj[i].leaving
        /\ obj'[i].queue = obj[i].queue /\ obj'[i].ref = obj[i].ref
  BY <1>4, <1>5
<1>7. \A i \in Objects : AtWork(i)' => AtWork(i)
  BY <1>6 DEF AtWork
<1>8. \A i \in Objects : obj[i].next \subseteq Objects
  BY ObjectFacts DEF IInv
<1>9. ~AtWork(s)
  BY <1>0, <1>1 DEF AtWork, s
<1>11. TypeOK'
  <2>1. stages_' \in [Names -> Absent .. Len(obj')]
    BY <1>0, <1>5 DEF IInv, TypeOK
  <2> QED
    BY <1>0, <1>5, <2>1 DEF IInv, TypeOK, Locations
<1>12. Mapped' /\ Counted'
  BY <1>0, <1>b, <1>5, <1>6 DEF IInv, Mapped, Counted
<1>13. LinksAlive'
  BY <1>5, <1>6, <1>7, <1>8 DEF IInv, LinksAlive
<1>14. OnTheMap'
  <2>1. ASSUME NEW i \in Objects, AtWork(i)'
        PROVE  \E m \in Names : stages_'[m] = i /\ m \in todo'
    <3>1. PICK m \in Names : stages_[m] = i /\ m \in todo
      BY <1>0, <1>7, <2>1 DEF IInv, OnTheMap
    <3>2. m # n
      BY <1>7, <1>9, <2>1, <3>1 DEF s
    <3> QED
      BY <1>0, <3>1, <3>2
  <2> QED
    BY <1>5, <2>1 DEF OnTheMap
<1>15. Draining'
  <2>1. \A i \in Objects : ~(obj[i].ref > 0 /\ ~obj[i].connected)
    <3>1. SUFFICES ASSUME NEW i \in Objects, obj[i].ref > 0, ~obj[i].connected
                   PROVE  FALSE
      OBVIOUS
    <3>2. PICK m \in Names : Least(m) /\ stages_[m] = i
      BY <3>1 DEF IInv, Draining
    <3>3. m = n
      BY <1>0, <3>2, LeastIsOne
    <3> QED
      BY <1>9, <3>1, <3>2, <3>3 DEF s, AtWork
  <2> QED
    BY <1>5, <1>6, <2>1 DEF Draining
<1>16. Quiet' /\ Linked' /\ FromList' /\ ToDelete'
  BY <1>0 DEF IInv, Quiet, Linked, FromList, ToDelete
<1>17. OnlyRepeatsLeak'
  BY <1>0, <1>c, <1>5, <1>6 DEF IInv, OnlyRepeatsLeak
<1> QED
  BY <1>11, <1>12, <1>13, <1>14, <1>15, <1>16, <1>17 DEF IInv

LEMMA delete_stage_Inv ==
  ASSUME IInv, NEW n \in Names, delete_stage(n)
  PROVE  IInv'
<1> DEFINE s == stages_[n]
<1>0. /\ pc = "delete" /\ n \in todo /\ todo' = todo \ {n}
      /\ UNCHANGED <<stage_names_, cfg, thread_pools_, pc, pos, status, inits, added>>
  BY DEF delete_stage, Least, Visited
<1>a. stages_[n] # Absent
  BY <1>0 DEF IInv, Quiet
<1>b. \A m \in Names : stages_[m] # Absent /\ stages_[m] # Null => stages_[m] \in Objects
  BY ObjectFacts DEF IInv
<1>c. DOMAIN obj = Objects /\ \A i \in Objects : i # Absent /\ i # Null
  BY ObjectFacts DEF IInv, Objects, Absent, Null
<1>d. \A i \in Objects : ~obj[i].connected /\ ~(obj[i].ref > 0)
  BY <1>0 DEF IInv, Quiet, Draining
<1>1. CASE s = Null
  <2>0. UNCHANGED <<obj, stages_>>
    BY <1>1 DEF delete_stage
  <2>1. TypeOK'
    BY <1>0, <2>0 DEF IInv, TypeOK
  <2>2. Mapped' /\ Counted' /\ LinksAlive'
    BY <2>0, SameObjects
  <2>3. OnTheMap' /\ Draining'
    BY <1>0, <1>d, <2>0, QuietObjects
  <2>4. Quiet' /\ Linked' /\ FromList' /\ ToDelete'
    BY <1>0, <1>1, <2>0 DEF IInv, Quiet, Linked, FromList, ToDelete, Objects
  <2>5. OnlyRepeatsLeak'
    BY <1>0, <2>0 DEF IInv, OnlyRepeatsLeak
  <2> QED
    BY <2>1, <2>2, <2>3, <2>4, <2>5 DEF IInv
<1>2. CASE s # Null
  <2> DEFINE r == [obj[s] EXCEPT !.alive = FALSE, !.queue = 0]
  <2>0. /\ stages_' = [stages_ EXCEPT ![n] = Null]
        /\ obj' = [obj EXCEPT ![s].alive = FALSE, ![s].queue = 0]
    BY <1>2 DEF delete_stage
  <2>a. stages_'[n] = Null /\ \A m \in Names : m # n => stages_'[m] = stages_[m]
    BY <2>0 DEF IInv, TypeOK
  <2>1. s \in Objects
    BY <1>2, <1>a, <1>b
  <2>2. /\ obj[s] \in StageObject /\ obj[s].next \subseteq Objects
        /\ obj[s].ref \in Nat /\ obj[s].busy \in Nat /\ obj[s].leaving \in Nat
    BY <2>1, ObjectFacts DEF IInv
  <2>3. r \in StageObject /\ obj' = [obj EXCEPT ![s] = r]
    BY <2>0, <2>2 DEF StageObject
  <2>4. /\ r.name = obj[s].name /\ r.alive = FALSE /\ r.connected = obj[s].connected
        /\ r.next = obj[s].next /\ r.busy = obj[s].busy /\ r.leaving = obj[s].leaving
        /\ r.queue = 0 /\ r.ref = obj[s].ref
    BY <2>2 DEF StageObject
  <2> HIDE DEF r
  <2>5. /\ obj' \in Seq(StageObject) /\ Len(obj') = Len(obj) /\ Objects' = Objects
        /\ obj'[s] = r /\ \A j \in Objects : j # s => obj'[j] = obj[j]
        /\ DOMAIN obj' = Objects /\ \A j \in DOMAIN obj' : obj'[j].next \subseteq DOMAIN obj'
    BY <2>1, <2>2, <2>3, <2>4, ObjectReplaced DEF IInv
  <2>6. \A m \in Names : m # n /\ stages_[m] # Absent /\ stages_[m] # Null => stages_[m] # s
    BY <1>2, <1>a, OneName
  <2> HIDE DEF s
  <2>7. \A i \in Objects : ~AtWork(i)'
    BY <1>d, <2>4, <2>5 DEF AtWork
  <2>11. TypeOK'
    <3>1. stages_' \in [Names -> Absent .. Len(obj')]
      BY <2>0, <2>5, ObjectFacts DEF IInv, TypeOK, Null, Absent
    <3> QED
      BY <1>0, <2>5, <3>1 DEF IInv, TypeOK
  <2>12. Mapped'
    BY <1>b, <2>5, <2>6, <2>a DEF IInv, Mapped
  <2>13. Counted'
    <3>1. obj[s].busy + obj[s].leaving <= obj[s].ref
      BY <2>1 DEF IInv, Counted
    <3>2. r.busy + r.leaving <= r.ref /\ r.ref <= r.busy + r.leaving + r.queue
      BY <1>d, <2>1, <2>2, <2>4, <3>1
    <3> QED
      BY <2>5, <3>2 DEF IInv, Counted
  <2>14. LinksAlive' /\ OnTheMap'
    BY <2>5, <2>7 DEF LinksAlive, OnTheMap
  <2>15. Draining'
    BY <2>5, <2>7 DEF Draining, AtWork
  <2>16. Quiet' /\ Linked' /\ FromList'
    <3>1. \A i \in Objects' : ~obj'[i].connected
      BY <2>5, <2>7 DEF AtWork
    <3>2. \A m \in todo' : m \in Names /\ stages_'[m] # Absent
      BY <1>0, <2>a DEF IInv, Quiet
    <3> QED
      BY <1>0, <3>1, <3>2 DEF Quiet, Linked, FromList
  <2>17. ToDelete'
    BY <1>0, <2>a DEF IInv, ToDelete
  <2>18. OnlyRepeatsLeak'
    <3>1. ASSUME NEW i \in Objects, i # s, \A m \in Names : stages_'[m] # i
          PROVE  \A m \in Names : stages_[m] # i
      BY <2>a, <3>1 DEF s
    <3>2. ASSUME NEW i \in Objects, obj'[i].alive, \A m \in Names : stages_'[m] # i
          PROVE  \E j, k \in DOMAIN stage_names_ :
                   j # k /\ stage_names_[j] = obj'[i].name /\ stage_names_[k] = obj'[i].name
      <4>1. i # s
        BY <2>4, <2>5, <3>2
      <4>2. obj'[i] = obj[i] /\ \A m \in Names : stages_[m] # i
        BY <2>5, <3>1, <3>2, <4>1
      <4> QED
        BY <1>c, <3>2, <4>2 DEF IInv, OnlyRepeatsLeak
    <3> QED
      BY <1>0, <2>5, <3>2 DEF OnlyRepeatsLeak
  <2> QED
    BY <2>11, <2>12, <2>13, <2>14, <2>15, <2>16, <2>17, <2>18 DEF IInv
<1> QED
  BY <1>1, <1>2

LEMMA Aborted ==
  ASSUME IInv, pc # "wait", \A i \in Objects : ~obj[i].connected, pc' = "aborted", pos' = 1, todo' = {},
         UNCHANGED <<obj, stages_, stage_names_, cfg, thread_pools_, status, inits, added>>
  PROVE  IInv'
<1>1. TypeOK'
  BY DEF IInv, TypeOK, Locations
<1>2. Mapped' /\ Counted' /\ LinksAlive'
  BY SameObjects
<1>3. OnTheMap' /\ Draining'
  BY QuietObjects
<1>4. Quiet' /\ Linked' /\ FromList' /\ ToDelete'
  BY DEF Quiet, Linked, FromList, ToDelete
<1>5. OnlyRepeatsLeak'
  BY DEF IInv, OnlyRepeatsLeak
<1> QED
  BY <1>1, <1>2, <1>3, <1>4, <1>5 DEF IInv

LEMMA gen_next_stages_Inv ==
  ASSUME IInv, gen_next_stages
  PROVE  IInv'
<1> DEFINE n == stage_names_[pos]
           s == stages_[n]
<1>0. /\ pc = "next" /\ pos \in 1 .. Len(stage_names_)
      /\ UNCHANGED <<stages_, stage_names_, cfg, thread_pools_, status, inits, added>>
  BY DEF IInv, TypeOK, gen_next_stages, configVars
<1>a. n \in Names /\ cfg.next[n] \subseteq Names
  <2>1. n \in Names
    BY <1>0 DEF IInv, TypeOK
  <2>2. cfg.next \in [Names -> SUBSET Names]
    BY ConfigAssumption DEF IInv, TypeOK
  <2> HIDE DEF n
  <2> QED
    BY <2>1, <2>2
<1>b. \A m \in Names : stages_[m] # Absent /\ stages_[m] # Null => stages_[m] \in Objects
  BY ObjectFacts DEF IInv
<1>c. DOMAIN obj = Objects /\ \A i \in Objects : i # Absent /\ i # Null
  BY ObjectFacts DEF IInv, Objects, Absent, Null
<1>d. \A i \in Objects : ~obj[i].connected /\ ~(obj[i].ref > 0)
  BY <1>0 DEF IInv, Quiet, Draining
<1>1. CASE \E m \in cfg.next[n] : stages_[m] \in {Null, Absent}
  <2>1. pc' = "aborted" /\ pos' = 1 /\ todo' = {} /\ UNCHANGED obj
    BY <1>1 DEF gen_next_stages, Goto, ForEach
  <2> QED
    BY <1>0, <1>d, <2>1, Aborted
<1>2. CASE ~\E m \in cfg.next[n] : stages_[m] \in {Null, Absent}
  <2> DEFINE to == {stages_[m] : m \in cfg.next[n]}
  <2>0. pos' = pos + 1 /\ UNCHANGED <<pc, todo>> /\ obj' = [obj EXCEPT ![s].next = to]
    BY <1>2 DEF gen_next_stages, Next_
  <2>1. to \subseteq Objects /\ \A j \in to : \E m \in Names : stages_[m] = j
    BY <1>2, <1>a, <1>b
  <2> HIDE DEF to
  <2>2. /\ obj' \in Seq(StageObject) /\ Len(obj') = Len(obj) /\ Objects' = Objects
        /\ DOMAIN obj' = Objects /\ \A j \in DOMAIN obj' : obj'[j].next \subseteq DOMAIN obj'
        /\ \A i \in Objects :
             /\ obj'[i].name = obj[i].name /\ obj'[i].alive = obj[i].alive
             /\ obj'[i].connected = obj[i].connected
             /\ obj'[i].next = obj[i].next \/ obj'[i].next = to
             /\ obj'[i].busy = obj[i].busy /\ obj'[i].leaving = obj[i].leaving
             /\ obj'[i].queue = obj[i].queue /\ obj'[i].ref = obj[i].ref
    <3>1. CASE s \in Objects
      <4> DEFINE r == [obj[s] EXCEPT !.next = to]
      <4>1. obj[s] \in StageObject
        BY <3>1, ObjectFacts DEF IInv
      <4>2. to \in SUBSET Nat
        BY <2>1 DEF Objects
      <4>3. r \in StageObject /\ obj' = [obj EXCEPT ![s] = r]
        BY <2>0, <4>1, <4>2 DEF StageObject
      <4>4. /\ r.name = obj[s].name /\ r.alive = obj[s].alive /\ r.connected = obj[s].connected
            /\ r.next = to /\ r.busy = obj[s].busy /\ r.leaving = obj[s].leaving
            /\ r.queue = obj[s].queue /\ r.ref = obj[s].ref
        BY <4>1 DEF StageObject
      <4> HIDE DEF r
      <4>5. /\ obj' \in Seq(StageObject) /\ Len(obj') = Len(obj) /\ Objects' = Objects
            /\ obj'[s] = r /\ \A j \in Objects : j # s => obj'[j] = obj[j]
            /\ DOMAIN obj' = Objects /\ \A j \in DOMAIN obj' : obj'[j].next \subseteq DOMAIN obj'
        BY <2>1, <3>1, <4>3, <4>4, ObjectReplaced DEF IInv
      <4> QED
        BY <4>4, <4>5
    <3>2. CASE s \notin Objects
      <4>1. obj \in Seq(StageObject) /\ \A j \in DOMAIN obj : obj[j].next \subseteq DOMAIN obj
        BY DEF IInv, TypeOK
      <4>2. obj' = obj
        BY <1>c, <2>0, <3>2, <4>1
      <4> QED
        BY <1>c, <4>1, <4>2 DEF Objects
    <3> QED
      BY <3>1, <3>2
  <2>3. \A i \in Objects : ~AtWork(i)'
    BY <1>d, <2>2 DEF AtWork
  <2>11. TypeOK'
    <3>1. stages_' \in [Names -> Absent .. Len(obj')]
      BY <1>0, <2>2 DEF IInv, TypeOK
    <3>2. pos' \in Nat \ {0}
      BY <2>0 DEF IInv, TypeOK
    <3> QED
      BY <1>0, <2>0, <2>2, <3>1, <3>2 DEF IInv, TypeOK
  <2>12. Mapped' /\ Counted'
    BY <1>0, <1>b, <2>2 DEF IInv, Mapped, Counted
  <2>13. LinksAlive' /\ OnTheMap'
    BY <2>2, <2>3 DEF LinksAlive, OnTheMap
  <2>14. Draining'
    BY <2>2, <2>3 DEF Draining, AtWork
  <2>15. Quiet' /\ FromList' /\ ToDelete'
    BY <1>0, <1>d, <2>0, <2>2 DEF Quiet, FromList, ToDelete
  <2>16. Linked'
    BY <1>0, <1>b, <2>0, <2>1, <2>2 DEF IInv, Linked
  <2>17. OnlyRepeatsLeak'
    BY <1>0, <1>c, <2>2 DEF IInv, OnlyRepeatsLeak
  <2> QED
    BY <2>11, <2>12, <2>13, <2>14, <2>15, <2>16, <2>17 DEF IInv
<1> QED
  BY <1>1, <1>2

LEMMA init_stage_Inv ==
  ASSUME IInv, init_stage
  PROVE  IInv'
<1> DEFINE n == stage_names_[pos]
           s == Len(obj) + 1
           r == new_stage(n)
<1>0. /\ pc = "stages" /\ pos \in 1 .. Len(stage_names_)
      /\ UNCHANGED <<stage_names_, cfg, thread_pools_, status, inits, added>>
  BY DEF IInv, TypeOK, init_stage
<1>a. n \in Names
  BY <1>0 DEF IInv, TypeOK
<1>b. \A m \in Names : stages_[m] # Absent /\ stages_[m] # Null => stages_[m] \in Objects
  BY ObjectFacts DEF IInv
<1>c. DOMAIN obj = Objects /\ \A i \in Objects : i # Absent /\ i # Null
  BY ObjectFacts DEF IInv, Objects, Absent, Null
<1>d. \A i \in Objects : ~obj[i].connected /\ ~(obj[i].ref > 0)
  BY <1>0 DEF IInv, Quiet, Draining
<1>1. CASE n \notin cfg.made
  <2>1. pc' = "aborted" /\ pos' = 1 /\ todo' = {} /\ UNCHANGED <<obj, stages_>>
    BY <1>1 DEF init_stage, Goto, ForEach
  <2> QED
    BY <1>0, <1>d, <2>1, Aborted
<1>2. CASE n \in cfg.made
  <2>0. /\ obj' = Append(obj, r) /\ stages_' = [stages_ EXCEPT ![n] = s]
        /\ pos' = pos + 1 /\ UNCHANGED <<pc, todo>>
    BY <1>2 DEF init_stage, Next_
  <2>1. r \in StageObject
    <3>1. cfg.pool \in [Names -> PoolNames] /\ Default \in PoolNames
      BY ConfigAssumption DEF IInv, TypeOK
    <3> HIDE DEF n
    <3>2. get_thread_pool(n) \in PoolNames
      BY <1>a, <3>1 DEF get_thread_pool
    <3> QED
      BY <1>a, <3>2 DEF new_stage, StageObject
  <2>2. /\ r.name = n /\ r.alive = TRUE /\ r.connected = FALSE /\ r.next = {}
        /\ r.queue = 0 /\ r.ref = 0 /\ r.busy = 0 /\ r.leaving = 0
    BY DEF new_stage
  <2> HIDE DEF r
  <2>3. /\ Len(obj) \in Nat /\ obj' \in Seq(StageObject) /\ Len(obj') = Len(obj) + 1
        /\ obj'[s] = r /\ \A i \in Objects : obj'[i] = obj[i]
    <3>1. obj \in Seq(StageObject)
      BY DEF IInv, TypeOK
    <3> QED
      BY <2>0, <2>1, <3>1, AppendProperties DEF Objects
  <2>4. /\ Objects' = Objects \cup {s} /\ DOMAIN obj' = Objects' /\ s \notin Objects
        /\ s # Absent /\ s # Null
    BY <2>3 DEF Objects, Absent, Null
  <2>5. stages_'[n] = s /\ \A m \in Names : m # n => stages_'[m] = stages_[m]
    BY <1>a, <2>0 DEF IInv, TypeOK
  <2>6. \A i \in Objects : obj[i].next \subseteq Objects
    BY ObjectFacts DEF IInv
  <2>7. \A i \in Objects' : ~AtWork(i)' /\ ~obj'[i].connected
    BY <1>d, <2>2, <2>3, <2>4 DEF AtWork
  <2>8. pos \in DOMAIN stage_names_ /\ pos \in Nat \ {0}
    BY <1>0 DEF IInv, TypeOK
  <2>11. TypeOK'
    <3>1. stages_' \in [Names -> Absent .. Len(obj')]
      <4>1. \A m \in Names : stages_[m] \in Absent .. Len(obj)
        BY DEF IInv, TypeOK
      <4>2. \A m \in Names : stages_[m] \in -1 .. Len(obj') /\ s \in -1 .. Len(obj')
        BY <2>3, <4>1 DEF Absent
      <4>3. stages_' = [m \in Names |-> IF m = n THEN s ELSE stages_[m]]
        BY <2>0 DEF IInv, TypeOK
      <4> QED
        BY <4>2, <4>3 DEF Absent
    <3>2. \A i \in DOMAIN obj' : obj'[i].next \subseteq DOMAIN obj'
      BY <2>2, <2>3, <2>4, <2>6
    <3> QED
      BY <1>0, <2>0, <2>3, <2>8, <3>1, <3>2 DEF IInv, TypeOK
  <2> HIDE DEF s, n
  <2>12. Mapped'
    BY <1>b, <2>2, <2>3, <2>5 DEF IInv, Mapped
  <2>13. Counted'
    BY <2>2, <2>3, <2>4 DEF IInv, Counted
  <2>14. LinksAlive' /\ OnTheMap'
    BY <2>7 DEF LinksAlive, OnTheMap
  <2>15. Draining'
    BY <2>7 DEF Draining, AtWork
  <2>16. Quiet' /\ ToDelete'
    BY <1>0, <2>0, <2>7 DEF Quiet, ToDelete
  <2>17. Linked'
    <3>1. \A m \in Names : stages_'[m] # Absent => stages_'[m] # Null /\ obj'[stages_'[m]].next = {}
      BY <1>0, <1>b, <2>2, <2>3, <2>4, <2>5 DEF IInv, Linked
    <3> QED
      BY <1>0, <2>0, <3>1 DEF Linked
  <2>18. FromList'
    <3>1. ASSUME NEW m \in Names, stages_'[m] # Absent
          PROVE  \E k \in DOMAIN stage_names_ : k < pos + 1 /\ stage_names_[k] = m
      <4>1. CASE m = n
        BY <2>8, <4>1 DEF n
      <4>2. CASE m # n
        <5>1. PICK k \in DOMAIN stage_names_ : k < pos /\ stage_names_[k] = m
          BY <1>0, <2>5, <3>1, <4>2 DEF IInv, FromList
        <5>2. k \in Nat
          BY <5>1 DEF IInv, TypeOK
        <5>3. k < pos + 1
          BY <2>8, <5>1, <5>2
        <5> QED
          BY <5>1, <5>3
      <4> QED
        BY <4>1, <4>2
    <3> QED
      BY <1>0, <2>0, <3>1 DEF FromList
  <2>19. OnlyRepeatsLeak'
    <3>1. ASSUME NEW i \in Objects', obj'[i].alive, \A m \in Names : stages_'[m] # i
          PROVE  \E j, k \in DOMAIN stage_names_ :
                   j # k /\ stage_names_[j] = obj'[i].name /\ stage_names_[k] = obj'[i].name
      <4>1. i \in Objects /\ obj'[i] = obj[i]
        BY <1>a, <2>3, <2>4, <2>5, <3>1
      <4>2. CASE \A m \in Names : stages_[m] # i
        BY <1>c, <3>1, <4>1, <4>2 DEF IInv, OnlyRepeatsLeak
      <4>3. CASE stages_[n] = i
        <5>1. stages_[n] # Absent /\ stages_[n] # Null
          BY <1>c, <4>1, <4>3
        <5>2. obj[i].name = n
          BY <1>a, <4>3, <5>1 DEF IInv, Mapped
        <5>3. PICK k \in DOMAIN stage_names_ : k < pos /\ stage_names_[k] = n
          BY <1>0, <1>a, <5>1 DEF IInv, FromList
        <5>4. k # pos /\ stage_names_[pos] = n
          BY <2>8, <5>3 DEF n
        <5> QED
          BY <2>8, <4>1, <5>2, <5>3, <5>4
      <4> QED
        BY <2>5, <3>1, <4>2, <4>3
    <3> QED
      BY <1>0, <2>4, <3>1 DEF OnlyRepeatsLeak
  <2> QED
    BY <2>11, <2>12, <2>13, <2>14, <2>15, <2>16, <2>17, <2>18, <2>19 DEF IInv
<1> QED
  BY <1>1, <1>2

-----------------------------------------------------------------------------
(* The theorems *)

LEMMA Init_Inv ==
  ASSUME Init
  PROVE  IInv
<1>0. obj = <<>> /\ Len(obj) = 0 /\ DOMAIN obj = {} /\ Objects = {}
  BY DEF Init, Objects
<1>1. TypeOK
  <2>1. thread_pools_ \in [PoolNames -> Absent .. MaxThreads]
    BY ConfigAssumption DEF Init, NoPools, Absent
  <2>2. stages_ \in [Names -> Absent .. Len(obj)]
    BY <1>0 DEF Init, NoStages, Absent
  <2>3. obj \in Seq(StageObject) /\ stage_names_ \in Seq(Names)
    BY <1>0 DEF Init
  <2>4. inits \in 0 .. MaxInits /\ added \in 0 .. MaxEvents
    BY ConfigAssumption DEF Init
  <2> QED
    BY <1>0, <2>1, <2>2, <2>3, <2>4 DEF Init, TypeOK, Locations
<1>2. Mapped
  BY DEF Init, Mapped, NoStages
<1>3. Counted /\ OnTheMap /\ Draining /\ LinksAlive
  BY <1>0 DEF Counted, OnTheMap, Draining, LinksAlive
<1>4. Quiet /\ Linked /\ FromList /\ ToDelete
  BY <1>0 DEF Init, Quiet, Linked, FromList, ToDelete
<1>5. OnlyRepeatsLeak
  BY <1>0 DEF OnlyRepeatsLeak
<1> QED
  BY <1>1, <1>2, <1>3, <1>4, <1>5 DEF IInv

LEMMA Stutter_Inv ==
  ASSUME IInv, UNCHANGED vars
  PROVE  IInv'
<1>0. UNCHANGED <<cfg, thread_pools_, stages_, stage_names_, obj, pc, pos, todo, status, inits, added>>
  BY DEF vars, configVars, callVars
<1>1. TypeOK'
  BY <1>0 DEF IInv, TypeOK
<1>2. Mapped' /\ Counted' /\ LinksAlive'
  BY <1>0, SameObjects
<1>3. OnTheMap'
  BY <1>0 DEF IInv, OnTheMap, Objects, AtWork
<1>4. Draining'
  BY <1>0 DEF IInv, Draining, Objects, Least
<1>5. Quiet'
  BY <1>0 DEF IInv, Quiet, Objects, Least
<1>6. Linked' /\ FromList' /\ ToDelete'
  BY <1>0 DEF IInv, Linked, FromList, ToDelete
<1>7. OnlyRepeatsLeak'
  BY <1>0 DEF IInv, OnlyRepeatsLeak
<1> QED
  BY <1>1, <1>2, <1>3, <1>4, <1>5, <1>6, <1>7 DEF IInv

LEMMA Next_Inv ==
  ASSUME IInv, [Next]_vars
  PROVE  IInv'
<1>1. CASE init \/ cleanup
  BY <1>1, init_Inv, cleanup_Inv
<1>2. CASE InitStep
  BY <1>2, init_thread_pool_Inv, pools_ready_Inv, init_stage_Inv, stages_ready_Inv,
     gen_next_stages_Inv, next_ready_Inv, started_Inv, start_Inv DEF InitStep
<1>3. CASE CleanupStep
  BY <1>3, disconnect_Inv, disconnected_Inv, delete_stage_Inv, all_disconnected_Inv,
     stages_released_Inv, pools_released_Inv, delete_pool_Inv DEF CleanupStep
<1>4. ASSUME NEW n \in Names, get_stage(n) \/ add_event(n)
      PROVE  IInv'
  BY <1>4, get_stage_Inv, add_event_Inv
<1>5. ASSUME NEW o \in DOMAIN obj, take(o) \/ Finish(o)
      PROVE  IInv'
  <2>1. o \in Objects
    BY ObjectFacts DEF IInv
  <2> QED
    BY <1>5, <2>1, take_Inv, handle_event_Inv, release_event_Inv DEF Finish
<1>6. CASE UNCHANGED vars
  BY <1>6, Stutter_Inv
<1> QED
  BY <1>1, <1>2, <1>3, <1>4, <1>5, <1>6 DEF Next

LEMMA IInvHolds == Spec => []IInv
BY Init_Inv, Next_Inv, PTL DEF Spec

\* SedaConfig keeps its types: among others, no queue and no reference count of
\* a stage falls below zero, and stages pass events on to stages only.
THEOREM TypesKept == Spec => []TypeOK
<1>1. IInv => TypeOK
  BY DEF IInv
<1> QED
  BY <1>1, IInvHolds, PTL

\* cleanup() deletes no stage that a thread is in, that is committed to an
\* event, or that a stage at work passes events on to, however the stages are
\* linked, whatever is on its way, and whenever init() gave up.
THEOREM NoUseAfterDeleteHolds == Spec => []NoUseAfterDelete
<1>1. IInv => NoUseAfterDelete
  <2>1. SUFFICES ASSUME IInv
                 PROVE  NoUseAfterDelete
    OBVIOUS
  <2>2. DOMAIN obj = Objects
    BY <2>1, ObjectFacts DEF IInv
  <2> QED
    BY <2>1, <2>2 DEF IInv, NoUseAfterDelete, LinksAlive, AtWork
<1> QED
  BY <1>1, IInvHolds, PTL

\* The map of stages loses an object only to a name that stage_names_ holds twice.
THEOREM OnlyRepeatsLeakHolds == Spec => []OnlyRepeatsLeak
<1>1. IInv => OnlyRepeatsLeak
  BY DEF IInv
<1> QED
  BY <1>1, IInvHolds, PTL

\* The assertion in clear_config(): a stage that is deleted is not connected;
\* and by then nobody has an event of it, so that ~Stage() finds it at rest.
DeletesAtRest ==
  \A n \in Names :
    pc = "delete" /\ n \in todo /\ stages_[n] # Null =>
      /\ ~obj[stages_[n]].connected
      /\ obj[stages_[n]].ref = 0 /\ obj[stages_[n]].busy = 0 /\ obj[stages_[n]].leaving = 0

\* clear_config() never fails its assertion.
THEOREM ClearConfigAsserts == Spec => []DeletesAtRest
<1>1. IInv => DeletesAtRest
  <2>1. SUFFICES ASSUME IInv, NEW n \in Names, pc = "delete", n \in todo, stages_[n] # Null
                 PROVE  /\ ~obj[stages_[n]].connected
                        /\ obj[stages_[n]].ref = 0
                        /\ obj[stages_[n]].busy = 0 /\ obj[stages_[n]].leaving = 0
    BY DEF DeletesAtRest
  <2> DEFINE s == stages_[n]
  <2>2. s \in Objects
    BY <2>1, ObjectFacts DEF IInv, Quiet
  <2> HIDE DEF s
  <2>3. ~obj[s].connected /\ ~(obj[s].ref > 0) /\ obj[s].busy + obj[s].leaving <= obj[s].ref
    BY <2>1, <2>2 DEF IInv, Quiet, Draining, Counted
  <2>4. obj[s].ref \in Nat /\ obj[s].busy \in Nat /\ obj[s].leaving \in Nat
    BY <2>1, <2>2, ObjectFacts DEF IInv
  <2>5. ~obj[s].connected /\ obj[s].ref = 0 /\ obj[s].busy = 0 /\ obj[s].leaving = 0
    BY <2>3, <2>4
  <2> QED
    BY <2>5 DEF s
<1> QED
  BY <1>1, IInvHolds, PTL

=============================================================================
