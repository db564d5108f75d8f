----------------------------- MODULE SedaConfig ------------------------------
(***************************************************************************)
(* SedaConfig (seda_config.cpp): it creates thread pools and stages from a *)
(* configuration, links and connects them, and takes them down again while *)
(* events are still on their way through the pipeline.                     *)
(*                                                                         *)
(* One thread runs init() and cleanup() step by step; the pools' threads   *)
(* take, handle and release events meanwhile.  What SedaPool shows of a    *)
(* pool is used here: add_event() with its schedule() is one step, and     *)
(* deleting a pool ends as soon as its threads are idle, unless it has     *)
(* none (kill_threads(0) waits for a signal nobody sends).                 *)
(*                                                                         *)
(* Names of stages and pools are numbers in the order of the maps.  A      *)
(* configuration is [pools, stages : sequences of names; big : pools whose *)
(* count is too big; pool, next : of a stage; made : what the factory can  *)
(* make].                                                                  *)
(***************************************************************************)
EXTENDS Integers, Sequences, FiniteSetsExt

CONSTANTS
  Configs,
  Names,       \* stage names
  PoolNames, Default,
  MaxThreads,  \* bound: threads of a pool
  MaxInits,    \* bound: calls of init()
  MaxObjects,  \* the stages that many calls make, at most
  MaxEvents    \* bound: events added from outside

ASSUME ConfigAssumption ==
  /\ Names \subseteq Nat /\ PoolNames \subseteq Nat /\ Default \in PoolNames
  /\ MaxThreads \in Nat /\ MaxInits \in Nat /\ MaxEvents \in Nat
  /\ \A c \in Configs :
       /\ c.pools \in Seq(PoolNames) /\ c.stages \in Seq(Names)
       /\ c.pool \in [Names -> PoolNames] /\ c.next \in [Names -> SUBSET Names]

VARIABLES
  cfg,          \* seda_cfg_
  thread_pools_,\* the threads of a pool; Absent when it is not in the map
  stages_,      \* the object a name maps to, Null or Absent
  stage_names_,
  obj,          \* all Stage objects ever made
  pc,           \* the thread that configures
  pos, todo,    \* where it is in a list; what its loop over a map has left
  status,       \* what init() returned last
  inits, added  \* history: calls of init(), events

configVars == <<thread_pools_, stages_, stage_names_>>
callVars == <<pc, pos, todo, status, inits>>
vars == <<cfg, configVars, obj, callVars, added>>

Absent == -1
Null == 0
NoStages == [n \in Names |-> Absent]
NoPools == [p \in PoolNames |-> Absent]

Init ==
  /\ cfg \in Configs
  /\ thread_pools_ = NoPools /\ stages_ = NoStages /\ stage_names_ = <<>>
  /\ obj = <<>>
  /\ pc = "idle" /\ pos = 1 /\ todo = {} /\ status = "none"
  /\ inits = 0 /\ added = 0

ForEach(l, S) == pc' = l /\ pos' = 1 /\ todo' = S
Goto(l) == ForEach(l, {})
Next_ == pos' = pos + 1 /\ UNCHANGED <<pc, todo>>
Fail(l) == Goto(l) /\ status' = "INITFAIL"

\* A loop over a map visits its keys in their order.
StageKeys == {n \in Names : stages_[n] # Absent}
PoolKeys == {p \in PoolNames : thread_pools_[p] # Absent}
Least(n) == n \in todo /\ \A m \in todo : n <= m
Visited(n) == todo' = todo \ {n} /\ UNCHANGED <<pc, pos>>

-----------------------------------------------------------------------------
(* init() *)

init ==
  /\ pc \in {"idle", "running"} /\ inits < MaxInits
  /\ inits' = inits + 1 /\ status' = "none"
  /\ Goto(IF stages_ = NoStages /\ thread_pools_ = NoPools THEN "pools" ELSE "aborted")
  /\ UNCHANGED <<cfg, configVars, obj, added>>

\* pthread_create() may fail: a pool has at most the threads asked for.
init_thread_pool ==
  /\ pc = "pools" /\ pos <= Len(cfg.pools)
  /\ LET p == cfg.pools[pos] IN
     \/ /\ p \in cfg.big
        /\ Fail("idle") /\ UNCHANGED thread_pools_
     \/ /\ p \notin cfg.big
        /\ \E n \in 0 .. MaxThreads : thread_pools_' = [thread_pools_ EXCEPT ![p] = n]
        /\ Next_ /\ UNCHANGED status
  /\ UNCHANGED <<cfg, stages_, stage_names_, obj, inits, added>>

pools_ready ==
  /\ pc = "pools" /\ pos > Len(cfg.pools)
  /\ IF thread_pools_[Default] = Absent
     THEN Fail("idle") /\ UNCHANGED stage_names_
     ELSE /\ Goto("stages") /\ UNCHANGED status
          /\ stage_names_' = stage_names_ \o cfg.stages
  /\ UNCHANGED <<cfg, thread_pools_, stages_, obj, inits, added>>

get_thread_pool(n) ==
  IF thread_pools_[cfg.pool[n]] = Absent THEN Default ELSE cfg.pool[n]

new_stage(n) ==
  [name |-> n, alive |-> TRUE, connected |-> FALSE, pool |-> get_thread_pool(n), next |-> {},
   queue |-> 0, ref |-> 0, busy |-> 0, leaving |-> 0]

\* make_instance() asserts that the factory knows the name.
init_stage ==
  /\ pc = "stages" /\ pos <= Len(stage_names_)
  /\ LET n == stage_names_[pos] IN
     IF n \in cfg.made
     THEN /\ obj' = Append(obj, new_stage(n))
          /\ stages_' = [stages_ EXCEPT ![n] = Len(obj) + 1]
          /\ Next_
     ELSE Goto("aborted") /\ UNCHANGED <<obj, stages_>>
  /\ UNCHANGED <<cfg, thread_pools_, stage_names_, status, inits, added>>

stages_ready ==
  /\ pc = "stages" /\ pos > Len(stage_names_)
  /\ IF stages_ = NoStages THEN Fail("delete")
     ELSE Goto("next") /\ UNCHANGED status
  /\ UNCHANGED <<cfg, configVars, obj, inits, added>>

\* push_stage() asserts that the next stage exists; the lookup creates the key.
gen_next_stages ==
  /\ pc = "next" /\ pos <= Len(stage_names_)
  /\ LET n == stage_names_[pos] IN
     IF \E m \in cfg.next[n] : stages_[m] \in {Null, Absent}
     THEN Goto("aborted") /\ UNCHANGED obj
     ELSE /\ obj' = [obj EXCEPT ![stages_[n]].next = {stages_[m] : m \in cfg.next[n]}]
          /\ Next_
  /\ UNCHANGED <<cfg, configVars, status, inits, added>>

next_ready ==
  /\ pc = "next" /\ pos > Len(stage_names_)
  /\ ForEach("start", StageKeys)
  /\ UNCHANGED <<cfg, configVars, obj, status, inits, added>>

\* start(): connect() in the order of the map; initialize() may fail.
start(n) ==
  /\ pc = "start" /\ Least(n)
  /\ \/ /\ stages_[n] = Null /\ Visited(n) /\ UNCHANGED <<obj, status>>
     \/ /\ stages_[n] # Null
        /\ obj' = [obj EXCEPT ![stages_[n]].connected = TRUE, ![stages_[n]].ref = obj[stages_[n]].queue]
        /\ Visited(n) /\ UNCHANGED status
     \/ /\ stages_[n] # Null
        /\ ForEach("disconnect", StageKeys) /\ status' = "INITFAIL" /\ UNCHANGED obj
  /\ UNCHANGED <<cfg, configVars, inits, added>>

started ==
  /\ pc = "start" /\ todo = {}
  /\ Goto("running") /\ status' = "SUCCESS"
  /\ UNCHANGED <<cfg, configVars, obj, inits, added>>

\* get_stage() creates a null entry for a name it does not find.
get_stage(n) ==
  /\ pc \in {"idle", "running"} /\ stages_[n] = Absent
  /\ stages_' = [stages_ EXCEPT ![n] = Null]
  /\ UNCHANGED <<cfg, thread_pools_, stage_names_, obj, callVars, added>>

-----------------------------------------------------------------------------
(* cleanup(), also called by the destructor *)

cleanup ==
  /\ \/ pc = "running"
     \/ pc = "idle" /\ (stages_ # NoStages \/ thread_pools_ # NoPools)
  /\ ForEach("disconnect", StageKeys)
  /\ UNCHANGED <<cfg, configVars, obj, status, inits, added>>

disconnect(n) ==
  /\ pc = "disconnect" /\ Least(n)
  /\ IF stages_[n] # Null /\ obj[stages_[n]].connected
     THEN /\ obj' = [obj EXCEPT ![stages_[n]].connected = FALSE]
          /\ pc' = "wait" /\ UNCHANGED <<pos, todo>>
     ELSE Visited(n) /\ UNCHANGED obj
  /\ UNCHANGED <<cfg, configVars, status, inits, added>>

\* The rest of disconnect(), once its wait is over.
Disconnected(n) ==
  /\ obj' = [obj EXCEPT ![stages_[n]].next = {}]
  /\ pc' = "disconnect" /\ todo' = todo \ {n}
  /\ UNCHANGED <<cfg, configVars, pos, status, inits, added>>

\* Variant: disconnect() does not wait for the events it is committed to.
disconnected_early(n) == pc = "wait" /\ Least(n) /\ Disconnected(n)

\* Variant: it waits until the queue is empty, too.
disconnected_drained(n) ==
  /\ pc = "wait" /\ Least(n)
  /\ obj[stages_[n]].ref = 0 /\ obj[stages_[n]].queue = 0
  /\ Disconnected(n)

disconnected(n) == pc = "wait" /\ Least(n) /\ obj[stages_[n]].ref = 0 /\ Disconnected(n)

all_disconnected ==
  /\ pc = "disconnect" /\ todo = {}
  /\ ForEach("delete", StageKeys)
  /\ UNCHANGED <<cfg, configVars, obj, status, inits, added>>

\* Variant: a stage with events is only taken off the map.
delete_stage_idle(n) ==
  /\ pc = "delete" /\ Least(n)
  /\ IF stages_[n] = Null THEN UNCHANGED <<obj, stages_>>
     ELSE /\ obj' = [obj EXCEPT ![stages_[n]].alive = obj[stages_[n]].queue > 0]
          /\ stages_' = [stages_ EXCEPT ![n] = Null]
  /\ Visited(n)
  /\ UNCHANGED <<cfg, thread_pools_, stage_names_, status, inits, added>>

\* clear_config(): ~Stage() deletes the events still queued.
delete_stage(n) ==
  /\ pc = "delete" /\ Least(n)
  /\ IF stages_[n] = Null THEN UNCHANGED <<obj, stages_>>
     ELSE /\ obj' = [obj EXCEPT ![stages_[n]].alive = FALSE, ![stages_[n]].queue = 0]
          /\ stages_' = [stages_ EXCEPT ![n] = Null]
  /\ Visited(n)
  /\ UNCHANGED <<cfg, thread_pools_, stage_names_, status, inits, added>>

stages_released ==
  /\ pc = "delete" /\ todo = {}
  /\ stages_' = NoStages /\ ForEach("kill", PoolKeys)
  /\ UNCHANGED <<cfg, thread_pools_, stage_names_, obj, status, inits, added>>

\* Threads of pool p that are with an event.
Busy(p) ==
  MapThenSumSet(LAMBDA i : obj[i].busy + obj[i].leaving,
                {i \in DOMAIN obj : obj[i].pool = p})

delete_pool(p) ==
  /\ pc = "kill" /\ Least(p)
  /\ thread_pools_[p] > 0 /\ Busy(p) = 0
  /\ thread_pools_' = [thread_pools_ EXCEPT ![p] = Absent]
  /\ Visited(p)
  /\ UNCHANGED <<cfg, stages_, stage_names_, obj, status, inits, added>>

pools_released ==
  /\ pc = "kill" /\ todo = {}
  /\ Goto("idle")
  /\ UNCHANGED <<cfg, configVars, obj, status, inits, added>>

-----------------------------------------------------------------------------
(* Stages at work: the threads of a pool serve the stages assigned to it.  *)

\* Stage::add_event() on object o, and the schedule() it leads to.
AddTo(os, o) ==
  [os EXCEPT ![o].queue = @ + 1, ![o].ref = @ + (IF os[o].connected THEN 1 ELSE 0)]

\* Called by the server's threads, which nothing stops while stages disconnect.
add_event(n) ==
  /\ pc \in {"running", "disconnect", "wait"} /\ stages_[n] \notin {Null, Absent} /\ added < MaxEvents
  /\ obj' = AddTo(obj, stages_[n]) /\ added' = added + 1
  /\ UNCHANGED <<cfg, configVars, callVars>>

take(o) ==
  /\ obj[o].ref > obj[o].busy + obj[o].leaving
  /\ thread_pools_[obj[o].pool] > Busy(obj[o].pool)
  /\ obj' = [obj EXCEPT ![o].queue = @ - 1, ![o].busy = @ + 1]
  /\ UNCHANGED <<cfg, configVars, callVars, added>>

\* handle_event() is done with the event, or passes it on.
handle_event(o) ==
  LET os == [obj EXCEPT ![o].busy = @ - 1, ![o].leaving = @ + 1] IN
  /\ obj[o].busy > 0
  /\ obj' = os \/ \E t \in obj[o].next : obj' = AddTo(os, t)
  /\ UNCHANGED <<cfg, configVars, callVars, added>>

release_event(o) ==
  /\ obj[o].leaving > 0
  /\ obj' = [obj EXCEPT ![o].leaving = @ - 1, ![o].ref = @ - 1]
  /\ UNCHANGED <<cfg, configVars, callVars, added>>

-----------------------------------------------------------------------------
InitStep ==
  \/ init_thread_pool \/ pools_ready \/ init_stage \/ stages_ready
  \/ gen_next_stages \/ next_ready \/ started
  \/ \E n \in Names : start(n)

CleanupStep ==
  \/ \E n \in Names : disconnect(n) \/ disconnected(n) \/ delete_stage(n)
  \/ all_disconnected \/ stages_released \/ pools_released
  \/ \E p \in PoolNames : delete_pool(p)

Finish(o) == handle_event(o) \/ release_event(o)

Next ==
  \/ init \/ cleanup \/ InitStep \/ CleanupStep
  \/ \E n \in Names : get_stage(n) \/ add_event(n)
  \/ \E o \in DOMAIN obj : take(o) \/ Finish(o)

\* init() and cleanup(), once called, go on; so does a thread that has an event.
\* A free thread takes the oldest entry of its pool's run queue, so that no
\* stage is passed over for ever.
Spec ==
  /\ Init /\ [][Next]_vars
  /\ WF_vars(InitStep \/ CleanupStep)
  /\ \A o \in 1 .. MaxObjects :
       WF_vars(o \in DOMAIN obj /\ Finish(o)) /\ SF_vars(o \in DOMAIN obj /\ take(o))

-----------------------------------------------------------------------------
Locations ==
  {"idle", "pools", "stages", "next", "start", "running", "disconnect", "wait", "delete", "kill",
   "aborted"}

StageObject ==
  [name : Names, alive : BOOLEAN, connected : BOOLEAN, pool : PoolNames, next : SUBSET Nat,
   queue : Nat, ref : Nat, busy : Nat, leaving : Nat]

TypeOK ==
  /\ cfg \in Configs
  /\ thread_pools_ \in [PoolNames -> Absent .. MaxThreads]
  /\ stages_ \in [Names -> Absent .. Len(obj)]
  /\ stage_names_ \in Seq(Names)
  /\ obj \in Seq(StageObject)
  /\ \A i \in DOMAIN obj : obj[i].next \subseteq DOMAIN obj
  /\ pc \in Locations /\ pos \in Nat \ {0} /\ todo \subseteq Names \cup PoolNames
  /\ status \in {"none", "SUCCESS", "INITFAIL"}
  /\ inits \in 0 .. MaxInits /\ added \in 0 .. MaxEvents

(* A stage is deleted only when no thread is with one of its events, none  *)
(* is committed to come, and no stage still at work can pass an event on   *)
(* to it: cleanup() disconnects all stages before it deletes the first.    *)
NoUseAfterDelete ==
  \A i \in DOMAIN obj :
    obj[i].ref > 0 => obj[i].alive /\ \A j \in obj[i].next : obj[j].alive

(* A Stage object that the map has lost belongs to a name that             *)
(* stage_names_ holds twice: a second init() appends the names again.      *)
OnlyRepeatsLeak ==
  \A i \in DOMAIN obj :
    obj[i].alive /\ (\A n \in Names : stages_[n] # i) =>
      \E j, k \in DOMAIN stage_names_ :
        j # k /\ stage_names_[j] = obj[i].name /\ stage_names_[k] = obj[i].name

(* cleanup() leaves no stage behind (seda_config.h:120).                   *)
CleanupDeletesAll ==
  pc = "idle" => \A i \in DOMAIN obj : ~obj[i].alive

(* An init() that fails leaves no pool behind (seda_config.h:113).  Not so *)
(* when init_thread_pool() gives up.                                       *)
InitFailLeavesNothing ==
  pc = "idle" /\ status = "INITFAIL" => thread_pools_ = NoPools

(* init() and cleanup() return, whatever is on its way through the         *)
(* pipeline and however stages are linked, as long as each pool got a      *)
(* thread.                                                                 *)
CallsReturn ==
  []<>(pc \in {"idle", "running", "aborted"} \/ \E p \in PoolNames : thread_pools_[p] = 0)

=============================================================================
