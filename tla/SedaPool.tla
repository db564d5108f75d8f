------------------------------ MODULE SedaPool ------------------------------
(***************************************************************************)
(* The SEDA runtime: stages with their event queues (Stage, stage.cpp) and *)
(* the thread pool that serves them (Threadpool, thread_pool.cpp), with    *)
(* the internal KillThreadStage that retires service threads.              *)
(*                                                                         *)
(* Threads: service threads of the pool (Workers), threads that call       *)
(* add_event (Producers) and threads that connect and disconnect stages    *)
(* and resize the pool (Controllers).  A critical section of list_mutex_   *)
(* or run_mutex_ is one atomic step; a COND_WAIT ends the step and the     *)
(* reacquisition of the mutex begins another.  thread_mutex_ is held       *)
(* across several steps of kill_threads(), so its holder is a variable.    *)
(***************************************************************************)
EXTENDS Integers, Sequences, FiniteSets

CONSTANTS
  Stages,          \* the stages of the pipeline
  Killer,          \* the pool's own KillThreadStage, killer_
  Workers,         \* identities of service threads: at most this many at once
  Producers,       \* threads that add events from outside the pool
  Controllers,     \* threads that connect, disconnect, add and kill threads
  Events,          \* identities of pipeline events: at most this many at once
  KillEvent,       \* the event on killer_'s queue
  None,            \* no stage, no event, no thread
  InitialThreads,  \* the workers the pool's constructor managed to start
  Pipeline,        \* next_stage_list_ of a configured stage
  AddSizes,        \* arguments of add_threads()
  KillSizes,       \* arguments of kill_threads()
  SpuriousConds    \* condition variables that may wake up spuriously

AllStages == Stages \cup {Killer}
Threads == Workers \cup Producers \cup Controllers

ASSUME ThreadAssumption ==
  /\ IsFiniteSet(Workers) /\ IsFiniteSet(Producers) /\ IsFiniteSet(Controllers)
  /\ Workers \cap Producers = {}
  /\ Workers \cap Controllers = {}
  /\ Producers \cap Controllers = {}
  /\ InitialThreads \subseteq Workers
  /\ None \notin Threads

ASSUME StageAssumption ==
  /\ Killer \notin Stages
  /\ None \notin AllStages
  /\ KillEvent \notin Events
  /\ None \notin Events \cup {KillEvent}
  /\ Pipeline \in [Stages -> SUBSET Stages]

ASSUME SizeAssumption ==
  /\ AddSizes \subseteq Nat
  /\ KillSizes \subseteq Nat
  /\ SpuriousConds \subseteq {"run", "disconnect", "thread"}

VARIABLES
  \* Stage
  event_list_,      \* [AllStages -> Seq(event)]
  connected_,       \* [AllStages -> BOOLEAN]
  event_ref_,       \* [AllStages -> Int]: outstanding scheduled events
  th_pool_,         \* [AllStages -> BOOLEAN]: th_pool_ is not NULL and
                    \* next_stage_list_ is in place (cleared together)
  \* Threadpool
  run_queue_,       \* Seq(AllStages)
  n_idles_,         \* workers inside the COND_WAIT of run_thread()
  nthreads_,
  threads_to_kill_,
  thread_mutex_,    \* the controller holding it, or None
  pool_key,         \* does pool_ptr_key_ work (it is never created)?
  \* threads
  wpc,              \* control state of a worker
  serving,          \* the stage a worker took from the run queue
  ev,               \* the event a worker is handling
  adding,           \* the stage a thread has yet to schedule() in add_event()
  cpc,              \* control state of a controller
  target,           \* the stage a controller is connecting or disconnecting
  backlog,          \* schedule() calls connect() still has to make
  gen,              \* kill events kill_threads() still has to generate
  kills             \* kill events of the kill_threads() call in all

stageVars == <<event_list_, connected_, event_ref_, th_pool_>>
runVars == <<run_queue_, n_idles_>>
countVars == <<nthreads_, threads_to_kill_, thread_mutex_>>
workVars == <<wpc, serving, ev>>
ctrlVars == <<cpc, target, backlog, gen, kills>>
vars == <<stageVars, runVars, countVars, pool_key, workVars, adding, ctrlVars>>

\* Control points of run_thread() and KillThreadStage::handle_event().
WorkerPC == {"none", "loop", "wait", "woken", "popped", "handle", "release",
             "kill", "killed"}
\* Control points of connect(), disconnect() and kill_threads().
ControllerPC == {"ready", "connect", "dwait", "dwoken", "kgen", "kwait",
                 "kwoken", "aborted"}

TypeOK ==
  /\ event_list_ \in [AllStages -> Seq(Events \cup {KillEvent})]
  /\ connected_ \in [AllStages -> BOOLEAN]
  /\ event_ref_ \in [AllStages -> Int]
  /\ th_pool_ \in [AllStages -> BOOLEAN]
  /\ run_queue_ \in Seq(AllStages)
  /\ n_idles_ \in Int
  /\ nthreads_ \in Int
  /\ threads_to_kill_ \in Int
  /\ thread_mutex_ \in Controllers \cup {None}
  /\ pool_key \in BOOLEAN
  /\ wpc \in [Workers -> WorkerPC]
  /\ serving \in [Workers -> AllStages \cup {None}]
  /\ ev \in [Workers -> Events \cup {KillEvent, None}]
  /\ adding \in [Threads -> AllStages \cup {None}]
  /\ cpc \in [Controllers -> ControllerPC]
  /\ target \in [Controllers -> AllStages \cup {None}]
  /\ backlog \in [Controllers -> Nat]
  /\ gen \in [Controllers -> Nat]
  /\ kills \in [Controllers -> Nat]

(***************************************************************************)
(* The constructed pool: its first threads run, no stage is connected.     *)
(***************************************************************************)
Init ==
  /\ event_list_ = [s \in AllStages |-> <<>>]
  /\ connected_ = [s \in AllStages |-> FALSE]
  /\ event_ref_ = [s \in AllStages |-> 0]
  /\ th_pool_ = [s \in AllStages |-> FALSE]
  /\ run_queue_ = <<>>
  /\ n_idles_ = 0
  /\ nthreads_ = Cardinality(InitialThreads)
  /\ threads_to_kill_ = 0
  /\ thread_mutex_ = None
  /\ pool_key \in BOOLEAN
  /\ wpc = [w \in Workers |-> IF w \in InitialThreads THEN "loop" ELSE "none"]
  /\ serving = [w \in Workers |-> None]
  /\ ev = [w \in Workers |-> None]
  /\ adding = [t \in Threads |-> None]
  /\ cpc = [c \in Controllers |-> "ready"]
  /\ target = [c \in Controllers |-> None]
  /\ backlog = [c \in Controllers |-> 0]
  /\ gen = [c \in Controllers |-> 0]
  /\ kills = [c \in Controllers |-> 0]

-----------------------------------------------------------------------------
(* Stage::add_event, up to the unlock: a connected stage takes a reference *)
(* and leaves the caller with a schedule() to make.                        *)
add_event(t, s, e) ==
  /\ event_list_' = [event_list_ EXCEPT ![s] = Append(@, e)]
  /\ IF connected_[s]
       THEN /\ event_ref_' = [event_ref_ EXCEPT ![s] = @ + 1]
            /\ adding' = [adding EXCEPT ![t] = s]
       ELSE UNCHANGED <<event_ref_, adding>>

Idle == {w \in Workers : wpc[w] = "wait"}

\* COND_SIGNAL(&run_cond_): some waiting worker wakes up, if there is one.
signal_run ==
  IF Idle = {} THEN UNCHANGED wpc
               ELSE \E w \in Idle : wpc' = [wpc EXCEPT ![w] = "woken"]

\* get_thread_pool_ptr() == this
same_pool(t) == pool_key /\ t \in Workers

push_stage(s, signal) ==
  /\ run_queue_' = Append(run_queue_, s)
  /\ IF signal THEN signal_run ELSE UNCHANGED wpc

\* Variants of schedule() with a fault in the decision to signal.
schedule_only_when_empty(t, s) == push_stage(s, run_queue_ = <<>> /\ n_idles_ > 0)
schedule_off_by_one(t, s) == push_stage(s, n_idles_ > 1)

\* Threadpool::schedule
schedule(t, s) ==
  push_stage(s, (run_queue_ # <<>> \/ ~same_pool(t)) /\ n_idles_ > 0)

\* COND_SIGNAL(&disconnect_cond_) of stage s.
DisconnectWaiters(s) == {c \in Controllers : cpc[c] = "dwait" /\ target[c] = s}

drop_reference(s, signal) ==
  /\ event_ref_' = [event_ref_ EXCEPT ![s] = @ - 1]
  /\ IF signal /\ DisconnectWaiters(s) # {}
       THEN \E c \in DisconnectWaiters(s) : cpc' = [cpc EXCEPT ![c] = "dwoken"]
       ELSE UNCHANGED cpc

\* Variant: the count is tested before it is decremented.
release_event_early_test(s) == drop_reference(s, ~connected_[s] /\ event_ref_[s] = 0)

\* Stage::release_event
release_event(s) == drop_reference(s, ~connected_[s] /\ event_ref_[s] = 1)

-----------------------------------------------------------------------------
(* The end of add_event(), for whichever thread called it.                 *)
Schedule(t) ==
  /\ adding[t] # None
  /\ schedule(t, adding[t])
  /\ adding' = [adding EXCEPT ![t] = None]
  /\ UNCHANGED <<stageVars, n_idles_, countVars, pool_key, serving, ev, ctrlVars>>

InUse(e) ==
  \/ \E s \in AllStages : \E i \in DOMAIN event_list_[s] : event_list_[s][i] = e
  \/ \E w \in Workers : ev[w] = e

\* A thread outside the pool (the server's event loop) creates and adds an event.
ProducerAdd(p, s, e) ==
  /\ adding[p] = None
  /\ ~InUse(e)
  /\ add_event(p, s, e)
  /\ UNCHANGED <<connected_, th_pool_, runVars, countVars, pool_key, workVars,
                 ctrlVars>>

-----------------------------------------------------------------------------
(* Threadpool::run_thread                                                  *)

Woken(w) == IF wpc[w] = "woken" THEN 1 ELSE 0

WorkerWait(w) ==
  /\ wpc[w] \in {"loop", "woken"}
  /\ run_queue_ = <<>>
  /\ n_idles_' = n_idles_ + 1 - Woken(w)
  /\ wpc' = [wpc EXCEPT ![w] = "wait"]
  /\ UNCHANGED <<stageVars, run_queue_, countVars, pool_key, serving, ev, adding,
                 ctrlVars>>

pop_stage(w, idles) ==
  /\ wpc[w] \in {"loop", "woken"}
  /\ run_queue_ # <<>>
  /\ n_idles_' = idles
  /\ serving' = [serving EXCEPT ![w] = Head(run_queue_)]
  /\ run_queue_' = Tail(run_queue_)
  /\ wpc' = [wpc EXCEPT ![w] = "popped"]
  /\ UNCHANGED <<stageVars, countVars, pool_key, ev, adding, ctrlVars>>

\* Variant: n_idles_ is not decremented after the wait.
WorkerPop_still_idle(w) == pop_stage(w, n_idles_)

WorkerPop(w) == pop_stage(w, n_idles_ - Woken(w))

dispatch(w, e, rest) ==
  /\ wpc[w] = "popped"
  /\ event_list_[serving[w]] # <<>>
  /\ ev' = [ev EXCEPT ![w] = e]
  /\ event_list_' = [event_list_ EXCEPT ![serving[w]] = rest]
  /\ wpc' = [wpc EXCEPT ![w] = IF serving[w] = Killer THEN "kill" ELSE "handle"]
  /\ UNCHANGED <<connected_, event_ref_, th_pool_, runVars, countVars, pool_key,
                 serving, adding, ctrlVars>>

queue_of(w) == event_list_[serving[w]]

\* Variants: the event stays on the queue; the newest event is taken.
RemoveEvent_no_pop(w) == dispatch(w, Head(queue_of(w)), queue_of(w))
RemoveEvent_newest(w) ==
  dispatch(w, queue_of(w)[Len(queue_of(w))],
           SubSeq(queue_of(w), 1, Len(queue_of(w)) - 1))

\* Stage::remove_event, then the dispatch to handle_event().
RemoveEvent(w) == dispatch(w, Head(queue_of(w)), Tail(queue_of(w)))

\* A stage's handle_event() that completes the event ...
HandleDone(w) ==
  /\ wpc[w] = "handle"
  /\ ev' = [ev EXCEPT ![w] = None]
  /\ wpc' = [wpc EXCEPT ![w] = "release"]
  /\ UNCHANGED <<stageVars, runVars, countVars, pool_key, serving, adding, ctrlVars>>

\* ... and one that passes it on to a stage of its next_stage_list_.
HandleForward(w, s) ==
  /\ wpc[w] = "handle"
  /\ th_pool_[serving[w]]
  /\ s \in Pipeline[serving[w]]
  /\ add_event(w, s, ev[w])
  /\ ev' = [ev EXCEPT ![w] = None]
  /\ wpc' = [wpc EXCEPT ![w] = "release"]
  /\ UNCHANGED <<connected_, th_pool_, runVars, countVars, pool_key, serving,
                 ctrlVars>>

ReleaseEvent(w) ==
  /\ wpc[w] = "release"
  /\ adding[w] = None
  /\ release_event(serving[w])
  /\ serving' = [serving EXCEPT ![w] = None]
  /\ wpc' = [wpc EXCEPT ![w] = "loop"]
  /\ UNCHANGED <<event_list_, connected_, th_pool_, runVars, countVars, pool_key,
                 ev, adding, target, backlog, gen, kills>>

KillWaiters == {c \in Controllers : cpc[c] = "kwait"}

count_kill(w, last) ==
  /\ wpc[w] = "kill"
  /\ thread_mutex_ = None
  /\ nthreads_' = nthreads_ - 1
  /\ threads_to_kill_' = threads_to_kill_ - 1
  /\ IF last /\ KillWaiters # {}
       THEN \E c \in KillWaiters : cpc' = [cpc EXCEPT ![c] = "kwoken"]
       ELSE UNCHANGED cpc
  /\ wpc' = [wpc EXCEPT ![w] = "killed"]
  /\ UNCHANGED <<stageVars, runVars, thread_mutex_, pool_key, serving, ev, adding,
                 target, backlog, gen, kills>>

\* Variant: the count is tested before it is decremented.
ThreadKill_early_test(w) == count_kill(w, threads_to_kill_ = 0)

\* Threadpool::thread_kill, the first call of KillThreadStage::handle_event.
ThreadKill(w) == count_kill(w, threads_to_kill_ = 1)

\* The rest of it: event->done(), release_event() and pthread_exit().
KillExit(w) ==
  /\ wpc[w] = "killed"
  /\ release_event(serving[w])
  /\ serving' = [serving EXCEPT ![w] = None]
  /\ ev' = [ev EXCEPT ![w] = None]
  /\ wpc' = [wpc EXCEPT ![w] = "none"]
  /\ UNCHANGED <<event_list_, connected_, th_pool_, runVars, countVars, pool_key,
                 adding, target, backlog, gen, kills>>

-----------------------------------------------------------------------------
(* Stage::connect and Stage::disconnect.  A stage has one owner at a time: *)
(* SedaConfig connects and disconnects each stage from a single thread.    *)

Owned(s) == \E c \in Controllers : target[c] = s

\* SedaConfig::init_stages: set_pool() and push_stage()
SetPool(c, s) ==
  /\ cpc[c] = "ready"
  /\ ~Owned(s)
  /\ ~connected_[s] /\ ~th_pool_[s]
  /\ th_pool_' = [th_pool_ EXCEPT ![s] = TRUE]
  /\ UNCHANGED <<event_list_, connected_, event_ref_, runVars, countVars, pool_key,
                 workVars, adding, ctrlVars>>

connect_with(c, s, refs, owed) ==
  /\ backlog' = [backlog EXCEPT ![c] = owed]
  /\ event_ref_' = [event_ref_ EXCEPT ![s] = refs]
  /\ connected_' = [connected_ EXCEPT ![s] = TRUE]
  /\ target' = [target EXCEPT ![c] = s]

\* Variants: the backlog takes no references; the backlog is forgotten.
begin_connect_no_refs(c, s) == connect_with(c, s, event_ref_[s], Len(event_list_[s]))
begin_connect_no_backlog(c, s) == connect_with(c, s, 0, 0)

\* The critical section of connect(): the queued events become the backlog.
begin_connect(c, s) == connect_with(c, s, Len(event_list_[s]), Len(event_list_[s]))

Connect(c, s) ==
  /\ cpc[c] = "ready"
  /\ ~Owned(s)
  /\ ~connected_[s] /\ th_pool_[s]
  /\ begin_connect(c, s)
  /\ cpc' = [cpc EXCEPT ![c] = "connect"]
  /\ UNCHANGED <<event_list_, th_pool_, runVars, countVars, pool_key, workVars,
                 adding, gen, kills>>

schedule_backlog(c, more) ==
  /\ more
  /\ schedule(c, target[c])
  /\ backlog' = [backlog EXCEPT ![c] = @ - 1]
  /\ UNCHANGED <<stageVars, n_idles_, countVars, pool_key, serving, ev, adding,
                 cpc, target, gen, kills>>

\* Variant: the loop runs once more.
ConnectSchedule_once_more(c) ==
  schedule_backlog(c, cpc[c] \in {"connect", "kgen"} /\ backlog[c] >= 0)

\* One schedule() of connect()'s loop over the backlog.
ConnectSchedule(c) == schedule_backlog(c, backlog[c] > 0)

ConnectReturn(c) ==
  /\ cpc[c] = "connect"
  /\ backlog[c] = 0
  /\ cpc' = [cpc EXCEPT ![c] = "ready"]
  /\ target' = [target EXCEPT ![c] = None]
  /\ UNCHANGED <<stageVars, runVars, countVars, pool_key, workVars, adding, backlog,
                 gen, kills>>

wait_if(c, s, busy) ==
  IF busy
    THEN /\ cpc' = [cpc EXCEPT ![c] = "dwait"]
         /\ target' = [target EXCEPT ![c] = s]
         /\ UNCHANGED th_pool_
    ELSE /\ cpc' = [cpc EXCEPT ![c] = "ready"]
         /\ target' = [target EXCEPT ![c] = None]
         /\ th_pool_' = [th_pool_ EXCEPT ![s] = FALSE]

\* Variant: the wait ends one reference too early.
wait_or_finish_off_by_one(c, s) == wait_if(c, s, event_ref_[s] > 1)

\* The loop of disconnect(): wait while references are out, else let go.
wait_or_finish(c, s) == wait_if(c, s, event_ref_[s] > 0)

begin_disconnect(c, s) ==
  /\ connected_' = [connected_ EXCEPT ![s] = FALSE]
  /\ wait_or_finish(c, s)

Disconnect(c, s) ==
  /\ cpc[c] = "ready"
  /\ ~Owned(s)
  /\ connected_[s]
  /\ begin_disconnect(c, s)
  /\ UNCHANGED <<event_list_, event_ref_, runVars, countVars, pool_key, workVars,
                 adding, backlog, gen, kills>>

\* disconnect() resumes; when it was called by kill_threads(), its return
\* is followed by the unlock of thread_mutex_.
DisconnectResume(c) ==
  /\ cpc[c] = "dwoken"
  /\ wait_or_finish(c, target[c])
  /\ thread_mutex_' = IF target[c] = Killer /\ event_ref_[Killer] <= 0
                        THEN None ELSE thread_mutex_
  /\ UNCHANGED <<event_list_, connected_, event_ref_, runVars, nthreads_,
                 threads_to_kill_, pool_key, workVars, adding, backlog, gen, kills>>

-----------------------------------------------------------------------------
(* Threadpool::add_threads and Threadpool::kill_threads                    *)

\* pthread_create may fail: any number of threads up to n is started.
AddThreads(c, n) ==
  /\ cpc[c] = "ready"
  /\ thread_mutex_ = None
  /\ \E W \in SUBSET {w \in Workers : wpc[w] = "none"} :
       /\ W # {} /\ Cardinality(W) <= n
       /\ wpc' = [w \in Workers |-> IF w \in W THEN "loop" ELSE wpc[w]]
       /\ nthreads_' = nthreads_ + Cardinality(W)
  /\ UNCHANGED <<stageVars, runVars, threads_to_kill_, thread_mutex_, pool_key,
                 serving, ev, adding, ctrlVars>>

\* kill_threads(n) past its early return; set_pool() and connect() assert
\* that killer_ is not connected.
KillThreads(c, n) ==
  /\ cpc[c] = "ready"
  /\ thread_mutex_ = None
  /\ ~(threads_to_kill_ > 0)
  /\ IF connected_[Killer]
       THEN /\ cpc' = [cpc EXCEPT ![c] = "aborted"]
            /\ UNCHANGED <<thread_mutex_, stageVars, target, backlog, gen, kills>>
       ELSE /\ cpc' = [cpc EXCEPT ![c] = "kgen"]
            /\ thread_mutex_' = c
            /\ th_pool_' = [th_pool_ EXCEPT ![Killer] = TRUE]
            /\ begin_connect(c, Killer)
            /\ LET i == IF n > nthreads_ THEN nthreads_ ELSE n
               IN  /\ gen' = [gen EXCEPT ![c] = i]
                   /\ kills' = [kills EXCEPT ![c] = i]
            /\ UNCHANGED event_list_
  /\ UNCHANGED <<runVars, nthreads_, threads_to_kill_, pool_key, workVars, adding>>

\* One iteration of gen_kill_thread_events().
GenKillEvent(c) ==
  /\ cpc[c] = "kgen"
  /\ backlog[c] = 0
  /\ adding[c] = None
  /\ gen[c] > 0
  /\ add_event(c, Killer, KillEvent)
  /\ gen' = [gen EXCEPT ![c] = @ - 1]
  /\ UNCHANGED <<connected_, th_pool_, runVars, countVars, pool_key, workVars,
                 cpc, target, backlog, kills>>

begin_kill_wait(c, i) ==
  /\ cpc[c] = "kgen"
  /\ backlog[c] = 0
  /\ adding[c] = None
  /\ gen[c] = 0
  /\ threads_to_kill_' = i
  /\ thread_mutex_' = None
  /\ cpc' = [cpc EXCEPT ![c] = "kwait"]
  /\ target' = [target EXCEPT ![c] = None]
  /\ UNCHANGED <<stageVars, runVars, nthreads_, pool_key, workVars, adding, backlog,
                 gen, kills>>

\* Variant: every thread of the pool is expected to die.
KillWait_all(c) == begin_kill_wait(c, nthreads_)

\* threads_to_kill_ = i, then COND_WAIT, which releases thread_mutex_.
KillWait(c) == begin_kill_wait(c, kills[c])

\* COND_WAIT returns with thread_mutex_ held and killer_ is disconnected.
KillResume(c) ==
  /\ cpc[c] = "kwoken"
  /\ thread_mutex_ = None
  /\ begin_disconnect(c, Killer)
  /\ thread_mutex_' = IF event_ref_[Killer] > 0 THEN c ELSE None
  /\ UNCHANGED <<event_list_, event_ref_, runVars, nthreads_, threads_to_kill_,
                 pool_key, workVars, adding, backlog, gen, kills>>

-----------------------------------------------------------------------------
(* A wakeup without a signal, which POSIX allows of every COND_WAIT.       *)
SpuriousRun(w) ==
  /\ "run" \in SpuriousConds
  /\ wpc[w] = "wait"
  /\ wpc' = [wpc EXCEPT ![w] = "woken"]
  /\ UNCHANGED <<stageVars, runVars, countVars, pool_key, serving, ev, adding,
                 ctrlVars>>

SpuriousController(c) ==
  /\ \/ /\ "disconnect" \in SpuriousConds /\ cpc[c] = "dwait"
        /\ cpc' = [cpc EXCEPT ![c] = "dwoken"]
     \/ /\ "thread" \in SpuriousConds /\ cpc[c] = "kwait"
        /\ cpc' = [cpc EXCEPT ![c] = "kwoken"]
  /\ UNCHANGED <<stageVars, runVars, countVars, pool_key, workVars, adding, target,
                 backlog, gen, kills>>

-----------------------------------------------------------------------------
\* What a worker does of its own accord.
WorkerStep(w) ==
  \/ WorkerWait(w)
  \/ WorkerPop(w)
  \/ RemoveEvent(w)
  \/ HandleDone(w)
  \/ \E s \in Stages : HandleForward(w, s)
  \/ ReleaseEvent(w)
  \/ ThreadKill(w)
  \/ KillExit(w)

\* How a controller carries on with a call it has begun.
ControllerStep(c) ==
  \/ ConnectSchedule(c)
  \/ ConnectReturn(c)
  \/ DisconnectResume(c)
  \/ GenKillEvent(c)
  \/ KillWait(c)
  \/ KillResume(c)

\* The calls a controller may begin.
ControllerCall(c) ==
  \/ \E s \in Stages : SetPool(c, s) \/ Connect(c, s) \/ Disconnect(c, s)
  \/ \E n \in AddSizes : AddThreads(c, n)
  \/ \E n \in KillSizes : KillThreads(c, n)

Next ==
  \/ \E t \in Threads : Schedule(t)
  \/ \E p \in Producers, s \in Stages, e \in Events : ProducerAdd(p, s, e)
  \/ \E w \in Workers : WorkerStep(w) \/ SpuriousRun(w)
  \/ \E c \in Controllers :
       ControllerStep(c) \/ ControllerCall(c) \/ SpuriousController(c)

Spec == Init /\ [][Next]_vars

\* Threads that can run do run, handlers return; nobody has to add events,
\* connect, disconnect or resize the pool.
Fairness ==
  /\ \A t \in Threads : WF_vars(Schedule(t))
  /\ \A w \in Workers : WF_vars(WorkerStep(w))
  /\ \A c \in Controllers : WF_vars(ControllerStep(c))

FairSpec == Spec /\ Fairness

-----------------------------------------------------------------------------
(* Bookkeeping the properties are stated with.                             *)

Occurrences(s) == {i \in DOMAIN run_queue_ : run_queue_[i] = s}
Adders(s) == {t \in Threads : adding[t] = s}
Servers(s) == {w \in Workers : serving[w] = s}
\* Servers that have not removed their event from the queue yet.
Poppers(s) == {w \in Workers : serving[w] = s /\ wpc[w] = "popped"}
Connecting(s) == {c \in Controllers : target[c] = s /\ cpc[c] \in {"connect", "kgen"}}
\* schedule() calls that connect() still owes stage s.
Owed(s) == IF Connecting(s) = {} THEN 0
           ELSE backlog[CHOOSE c \in Connecting(s) : TRUE]
\* Events that are promised a service thread and still on the queue.
Tickets(s) == Cardinality(Occurrences(s)) + Cardinality(Adders(s))
              + Cardinality(Poppers(s)) + Owed(s)

(* Stage::event_ref_ counts exactly the outstanding work of the stage:     *)
(* adders between their unlock and their schedule(), entries of the run    *)
(* queue, the rest of connect()'s backlog and workers that have not        *)
(* released it.  A miscount lets disconnect() return too early or never.   *)
RefCount ==
  \A s \in AllStages :
    event_ref_[s] = Cardinality(Occurrences(s)) + Cardinality(Adders(s))
                    + Cardinality(Servers(s)) + Owed(s)

(* The queue holds an event for every service it is promised, and a        *)
(* connected stage promises a service to every queued event: the asserts   *)
(* of schedule() and remove_event() ("queue not empty") cannot fail, and   *)
(* no event is stranded on the queue of a connected stage.                 *)
QueueCoversTickets ==
  \A s \in AllStages :
    /\ Len(event_list_[s]) >= Tickets(s)
    /\ connected_[s] => Len(event_list_[s]) = Tickets(s)

(* Whoever still uses a stage (an adder about to read th_pool_ outside the *)
(* lock, a worker in its handler) finds its th_pool_ and next_stage_list_  *)
(* in place: disconnect() never clears them under a user.                  *)
NoUseAfterDisconnect ==
  \A s \in AllStages :
    (Adders(s) \cup Servers(s) # {} \/ Occurrences(s) # {}) => th_pool_[s]

Places(e, s) == {<<s, i>> : i \in {j \in DOMAIN event_list_[s] : event_list_[s][j] = e}}
Handlers(e) == {<<w, 0>> : w \in {x \in Workers : ev[x] = e}}

(* An event is on one queue once, or in the hands of one worker: it is     *)
(* never handled twice, concurrently or after its deletion.                *)
EventOwnedOnce ==
  \A e \in Events :
    Cardinality((UNION {Places(e, s) : s \in AllStages}) \cup Handlers(e)) <= 1

\* Workers that will look at the run queue again without a signal.
Awake == {w \in Workers :
            \/ wpc[w] \in {"loop", "woken"}
            \/ wpc[w] \in {"popped", "handle", "release"} /\ serving[w] # Killer}

(* No lost wakeup: while a worker sleeps on run_cond_, there are as many   *)
(* awake workers as entries on the run queue, whichever way schedule()     *)
(* decided about the signal (an idle count that includes workers already   *)
(* signalled, the same-pool shortcut) and whichever workers are killed.    *)
NoLostWakeup == Idle # {} => Cardinality(Awake) >= Len(run_queue_)

Live == {w \in Workers : wpc[w] \notin {"none", "killed"}}
Idling == {w \in Workers : wpc[w] \in {"wait", "woken"}}

(* nthreads_ is the number of live threads and n_idles_ the number of      *)
(* workers inside COND_WAIT, across creation, killing and wakeups.         *)
ThreadCounts == nthreads_ = Cardinality(Live) /\ n_idles_ = Cardinality(Idling)

(* Once kill_threads() waits, threads_to_kill_ is the number of kill       *)
(* events no thread has acted upon; outside a kill transaction there is    *)
(* none, so no thread dies that nobody asked to die.                       *)
KillCount ==
  (\A c \in Controllers : cpc[c] # "kgen") =>
     threads_to_kill_ = Len(event_list_[Killer])
                        + Cardinality({w \in Workers : wpc[w] = "kill"})

(* set_pool() and connect() never find killer_ connected: a kill           *)
(* transaction begins only after the previous one is over ("allow only one *)
(* thread kill transaction at a time", thread_pool.cpp:118).               *)
OneKillTransaction == \A c \in Controllers : cpc[c] # "aborted"

(* An event on the queue of a connected stage is taken off it by a worker, *)
(* provided the pool has threads again and again: run_queue_ is served in  *)
(* order, whatever is killed, added, connected or disconnected meanwhile.  *)
EventuallyServed ==
  []<>(nthreads_ > 0) =>
    \A s \in Stages, e \in Events :
      (connected_[s] /\ \E i \in DOMAIN event_list_[s] : event_list_[s][i] = e)
        ~> ~\E i \in DOMAIN event_list_[s] : event_list_[s][i] = e

(* disconnect() of a pipeline stage returns, provided the pool has threads *)
(* again and again, although other threads keep adding events to it.       *)
DisconnectReturns ==
  []<>(nthreads_ > 0) =>
    \A c \in Controllers :
      (cpc[c] = "dwait" /\ target[c] \in Stages) ~> cpc[c] = "ready"

(* kill_threads() with at least one thread to kill returns.                *)
KillReturns ==
  \A c \in Controllers :
    (cpc[c] = "kwait" /\ kills[c] > 0) ~> cpc[c] = "ready"

(* kill_threads() returns whatever it was asked for.                       *)
KillAlwaysReturns ==
  \A c \in Controllers : cpc[c] = "kwait" ~> cpc[c] = "ready"

=============================================================================
